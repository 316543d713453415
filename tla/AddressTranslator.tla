------------------------- MODULE AddressTranslator -------------------------
(***************************************************************************)
(* Tagged pointers (CAddressTranslator.h): the upper 17 bits of a word     *)
(* carry a count, the lower 47 the address.  A word is the pair of both.   *)
(***************************************************************************)
EXTENDS Integers

CONSTANTS
    COUNTER_MAX,  \* how many counts there are: 131072 in the code
    NULL          \* the null address

ASSUME CounterAssumption == COUNTER_MAX \in Nat \ {0}

Counts == 0 .. COUNTER_MAX - 1

GetMetaAddr(cnt, addr) == <<cnt, addr>>
ExtractMetaCnt(word) == word[1]
GetRealAddr(word) == word[2]

\* GetCnt returns the counter, modulo COUNTER_MAX, and raises it.  Only the
\* remainder is ever used, so only the remainder is kept.
AfterGetCnt(cnt) == (cnt + 1) % COUNTER_MAX

\* The word that is 0 as a number
ZeroWord == GetMetaAddr(0, NULL)
=============================================================================
