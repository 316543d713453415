----------------------------- MODULE MCContents -----------------------------
(* Small instances of Contents for TLC. *)
EXTENDS ContentsProps
=============================================================================
