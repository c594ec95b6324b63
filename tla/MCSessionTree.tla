----------------------------- MODULE MCSessionTree -----------------------------
(* A small instance of SessionTree for TLC: every message is one token.    *)
EXTENDS SessionTree

OneToken == [kind \in Speakers |-> 1]
Few == [kind \in EntryKinds |->
          CASE kind \in {"user", "assistant"} -> 3
            [] kind = "compaction" -> 2
            [] OTHER -> 1]
=============================================================================
