--------------------------------- MODULE Forks ----------------------------------
(***************************************************************************)
(* Forks of a session: requests with idempotency keys race with each other *)
(* and with the runs of the sessions, which go on extending them.          *)
(*                                                                         *)
(* A request looks its key up, copies a path of the source in one          *)
(* transaction under the lock of the source's row, and reads the new       *)
(* session back in two statements of no transaction.  Its session's id is  *)
(* the one it asks for, or one computed from its key.                      *)
(***************************************************************************)
EXTENDS Naturals, FiniteSets

CONSTANTS
  Requests, \* requests to fork
  Bodies,   \* what each may ask: functions of Requests
  Root,     \* the session that exists at first
  MaxEntry  \* bound: entries

ASSUME ForksAssumption == MaxEntry \in Nat \ {0}

VARIABLES
  sessions, \* by id: entries (an entry's parent, or 0), active leaf, source
  keys,     \* agent_session_idempotency_keys: by key, session and source
  lastEntry,
  body,     \* what each request asks: key, source, target, position, id
  doing,    \* what each request does next, or how it ended
  answer    \* the session a request answers with

forkVars == <<sessions, keys, lastEntry, body, doing, answer>>

NoSession == [id |-> "none", entries |-> <<>>, leaf |-> 0]

ForksInit ==
  /\ sessions = [s \in {Root} |-> [entries |-> <<0>>, leaf |-> 1, source |-> "none"]]
  /\ keys = <<>> /\ lastEntry = 1
  /\ body \in Bodies
  /\ doing = [r \in Requests |-> "lookup"] /\ answer = [r \in Requests |-> NoSession]

-----------------------------------------------------------------------------

Goes(r, next)    == doing' = [doing EXCEPT ![r] = next]
Answers(r, id)   == answer' = [answer EXCEPT ![r].id = id]
Extended(f, x, y) == [z \in DOMAIN f \cup {x} |-> IF z = x THEN y ELSE f[z]]

\* A slip, for the check of the properties: the key alone decides.
BadReplay(r) == Goes(r, "row") /\ Answers(r, keys[body[r].key].session)

\* A known key is answered with its session, and is an error with another source.
Replay(r) ==
  LET row == keys[body[r].key]
  IN  IF row.source = body[r].source
      THEN Goes(r, "row") /\ Answers(r, row.session)
      ELSE Goes(r, "conflict") /\ UNCHANGED answer

LookUp(r) ==
  /\ doing[r] = "lookup"
  /\ IF body[r].key \in DOMAIN keys THEN Replay(r) ELSE Goes(r, "fork") /\ UNCHANGED answer
  /\ UNCHANGED <<sessions, keys, lastEntry, body>>

\* An entry and its ancestors.
Ancestors(parents, entry) ==
  LET path[e \in 0..MaxEntry] ==
        IF e = 0 THEN {}
        ELSE IF e \in DOMAIN parents THEN path[parents[e]] \cup {e} ELSE {e}
  IN  path[entry]

\* The entry to fork at: the target or the leaf, or the one before it.
LeafOf(r) ==
  LET source == sessions[body[r].source]
      target == IF body[r].target # 0 THEN body[r].target ELSE source.leaf
  IN  IF target \notin DOMAIN source.entries THEN 0
      ELSE IF body[r].position = "before" THEN source.entries[target] ELSE target

\* Only a fork before the root is a conflict.
Reason(r) ==
  LET source == sessions[body[r].source]
      target == IF body[r].target # 0 THEN body[r].target ELSE source.leaf
  IN  IF target \in DOMAIN source.entries THEN "conflict" ELSE "missing"

SessionID(r) == IF body[r].id # "none" THEN body[r].id ELSE body[r].key

Copy(r) ==
  LET source == sessions[body[r].source]
  IN  [entries |-> [e \in Ancestors(source.entries, LeafOf(r)) |-> source.entries[e]],
       leaf |-> LeafOf(r), source |-> body[r].source]

\* The transaction.
Fork(r) ==
  /\ doing[r] = "fork"
  /\ \/ /\ body[r].source \notin DOMAIN sessions
        /\ Goes(r, "missing") /\ UNCHANGED <<sessions, keys, answer>>
     \/ /\ body[r].source \in DOMAIN sessions /\ LeafOf(r) = 0
        /\ Goes(r, Reason(r)) /\ UNCHANGED <<sessions, keys, answer>>
     \/ /\ body[r].source \in DOMAIN sessions /\ LeafOf(r) # 0
        /\ SessionID(r) \in DOMAIN sessions
        /\ IF body[r].key \in DOMAIN keys THEN Replay(r)
           ELSE Goes(r, "conflict") /\ UNCHANGED answer
        /\ UNCHANGED <<sessions, keys>>
     \/ /\ body[r].source \in DOMAIN sessions /\ LeafOf(r) # 0
        /\ SessionID(r) \notin DOMAIN sessions /\ body[r].key \in DOMAIN keys
        /\ Goes(r, "failed") /\ UNCHANGED <<sessions, keys, answer>>
     \/ /\ body[r].source \in DOMAIN sessions /\ LeafOf(r) # 0
        /\ SessionID(r) \notin DOMAIN sessions /\ body[r].key \notin DOMAIN keys
        /\ sessions' = Extended(sessions, SessionID(r), Copy(r))
        /\ keys' = Extended(keys, body[r].key,
                            [session |-> SessionID(r), source |-> body[r].source])
        /\ Goes(r, "row") /\ Answers(r, SessionID(r))
  /\ UNCHANGED <<lastEntry, body>>

\* GetSession: the row first, then the entries.
ReadRow(r) ==
  /\ doing[r] = "row"
  /\ Goes(r, "entries")
  /\ answer' = [answer EXCEPT ![r].leaf = sessions[answer[r].id].leaf]
  /\ UNCHANGED <<sessions, keys, lastEntry, body>>

ReadEntries(r) ==
  /\ doing[r] = "entries"
  /\ Goes(r, "done")
  /\ answer' = [answer EXCEPT ![r].entries = sessions[answer[r].id].entries]
  /\ UNCHANGED <<sessions, keys, lastEntry, body>>

\* A run of a session saves a new entry on some branch.
SaveEntry(s, parent) ==
  /\ lastEntry < MaxEntry /\ parent \in DOMAIN sessions[s].entries
  /\ lastEntry' = lastEntry + 1
  /\ sessions' = [sessions EXCEPT ![s].entries = Extended(@, lastEntry', parent),
                                  ![s].leaf = lastEntry']
  /\ UNCHANGED <<keys, body, doing, answer>>

ForksNext ==
  \/ \E r \in Requests : LookUp(r) \/ Fork(r) \/ ReadRow(r) \/ ReadEntries(r)
  \/ \E s \in DOMAIN sessions, parent \in 1..MaxEntry : SaveEntry(s, parent)

ForksSpec == ForksInit /\ [][ForksNext]_forkVars

-----------------------------------------------------------------------------
(* Properties.                                                             *)

\* However requests, retries and runs interleave: a key gets one fork of one
\* source; every fork, and every answer, is a whole branch from the root to its
\* leaf; a fork keeps the history of its source; and no fork is without a key.
ForksWhole ==
  /\ \A r, q \in Requests :
       doing[r] = "done" /\ doing[q] = "done" /\ body[r].key = body[q].key =>
         /\ answer[r].id = answer[q].id /\ body[r].source = body[q].source
  /\ \A r \in Requests : doing[r] = "done" =>
       Ancestors(answer[r].entries, answer[r].leaf) \subseteq DOMAIN answer[r].entries
  /\ \A s \in DOMAIN sessions \ {Root} :
       LET fork == sessions[s]
           old  == DOMAIN fork.entries \cap DOMAIN sessions[fork.source].entries
       IN  /\ Ancestors(fork.entries, fork.leaf) \subseteq DOMAIN fork.entries
           /\ old # {} /\ \A e \in old : fork.entries[e] = sessions[fork.source].entries[e]
           /\ \E k \in DOMAIN keys : keys[k] = [session |-> s, source |-> fork.source]
=============================================================================
