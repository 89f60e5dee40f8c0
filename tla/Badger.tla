-------------------------------- MODULE Badger --------------------------------
(***************************************************************************)
(* The crunchy-pgbadger container: badger/badgerserver.go answers every    *)
(* GET /badgergenerate in a goroutine of its own.  Each handler runs       *)
(* badger-generate.sh, which has pgbadger write its report to              *)
(* /tmp/badger.html, then reads that file and sends it.  All handlers and  *)
(* all runs of pgbadger share the one file, and nothing locks it.          *)
(*                                                                         *)
(* A report is Size chunks; a chunk is told apart only by the request      *)
(* whose run of pgbadger wrote it.                                         *)
(***************************************************************************)
EXTENDS Naturals

CONSTANTS
  Requests,  \* the requests that may come, each once
  Size,      \* how many chunks pgbadger writes
  NoOne      \* the owner of a chunk that is not there, or of a hole

ASSUME NoOneAssumption == NoOne \notin Requests
ASSUME SizeAssumption == Size \in Nat \ {0}

VARIABLES
  at,      \* how far the handler of each request is
  pos,     \* chunks its pgbadger has written, then chunks it has read back
  file,    \* /tmp/badger.html: the owner of each chunk
  reply,   \* the bytes the handler has read
  met      \* history: the requests that were handled at the same time

vars == <<at, pos, file, reply, met>>

Places == {"new", "parse", "write", "read", "answered", "error"}
Chunks == 1..Size
Owners == Requests \cup {NoOne}
Nothing == [i \in Chunks |-> NoOne]

TypeOK ==
  /\ at \in [Requests -> Places]
  /\ pos \in [Requests -> 0..Size]
  /\ file \in [Chunks -> Owners]
  /\ reply \in [Requests -> [Chunks -> Owners]]
  /\ met \in [Requests -> SUBSET Requests]

-----------------------------------------------------------------------------

Handled(r) == at[r] \in {"parse", "write", "read"}

Goes(r, from, to) == at[r] = from /\ at' = [at EXCEPT ![r] = to]

\* The request comes; its handler starts badger-generate.sh.
BadgerGenerate(r) ==
  /\ Goes(r, "new", "parse")
  /\ met' = [q \in Requests |->
               IF q = r THEN {p \in Requests : Handled(p)}
               ELSE IF Handled(q) THEN met[q] \cup {r} ELSE met[q]]
  /\ UNCHANGED <<pos, file, reply>>

\* pgbadger has parsed the logs and opens its output file, which empties it.
OpenReport(r) ==
  /\ Goes(r, "parse", "write")
  /\ file' = Nothing
  /\ UNCHANGED <<pos, reply, met>>

\* It writes at its own offset: what another run has cut off is a hole.
WriteReport(r) ==
  /\ at[r] = "write"
  /\ pos[r] < Size
  /\ pos' = [pos EXCEPT ![r] = @ + 1]
  /\ file' = [file EXCEPT ![pos[r] + 1] = r]
  /\ UNCHANGED <<at, reply, met>>

\* Mutant: the handler starts pgbadger but does not wait for it.
MutNotWaited(r) ==
  /\ Goes(r, "write", "read")
  /\ pos' = [pos EXCEPT ![r] = 0]
  /\ UNCHANGED <<file, reply, met>>

RunEnds(r) ==
  /\ pos[r] = Size
  /\ Goes(r, "write", "read")
  /\ pos' = [pos EXCEPT ![r] = 0]
  /\ UNCHANGED <<file, reply, met>>

\* Mutants: the error of cmd.Run is logged and forgotten; the handler of a
\* failed run ends without an answer.
MutErrorIgnored(r) ==
  /\ at[r] \in {"parse", "write"}
  /\ at' = [at EXCEPT ![r] = "read"]
  /\ pos' = [pos EXCEPT ![r] = 0]
  /\ UNCHANGED <<file, reply, met>>

MutNoAnswer(r) ==
  /\ at[r] \in {"parse", "write"}
  /\ at' = [at EXCEPT ![r] = "gone"]
  /\ UNCHANGED <<pos, file, reply, met>>

\* pgbadger finds no logs, or dies with part of its report written: the
\* answer is the error.
RunFails(r) ==
  /\ at[r] \in {"parse", "write"}
  /\ at' = [at EXCEPT ![r] = "error"]
  /\ UNCHANGED <<pos, file, reply, met>>

AtEnd(r) == \A i \in Chunks : i > pos[r] => file[i] = NoOne

ReadReport(r) ==
  /\ at[r] = "read"
  /\ ~AtEnd(r)
  /\ pos' = [pos EXCEPT ![r] = @ + 1]
  /\ reply' = [reply EXCEPT ![r][pos[r] + 1] = file[pos[r] + 1]]
  /\ UNCHANGED <<at, file, met>>

\* ReadFile ends with an error: what it has read is dropped.
ReadFails(r) ==
  /\ Goes(r, "read", "error")
  /\ reply' = [reply EXCEPT ![r] = Nothing]
  /\ UNCHANGED <<pos, file, met>>

Answer(r) ==
  /\ AtEnd(r)
  /\ Goes(r, "read", "answered")
  /\ UNCHANGED <<pos, file, reply, met>>

Init ==
  /\ at = [r \in Requests |-> "new"]
  /\ pos = [r \in Requests |-> 0]
  /\ file = Nothing
  /\ reply = [r \in Requests |-> Nothing]
  /\ met = [r \in Requests |-> {}]

Next ==
  \E r \in Requests :
    \/ BadgerGenerate(r) \/ OpenReport(r) \/ WriteReport(r) \/ RunEnds(r)
    \/ RunFails(r) \/ ReadReport(r) \/ ReadFails(r) \/ Answer(r)

Spec == Init /\ [][Next]_vars

-----------------------------------------------------------------------------
(* Properties.                                                             *)

\* Whatever is sent is from the request's own run of pgbadger or from the run of
\* a request that was handled at the same time: the report an earlier request
\* left in /tmp/badger.html is never sent again, also when pgbadger fails.
Fresh == \A r \in Requests, i \in Chunks : reply[r][i] \in {NoOne, r} \cup met[r]

\* A request that was handled alone is answered with the whole report of its
\* own run, whatever earlier runs left in the file.  (Requests that overlap
\* may be answered with a torn report.)
WholeIfAlone ==
  \A r \in Requests : at[r] = "answered" /\ met[r] = {} => \A i \in Chunks : reply[r][i] = r

-----------------------------------------------------------------------------
(* The inductive invariant behind them: from the moment its pgbadger has   *)
(* emptied the file, the file holds chunks of r and of requests beside r   *)
(* only.                                                                   *)

Opened(r) == at[r] \in {"write", "read"}

Meet == \A r, q \in Requests : Handled(r) /\ Handled(q) /\ r # q => q \in met[r]

NotYetRead ==
  \A r \in Requests :
    /\ at[r] \notin {"read", "answered"} => \A i \in Chunks : reply[r][i] = NoOne
    /\ at[r] \in {"new", "parse"} => pos[r] = 0

FileIsFresh ==
  \A r \in Requests : Opened(r) => \A i \in Chunks : file[i] \in {NoOne, r} \cup met[r]

FileIsWhole ==
  \A r \in Requests : Opened(r) /\ met[r] = {} =>
    \A i \in Chunks : at[r] = "read" \/ i <= pos[r] => file[i] = r

ReadIsWhole ==
  \A r \in Requests : at[r] = "read" /\ met[r] = {} =>
    \A i \in Chunks : i <= pos[r] => reply[r][i] = r

BadgerInv ==
  Meet /\ NotYetRead /\ FileIsFresh /\ FileIsWhole /\ ReadIsWhole /\ Fresh /\ WholeIfAlone
=============================================================================
