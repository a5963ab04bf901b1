---------------------------- MODULE BudgetLedger ----------------------------
(***************************************************************************)
(* The budget ledger (src/pandapal/config/budget/ledger.py) of one user,   *)
(* over its JSON file (repo.py), with those who call it: the executor at   *)
(* the start, at each step and at the end of a run                         *)
(* (src/pandapal/scheduler/executor.py, the guard in config/budget), and   *)
(* the IPC handler that sets a limit (src/pandapal/budget/handler.py).     *)
(*                                                                         *)
(* All of them run in one event loop; an action is the code between two    *)
(* awaits.  The file is read and written in a worker thread.               *)
(***************************************************************************)
EXTENDS Naturals, Sequences

CONSTANTS
  Runs,         \* runs of the agents
  Setters,      \* requests of the user to set a limit
  Providers,    \* LLM providers
  Limits,       \* limits the user may set
  NoLimit,      \* the account has no limit
  NoRequest,    \* a caller that asks the repository for nothing
  MaxSteps,     \* bound on the steps of a run
  MaxCrashes    \* bound on the crashes of the process

Row == [limit : Limits \cup {NoLimit}, spent : Nat]

Request ==
  [kind : {"limit"}, provider : Providers, limit : Limits]
    \cup [kind : {"spent"}, dirty : SUBSET Providers, spent : [Providers -> Nat]]

ASSUME BudgetAssumption ==
  /\ Runs \cap Setters = {}
  /\ Limits \subseteq Nat
  /\ NoLimit \notin Nat
  /\ NoRequest \notin Request
  /\ MaxSteps \in Nat /\ MaxCrashes \in Nat

Callers == Runs \cup Setters

VARIABLES
  pc,        \* where each caller is
  of,        \* the provider each caller is about
  taken,     \* steps each run has taken
  account,   \* _accounts: the spent amount and the limit, by provider
  loaded,    \* providers whose account comes from the file
  dirty,     \* _dirty
  seed,      \* "none", "reading", "read" or "done"
  seeder,    \* the callers that wait for the rows
  rows,      \* the rows the seed has read
  before,    \* the limit and the account object a setter has found
  request,   \* what a caller asks the repository to save
  line,      \* callers at _write_lock, its holder first
  copy,      \* the rows a caller has read to change them, <<>> before
  disk,      \* the rows of the file
  beside,    \* callers whose thread works next to one that was left behind
  blind,     \* history: callers whose thread could not read the rows
  charged,   \* what the LLM calls have cost, by provider
  crashes

people == <<pc, of, taken>>
memory == <<account, loaded, dirty, before>>
seeding == <<seed, seeder, rows>>
store == <<request, line, copy, disk, beside, blind>>
vars == <<people, memory, seeding, store, charged, crashes>>

Stages ==
  {"new", "seeding", "starting", "live", "ending", "saving", "saved", "failed", "left", "over"}

TypeOK ==
  /\ pc \in [Callers -> Stages]
  /\ of \in [Callers -> Providers]
  /\ taken \in [Runs -> 0..MaxSteps]
  /\ account \in [Providers -> Row]
  /\ loaded \subseteq Providers /\ dirty \subseteq Providers
  /\ seed \in {"none", "reading", "read", "done"}
  /\ seeder \subseteq Callers
  /\ rows \in [Providers -> Row]
  /\ before \in [Setters -> [limit : Limits \cup {NoLimit}, loaded : BOOLEAN]]
  /\ request \in [Callers -> Request \cup {NoRequest}]
  /\ line \in Seq(Callers)
  /\ \A c \in Callers :
       (\E i \in DOMAIN line : line[i] = c) <=> pc[c] \in {"saving", "saved", "failed"}
  /\ copy \in [Callers -> {<<>>} \cup [Providers -> Row]]
  /\ disk \in [Providers -> Row]
  /\ beside \subseteq Callers /\ blind \subseteq Callers
  /\ charged \in [Providers -> Nat]
  /\ crashes \in 0..MaxCrashes

Empty == [p \in Providers |-> [limit |-> NoLimit, spent |-> 0]]

Init ==
  /\ pc = [c \in Callers |-> "new"]
  /\ of \in [Callers -> Providers]
  /\ taken = [r \in Runs |-> 0]
  /\ account = Empty /\ loaded = {} /\ dirty = {}
  /\ seed = "none" /\ seeder = {} /\ rows = Empty
  /\ before = [s \in Setters |-> [limit |-> NoLimit, loaded |-> FALSE]]
  /\ request = [c \in Callers |-> NoRequest]
  /\ line = <<>> /\ copy = [c \in Callers |-> <<>>]
  /\ disk = Empty
  /\ beside = {} /\ blind = {}
  /\ charged = [p \in Providers |-> 0]
  /\ crashes = 0

Moves(c, stage) == pc' = [pc EXCEPT ![c] = stage]

Exhausted(p) == account[p].limit # NoLimit /\ account[p].spent >= account[p].limit

----------------------------------------------------------------------------
(* seed_from_store: the first caller reads the file and waits; whoever     *)
(* comes later goes on at once, also while the file is being read.         *)

Enter(c) ==
  /\ pc[c] = "new"
  /\ \/ /\ seed = "none"
        /\ seed' = "reading"
        /\ seeder' = {c}
        /\ Moves(c, "seeding")
     \/ /\ seed # "none"
        /\ Moves(c, "starting")
        /\ UNCHANGED <<seed, seeder>>
  /\ UNCHANGED <<of, taken, memory, rows, store, charged, crashes>>

\* The status query of the desktop seeds the ledger too.
Query ==
  /\ seed = "none"
  /\ seed' = "reading"
  /\ UNCHANGED <<people, memory, seeder, rows, store, charged, crashes>>

\* A file that cannot be read counts as empty.
ReadFile ==
  /\ seed = "reading"
  /\ seed' = "read"
  /\ rows' \in {disk, Empty}
  /\ UNCHANGED <<people, memory, seeder, store, charged, crashes>>

\* Mutant: the saved amount is added to what is there.
InsteadOfAdded(p) == [rows[p] EXCEPT !.spent = @ + account[p].spent]

Instead(p) == rows[p]

\* The rows that the file has replace the accounts of memory.
Seeded ==
  /\ seed = "read"
  /\ seed' = "done"
  /\ seeder' = {}
  /\ loaded' = {p \in Providers : rows[p] # Empty[p]}
  /\ account' = [p \in Providers |-> IF p \in loaded' THEN Instead(p) ELSE account[p]]
  /\ pc' = [c \in Callers |-> IF c \in seeder THEN "starting" ELSE pc[c]]
  /\ UNCHANGED <<of, taken, dirty, before, rows, store, charged, crashes>>

----------------------------------------------------------------------------
(* A run: unless it is a resumed one it is checked first; each step is     *)
(* charged, and ends the run when the account is exhausted.                *)

Start(r) ==
  /\ pc[r] = "starting"
  /\ \/ Moves(r, "live")
     \/ Exhausted(of[r]) /\ Moves(r, "over")
  /\ UNCHANGED <<of, taken, memory, seeding, store, charged, crashes>>

RecordStep(r) ==
  /\ pc[r] = "live"
  /\ taken[r] < MaxSteps
  /\ LET p == of[r]
     IN /\ taken' = [taken EXCEPT ![r] = @ + 1]
        /\ charged' = [charged EXCEPT ![p] = @ + 1]
        /\ account' = [account EXCEPT ![p].spent = @ + 1]
        /\ dirty' = dirty \cup {p}
        /\ IF account'[p].limit # NoLimit /\ account'[p].spent >= account'[p].limit
           THEN Moves(r, "ending") ELSE UNCHANGED pc
  /\ UNCHANGED <<of, loaded, before, seeding, store, crashes>>

\* A run that fails before its first event has nothing to save.
EndRun(r) ==
  /\ pc[r] = "live"
  /\ Moves(r, "ending") \/ (taken[r] = 0 /\ Moves(r, "over"))
  /\ UNCHANGED <<of, taken, memory, seeding, store, charged, crashes>>

----------------------------------------------------------------------------
(* The repository: a lock around reading the rows, changing them in a      *)
(* copy, and replacing the file by the copy.                               *)

Ask(c, r) ==
  /\ request' = [request EXCEPT ![c] = r]
  /\ line' = Append(line, c)
  /\ Moves(c, "saving")
  /\ UNCHANGED <<copy, disk, beside, blind>>

Flush(r) ==
  /\ pc[r] = "ending"
  /\ \/ dirty = {} /\ Moves(r, "over") /\ UNCHANGED store
     \/ /\ dirty # {}
        /\ Ask(r, [kind |-> "spent", dirty |-> dirty,
                   spent |-> [p \in Providers |-> account[p].spent]])
  /\ UNCHANGED <<of, taken, memory, seeding, charged, crashes>>

SetBudget(s) ==
  /\ pc[s] = "starting"
  /\ \E l \in Limits :
       /\ before' = [before EXCEPT ![s] =
            [limit |-> account[of[s]].limit, loaded |-> of[s] \in loaded]]
       /\ account' = [account EXCEPT ![of[s]].limit = l]
       /\ Ask(s, [kind |-> "limit", provider |-> of[s], limit |-> l])
  /\ UNCHANGED <<of, taken, loaded, dirty, seeding, charged, crashes>>

\* Mutant: writers are not serialised.
HoldsAnyPlace(c) == pc[c] = "saving"

Holds(c) == line # <<>> /\ Head(line) = c /\ pc[c] = "saving"

\* The thread of a caller runs while the caller holds the lock, and goes on when
\* the caller is cancelled.
Works(c) == Holds(c) \/ pc[c] = "left"

LeftBeside(c) == {d \in Callers : copy[d] # <<>> /\ "left" \in {pc[c], pc[d]}}

\* A file that cannot be read counts as empty here, too.
ReadRows(c) ==
  /\ Works(c)
  /\ copy[c] = <<>>
  /\ \/ copy' = [copy EXCEPT ![c] = disk] /\ UNCHANGED blind
     \/ /\ disk # Empty
        /\ copy' = [copy EXCEPT ![c] = Empty]
        /\ blind' = blind \cup {c}
  /\ beside' = IF LeftBeside(c) = {} THEN beside ELSE beside \cup LeftBeside(c) \cup {c}
  /\ UNCHANGED <<people, memory, seeding, request, line, disk, charged, crashes>>

Disk == INSTANCE BudgetStore WITH
  Clients <- Callers, rows <- disk, requests <- request, exposed <- beside \cup blind,
  NoRows <- Empty

\* Two threads at work share the temporary file: one may find it replaced, and
\* one may leave a file that cannot be read.
WriteRows(c) ==
  /\ Works(c)
  /\ copy[c] # <<>>
  /\ \E outcome \in {"saved", "failed"} :
       /\ Moves(c, IF pc[c] = "left" THEN "over" ELSE outcome)
       /\ \/ outcome = "saved" /\ disk' = Disk!Saved(copy[c], request[c])
          \/ outcome = "failed" /\ UNCHANGED disk
          \/ c \in beside /\ disk' \in {Disk!Saved(copy[c], request[c]), Empty}
  /\ copy' = [copy EXCEPT ![c] = <<>>]
  /\ request' = [request EXCEPT ![c] = NoRequest]
  /\ beside' = beside \ {c} /\ blind' = blind \ {c}
  /\ UNCHANGED <<of, taken, memory, seeding, line, charged, crashes>>

\* Mutant: only a caller that has saved releases the lock.
ReleaseWhenSaved(c) ==
  /\ line' = IF pc[c] = "saved" THEN Tail(line) ELSE line
  /\ Moves(c, "over")
  /\ UNCHANGED <<of, taken, seeding, request, copy, disk, beside, blind, charged, crashes>>

\* Back in the loop: the lock is released and the caller goes on.
Release(c) ==
  /\ line' = Tail(line)
  /\ Moves(c, "over")
  /\ UNCHANGED <<of, taken, seeding, request, copy, disk, beside, blind, charged, crashes>>

FlushDone(r) ==
  /\ \/ pc[r] = "saved" /\ dirty' = {}
     \/ pc[r] = "failed" /\ UNCHANGED dirty
  /\ Release(r)
  /\ UNCHANGED <<account, loaded, before>>

\* The limit is put back in the account object that the setter has changed.
SetDone(s) ==
  /\ \/ pc[s] = "saved" /\ UNCHANGED account
     \/ /\ pc[s] = "failed"
        /\ account' = IF before[s].loaded = (of[s] \in loaded)
                      THEN [account EXCEPT ![of[s]].limit = before[s].limit]
                      ELSE account
  /\ Release(s)
  /\ UNCHANGED <<loaded, dirty, before>>

----------------------------------------------------------------------------
(* A run is cancelled, by the timeout of the router or with its session;   *)
(* no handler catches that.  While it is live the run just ends, by EndRun.*)

CancelStart(r) ==
  /\ pc[r] = "starting"
  /\ Moves(r, "over")
  /\ UNCHANGED <<of, taken, memory, seeding, store, charged, crashes>>

\* The rows that a cancelled run waits for are never taken over.
CancelSeed(r) ==
  /\ r \in seeder
  /\ seed' = "done"
  /\ seeder' = {}
  /\ Moves(r, "over")
  /\ UNCHANGED <<of, taken, memory, rows, store, charged, crashes>>

\* A run at the repository gives up its place, or the lock.  Nothing is saved if
\* its thread has not been started; nothing is remembered of what was saved.
CancelSave(r) ==
  /\ \E i \in DOMAIN line :
       line[i] = r /\ line' = SubSeq(line, 1, i - 1) \o SubSeq(line, i + 1, Len(line))
  /\ \/ /\ pc[r] = "saving" /\ copy[r] = <<>>
        /\ request' = [request EXCEPT ![r] = NoRequest]
        /\ Moves(r, "over")
     \/ Holds(r) /\ Moves(r, "left") /\ UNCHANGED request
     \/ pc[r] \in {"saved", "failed"} /\ Moves(r, "over") /\ UNCHANGED request
  /\ UNCHANGED <<of, taken, memory, seeding, copy, disk, beside, blind, charged, crashes>>

Cancel(r) == CancelStart(r) \/ CancelSeed(r) \/ CancelSave(r)

----------------------------------------------------------------------------

\* The process dies; the file stays, the callers are gone.
Crash ==
  /\ crashes < MaxCrashes
  /\ crashes' = crashes + 1
  /\ pc' = [c \in Callers |-> IF pc[c] = "new" THEN "new" ELSE "over"]
  /\ account' = Empty /\ loaded' = {} /\ dirty' = {}
  /\ seed' = "none" /\ seeder' = {}
  /\ request' = [c \in Callers |-> NoRequest]
  /\ line' = <<>> /\ copy' = [c \in Callers |-> <<>>]
  /\ beside' = {} /\ blind' = {}
  /\ UNCHANGED <<of, taken, before, rows, disk, charged>>

Next ==
  \/ Query \/ ReadFile \/ Seeded \/ Crash
  \/ \E c \in Callers : Enter(c) \/ ReadRows(c) \/ WriteRows(c)
  \/ \E r \in Runs : Start(r) \/ RecordStep(r) \/ EndRun(r) \/ Flush(r) \/ FlushDone(r)
  \/ \E r \in Runs : Cancel(r)
  \/ \E s \in Setters : SetBudget(s) \/ SetDone(s)

Spec == Init /\ [][Next]_vars

----------------------------------------------------------------------------

\* A call of the LLM is counted at most once, in the account and in the
\* file, whatever is saved, seeded again after a restart, or fails.
CountedOnce ==
  \A p \in Providers : account[p].spent <= charged[p] /\ disk[p].spent <= charged[p]

\* The file under its lock is a store with atomic requests: no request undoes
\* what another has saved (the class comment of JsonFileBudgetRepo), unless its
\* thread has failed to read the rows, or has worked next to the thread of a run
\* that was cancelled.
ImplementsStore == Disk!Spec

=============================================================================
