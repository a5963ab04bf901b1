---------------------------- MODULE BudgetStore ----------------------------
(***************************************************************************)
(* What a budget store promises: a request to save an amount or a limit    *)
(* is applied to the rows in one step, and keeps what others have saved;   *)
(* a request that is not applied leaves no trace.  Of the request of an    *)
(* exposed client it promises only that what was asked for is saved, if    *)
(* anything is.                                                            *)
(***************************************************************************)
CONSTANTS
  Clients, Providers, NoRequest,
  NoRows     \* the rows of a file that cannot be read

VARIABLES
  rows,      \* the limit and the spent amount saved for each provider
  requests,  \* what each client wants saved
  exposed    \* clients whose request may undo what others have saved

\* The rows after a request: the limit of one provider, or some amounts.
Saved(stored, r) ==
  CASE r.kind = "limit" -> [stored EXCEPT ![r.provider].limit = r.limit]
    [] r.kind = "spent" ->
         [p \in Providers |-> [stored[p] EXCEPT !.spent = IF p \in r.dirty
                                                          THEN r.spent[p] ELSE @]]

Pending == {c \in Clients : requests[c] # NoRequest}

Submit ==
  \E c \in Clients \ Pending :
    /\ requests'[c] # NoRequest
    /\ \A d \in Clients \ {c} : requests'[d] = requests[d]
    /\ UNCHANGED <<rows, exposed>>

Apply ==
  \E c \in Pending :
    /\ c \notin exposed => rows' = Saved(rows, requests[c])
    /\ rows' \in {Saved(rows', requests[c]), NoRows}
    /\ requests' = [requests EXCEPT ![c] = NoRequest]
    /\ exposed' = exposed \ {c}

Withdraw ==
  \E W \in SUBSET Pending :
    /\ requests' = [c \in Clients |-> IF c \in W THEN NoRequest ELSE requests[c]]
    /\ exposed' = exposed \ W
    /\ UNCHANGED rows

Expose ==
  /\ \E S \in SUBSET Pending : exposed' = exposed \cup S
  /\ UNCHANGED <<rows, requests>>

Next == Submit \/ Apply \/ Withdraw \/ Expose

Spec == Pending = {} /\ exposed = {} /\ [][Next]_<<rows, requests, exposed>>
=============================================================================
