----------------------------- MODULE TxContract -----------------------------
(***************************************************************************)
(* What core.WithTx promises (core/dbtx.go:45-48), without connections,    *)
(* savepoints or errors of the wire: a block is open, then ends with a     *)
(* result.  A block that returned nil gives everything it wrote to the     *)
(* block around it, or, as the outermost one, to the store in one step; a  *)
(* block that returned an error or panicked gives nothing.  Only a failing *)
(* Commit of an outermost block leaves the caller unsure.                  *)
(***************************************************************************)
EXTENDS Naturals, Sequences

CONSTANTS Client, BlockId, Mark

VARIABLES work, store, outcome
cvars == <<work, store, outcome>>

Top(c) == work[c][Len(work[c])]
Below(c) == SubSeq(work[c], 1, Len(work[c]) - 1)
Pending(m) == \E c \in Client : \E i \in DOMAIN work[c] : m \in work[c][i].w
Ends(c, b, o) == outcome' = [outcome EXCEPT ![c][b] = o]

\* A block opens, on a new transaction or inside the block around it.
Open(c) ==
  \E b \in BlockId, root \in BOOLEAN :
    /\ outcome[c][b] = "none"
    /\ root \/ work[c] # <<>>
    /\ work' = [work EXCEPT ![c] = Append(@, [b |-> b, root |-> root, w |-> {}])]
    /\ Ends(c, b, "open")
    /\ UNCHANGED store

OpenFails(c) ==
  /\ \E b \in BlockId : outcome[c][b] = "none" /\ Ends(c, b, "beginErr")
  /\ UNCHANGED <<work, store>>

Add(c) ==
  /\ work[c] # <<>>
  /\ \E m \in Mark \ store :
       /\ ~Pending(m)
       /\ work' = [work EXCEPT ![c][Len(work[c])].w = @ \cup {m}]
  /\ UNCHANGED <<store, outcome>>

\* nil from the outermost block: its writes are in the store.
SucceedRoot(c) ==
  /\ work[c] # <<>> /\ Top(c).root
  /\ store' = store \cup Top(c).w
  /\ work' = [work EXCEPT ![c] = Below(c)]
  /\ Ends(c, Top(c).b, "ok")

\* nil from a nested block: its writes share the fate of the block around it.
SucceedNested(c) ==
  /\ work[c] # <<>> /\ ~Top(c).root
  /\ work' = [work EXCEPT ![c] =
       [Below(c) EXCEPT ![Len(Below(c))].w = @ \cup Top(c).w]]
  /\ Ends(c, Top(c).b, "ok")
  /\ UNCHANGED store

\* An error or a panic: its writes are gone.
Fail(c) ==
  /\ work[c] # <<>>
  /\ \E o \in {"err", "panic", "commitErr"} : Ends(c, Top(c).b, o)
  /\ work' = [work EXCEPT ![c] = Below(c)]
  /\ UNCHANGED store

\* The answer of the outermost COMMIT was lost.
Unsure(c) ==
  /\ work[c] # <<>> /\ Top(c).root
  /\ store' = store \cup Top(c).w
  /\ work' = [work EXCEPT ![c] = Below(c)]
  /\ Ends(c, Top(c).b, "commitErr")

CInit ==
  /\ work = [c \in Client |-> <<>>]
  /\ store = {}
  /\ outcome = [c \in Client |-> [b \in BlockId |-> "none"]]

CNext ==
  \E c \in Client :
    \/ Open(c) \/ OpenFails(c) \/ Add(c)
    \/ SucceedRoot(c) \/ SucceedNested(c) \/ Fail(c) \/ Unsure(c)

CSpec == CInit /\ [][CNext]_cvars
=============================================================================
