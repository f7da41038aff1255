------------------------------- MODULE WithTx -------------------------------
(***************************************************************************)
(* core.WithTx (core/dbtx.go) under concurrent clients that share a        *)
(* connection pool.  Every call runs Begin, the caller's fn and Commit or  *)
(* Rollback; fn may write, open further WithTx blocks on the handle it was *)
(* given (a savepoint of the same transaction) or on the pool (a second    *)
(* connection), swallow the errors and recover the panics of those blocks, *)
(* and end by returning nil, returning an error, panicking, or leaving     *)
(* the goroutine with runtime.Goexit.                                      *)
(*                                                                         *)
(* The pool, the transaction handles of pgx and the server are external:   *)
(* a connection is the stack of the write sets of its open savepoints.     *)
(***************************************************************************)
EXTENDS Integers, Sequences, FiniteSets

CONSTANTS
  Client,      \* goroutines
  Conn,        \* connections of the pool
  Exits,       \* how fn may end: a subset of {"ok", "err", "panic", "goexit"}
  NestVia,     \* what nested blocks are opened on: a subset of {"tx", "pool"}
  CtxMayEnd,   \* contexts may be cancelled or time out
  MaxDepth,    \* bound: blocks open at once, per client
  MaxBlocks,   \* bound: blocks per client
  MaxWrites,   \* bound: writes per block
  MaxFaults    \* bound: lost connections, failing statements, lost answers

ASSUME WithTxAssumption ==
  /\ Exits \subseteq {"ok", "err", "panic", "goexit"}
  /\ NestVia \subseteq {"tx", "pool"}
  /\ CtxMayEnd \in BOOLEAN
  /\ {MaxDepth, MaxBlocks, MaxWrites, MaxFaults} \subseteq Nat

VARIABLES
  pc,       \* where each client is: in fn code, in Begin, after fn, gone
  frames,   \* its open WithTx calls, innermost last
  free,     \* connections waiting in the pool
  tx,       \* per connection: write sets of the transaction and its savepoints
  failed,   \* per connection: savepoint level of a failed statement, or 0
  dead,     \* connections that were lost while in use
  store,    \* the committed writes
  outcome,  \* history: how each block ended
  written,  \* history: what each block wrote through its handle
  faults    \* faults so far
vars == <<pc, frames, free, tx, failed, dead, store, outcome, written, faults>>

BlockId == 1 .. MaxBlocks
Mark == Client \X BlockId \X (1 .. MaxWrites)
PC == {"run", "acquire", "ok", "err", "panic", "goexit"}
Outcome == {"none", "open", "ok", "err", "panic", "beginErr", "commitErr"}
Frame == [b : BlockId, conn : Conn, level : 1 .. MaxDepth, done : BOOLEAN]

\* Types; a lost connection is never one that waits in the pool (dbtx.go:49-74).
TypeOK ==
  /\ pc \in [Client -> PC]
  /\ frames \in [Client -> Seq(Frame)]
  /\ free \subseteq Conn
  /\ tx \in [Conn -> Seq(SUBSET Mark)]
  /\ failed \in [Conn -> 0 .. MaxDepth]
  /\ dead \subseteq Conn \ free
  /\ store \subseteq Mark
  /\ outcome \in [Client -> [BlockId -> Outcome]]
  /\ written \in [Client -> [BlockId -> SUBSET Mark]]
  /\ faults \in 0 .. MaxFaults
-----------------------------------------------------------------------------
Depth(c) == Len(frames[c])
Top(c) == frames[c][Depth(c)]
Pop(c) == frames' = [frames EXCEPT ![c] = SubSeq(@, 1, Depth(c) - 1)]
Goto(c, l) == pc' = [pc EXCEPT ![c] = l]
Ends(c, b, o) == outcome' = [outcome EXCEPT ![c][b] = o]

\* Block numbers are handed out in the order of the calls.
Used(c) == {b \in BlockId : outcome[c][b] # "none"}
NextBlock(c) == Cardinality(Used(c)) + 1

\* Is the session usable through this handle?  A done context sends nothing.
Reaches(f) == ~f.done /\ f.conn \notin dead

\* Everything a connection wrote from savepoint level l on.
WritesFrom(k, l) == UNION {tx[k][i] : i \in l .. Len(tx[k])}

\* Mutant: a lost connection goes back into the pool as it is.
ReleaseDead(k) ==
  /\ free' = free \cup {k}
  /\ tx' = [tx EXCEPT ![k] = <<>>]
  /\ failed' = [failed EXCEPT ![k] = 0]
  /\ UNCHANGED dead

\* The connection goes back; a lost or closed one is replaced by a new one.
Release(k) ==
  /\ free' = free \cup {k}
  /\ tx' = [tx EXCEPT ![k] = <<>>]
  /\ failed' = [failed EXCEPT ![k] = 0]
  /\ dead' = dead \ {k}
KeepConns == UNCHANGED <<free, tx, failed, dead>>
-----------------------------------------------------------------------------
(* Begin *)

\* WithTx(ctx, pool, fn): the pool can begin; Begin waits for a connection.
CallOnPool(c) ==
  /\ pc[c] = "run"
  /\ frames[c] = <<>> \/ "pool" \in NestVia
  /\ Depth(c) < MaxDepth /\ NextBlock(c) \in BlockId
  /\ Goto(c, "acquire")
  /\ UNCHANGED <<frames, free, tx, failed, dead, store, outcome, written, faults>>

Begun(c, k, l) ==
  /\ frames' = [frames EXCEPT ![c] =
       Append(@, [b |-> NextBlock(c), conn |-> k, level |-> l,
                  done |-> IF @ = <<>> THEN FALSE ELSE @[Len(@)].done])]
  /\ Ends(c, NextBlock(c), "open")

Acquire(c) ==
  /\ pc[c] = "acquire"
  /\ \E k \in free :
       /\ free' = free \ {k}
       /\ tx' = [tx EXCEPT ![k] = <<{}>>]
       /\ Begun(c, k, 1)
  /\ Goto(c, "run")
  /\ UNCHANGED <<failed, dead, store, written, faults>>

\* Begin fails: the context ended while waiting.  WithTx returns at once.
AcquireFails(c) ==
  /\ pc[c] = "acquire"
  /\ CtxMayEnd
  /\ Ends(c, NextBlock(c), "beginErr")
  /\ Goto(c, "run")
  /\ KeepConns
  /\ UNCHANGED <<frames, store, written, faults>>

\* WithTx(ctx, tx, fn): a pgx.Tx has Begin too, which opens a savepoint.
CallOnTx(c) ==
  /\ pc[c] = "run"
  /\ frames[c] # <<>> /\ "tx" \in NestVia
  /\ Depth(c) < MaxDepth /\ NextBlock(c) \in BlockId
  /\ LET f == Top(c) k == Top(c).conn IN
     IF Reaches(f) /\ failed[k] = 0 /\ Len(tx[k]) < MaxDepth
       THEN /\ tx' = [tx EXCEPT ![k] = Append(@, {})]
            /\ Begun(c, k, Len(tx[k]) + 1)
       ELSE /\ Ends(c, NextBlock(c), "beginErr")
            /\ UNCHANGED <<tx, frames>>
  /\ UNCHANGED <<pc, free, failed, dead, store, written, faults>>
-----------------------------------------------------------------------------
(* fn *)

\* Mutant: fn is given db instead of tx.
WriteOutsideTx(c) ==
  /\ pc[c] = "run" /\ frames[c] # <<>>
  /\ LET f == Top(c)
         m == <<c, f.b, Cardinality(written[c][f.b]) + 1>>
     IN /\ Reaches(f) /\ failed[f.conn] = 0
        /\ m \in Mark
        /\ store' = store \cup {m}
        /\ written' = [written EXCEPT ![c][f.b] = @ \cup {m}]
  /\ UNCHANGED <<pc, frames, free, tx, failed, dead, outcome, faults>>

\* A statement through the handle fn was given.
Write(c) ==
  /\ pc[c] = "run" /\ frames[c] # <<>>
  /\ LET f == Top(c)
         m == <<c, f.b, Cardinality(written[c][f.b]) + 1>>
     IN /\ Reaches(f) /\ failed[f.conn] = 0
        /\ m \in Mark
        /\ tx' = [tx EXCEPT ![f.conn][Len(tx[f.conn])] = @ \cup {m}]
        /\ written' = [written EXCEPT ![c][f.b] = @ \cup {m}]
  /\ UNCHANGED <<pc, frames, free, failed, dead, store, outcome, faults>>

Fault == faults < MaxFaults /\ faults' = faults + 1

\* A statement fails (a constraint): the transaction is aborted from here on.
StatementFails(c) ==
  /\ pc[c] = "run" /\ frames[c] # <<>>
  /\ Fault
  /\ LET f == Top(c) IN
     /\ Reaches(f) /\ failed[f.conn] = 0
     /\ failed' = [failed EXCEPT ![f.conn] = Len(tx[f.conn])]
  /\ UNCHANGED <<pc, frames, free, tx, dead, store, outcome, written>>

\* fn ends; whatever it did with the errors of its statements and blocks.
FnEnds(c) ==
  /\ pc[c] = "run" /\ frames[c] # <<>>
  /\ \E r \in Exits : Goto(c, r)
  /\ UNCHANGED <<frames, free, tx, failed, dead, store, outcome, written, faults>>

\* The context of an open block ends, and those derived from it.
CtxEnds(c) ==
  /\ CtxMayEnd
  /\ \E i \in 1 .. Depth(c) :
       /\ ~frames[c][i].done
       /\ frames' = [frames EXCEPT ![c] =
            [j \in DOMAIN @ |-> IF j >= i THEN [@[j] EXCEPT !.done = TRUE] ELSE @[j]]]
  /\ UNCHANGED <<pc, free, tx, failed, dead, store, outcome, written, faults>>

\* A connection in use is lost; the server rolls its transaction back, and
\* nothing that tx still says of it can be reached any more.
ConnLost ==
  /\ Fault
  /\ \E k \in Conn \ (free \cup dead) : dead' = dead \cup {k}
  /\ UNCHANGED <<pc, frames, free, tx, failed, store, outcome, written>>
-----------------------------------------------------------------------------
(* After fn *)

\* Mutant: only the outermost block rolls back.
UndoOutermost(c) ==
  IF Top(c).level = 1 THEN Release(Top(c).conn) ELSE KeepConns

\* tx.Rollback(ctx), its result ignored.  The outermost handle closes the
\* connection when the statement cannot be sent, so the server undoes the
\* transaction in any case; a savepoint handle does nothing then.
UndoTop(c) ==
  LET f == Top(c) IN
  IF f.level = 1 THEN Release(f.conn)
  ELSE /\ IF Reaches(f)
            THEN /\ tx' = [tx EXCEPT ![f.conn] = SubSeq(@, 1, f.level - 1)]
                 /\ failed' = [failed EXCEPT ![f.conn] = IF @ >= f.level THEN 0 ELSE @]
            ELSE UNCHANGED <<tx, failed>>
       /\ UNCHANGED <<free, dead>>

\* Mutant: the error is returned without a rollback.
NoRollbackOnError(c) ==
  /\ pc[c] = "err"
  /\ KeepConns
  /\ Ends(c, Top(c).b, "err")
  /\ Pop(c)
  /\ Goto(c, "run")
  /\ UNCHANGED <<store, written, faults>>

\* fn returned an error: roll back and return it to the code around.
RollbackOnError(c) ==
  /\ pc[c] = "err"
  /\ UndoTop(c)
  /\ Ends(c, Top(c).b, "err")
  /\ Pop(c)
  /\ Goto(c, "run")
  /\ UNCHANGED <<store, written, faults>>

\* Mutant: no deferred function.
NoRollbackOnPanic(c) ==
  /\ pc[c] = "panic"
  /\ KeepConns
  /\ Ends(c, Top(c).b, "panic")
  /\ Pop(c)
  /\ \E l \in {"run"} \cup (IF Depth(c) > 1 THEN {"panic"} ELSE {}) : Goto(c, l)
  /\ UNCHANGED <<store, written, faults>>

\* fn panicked: the deferred function rolls back and panics again, in the fn
\* of the enclosing block if there is one, which may recover.
RollbackOnPanic(c) ==
  /\ pc[c] = "panic"
  /\ UndoTop(c)
  /\ Ends(c, Top(c).b, "panic")
  /\ Pop(c)
  /\ \E l \in {"run"} \cup (IF Depth(c) > 1 THEN {"panic"} ELSE {}) : Goto(c, l)
  /\ UNCHANGED <<store, written, faults>>

\* Mutant: a rollback that is deferred unconditionally comes first.
CommitAfterRollback(c) ==
  /\ pc[c] = "ok"
  /\ Reaches(Top(c)) /\ failed[Top(c).conn] = 0
  /\ UndoTop(c)
  /\ Ends(c, Top(c).b, "ok")
  /\ Pop(c)
  /\ Goto(c, "run")
  /\ UNCHANGED <<store, written, faults>>

\* fn returned nil and Commit succeeds: a savepoint joins the level below.
Commit(c) ==
  /\ pc[c] = "ok"
  /\ LET f == Top(c) IN
     /\ Reaches(f) /\ failed[f.conn] = 0
     /\ IF f.level = 1
          THEN /\ store' = store \cup WritesFrom(f.conn, 1)
               /\ Release(f.conn)
          ELSE /\ tx' = [tx EXCEPT ![f.conn] =
                    Append(SubSeq(@, 1, f.level - 2), WritesFrom(f.conn, f.level - 1))]
               /\ UNCHANGED <<store, free, failed, dead>>
     /\ Ends(c, f.b, "ok")
  /\ Pop(c)
  /\ Goto(c, "run")
  /\ UNCHANGED <<written, faults>>

\* Mutants: the error of Commit is dropped; its transaction is not closed.
CommitErrorDropped(c) ==
  /\ pc[c] = "ok"
  /\ LET f == Top(c) IN
     /\ ~Reaches(f) \/ failed[f.conn] # 0
     /\ IF f.level = 1 THEN Release(f.conn) ELSE KeepConns
     /\ Ends(c, f.b, "ok")
  /\ Pop(c)
  /\ Goto(c, "run")
  /\ UNCHANGED <<store, written, faults>>
CommitFailsOpen(c) ==
  /\ pc[c] = "ok"
  /\ LET f == Top(c) IN
     /\ ~Reaches(f) \/ failed[f.conn] # 0
     /\ KeepConns
     /\ Ends(c, f.b, "commitErr")
  /\ Pop(c)
  /\ Goto(c, "run")
  /\ UNCHANGED <<store, written, faults>>

\* Commit fails without effect: the context is done, the connection is lost or
\* a statement had failed.  WithTx returns the error and does not roll back;
\* the outermost handle is closed by the failed commit, a savepoint stays.
CommitFails(c) ==
  /\ pc[c] = "ok"
  /\ LET f == Top(c) IN
     /\ ~Reaches(f) \/ failed[f.conn] # 0
     /\ IF f.level = 1 THEN Release(f.conn) ELSE KeepConns
     /\ Ends(c, f.b, "commitErr")
  /\ Pop(c)
  /\ Goto(c, "run")
  /\ UNCHANGED <<store, written, faults>>

\* The server commits, the answer is lost: an error all the same.
CommitAnswerLost(c) ==
  /\ pc[c] = "ok"
  /\ Fault
  /\ LET f == Top(c) IN
     /\ f.level = 1 /\ Reaches(f) /\ failed[f.conn] = 0
     /\ store' = store \cup WritesFrom(f.conn, 1)
     /\ Release(f.conn)
     /\ Ends(c, f.b, "commitErr")
  /\ Pop(c)
  /\ Goto(c, "run")
  /\ UNCHANGED written

\* Goexit runs the deferred function, which finds no panic and does nothing;
\* the goroutine is gone, its transactions stay open: no action of c follows.
Gone(c) == pc[c] = "goexit"
Idle(c) == pc[c] = "run" /\ frames[c] = <<>> /\ NextBlock(c) \notin BlockId

Finished == (\A c \in Client : Gone(c) \/ Idle(c)) /\ UNCHANGED vars

InWithTx(c) ==
  \/ CallOnPool(c) \/ Acquire(c) \/ CallOnTx(c)
  \/ RollbackOnError(c) \/ RollbackOnPanic(c)
  \/ Commit(c) \/ CommitFails(c) \/ CommitAnswerLost(c)
InFn(c) == Write(c) \/ StatementFails(c) \/ FnEnds(c)

Next ==
  \/ \E c \in Client : InWithTx(c) \/ InFn(c) \/ AcquireFails(c) \/ CtxEnds(c)
  \/ ConnLost
  \/ Finished

Init ==
  /\ pc = [c \in Client |-> "run"]
  /\ frames = [c \in Client |-> <<>>]
  /\ free = Conn
  /\ tx = [k \in Conn |-> <<>>]
  /\ failed = [k \in Conn |-> 0]
  /\ dead = {}
  /\ store = {}
  /\ outcome = [c \in Client |-> [b \in BlockId |-> "none"]]
  /\ written = [c \in Client |-> [b \in BlockId |-> {}]]
  /\ faults = 0

Spec == Init /\ [][Next]_vars

\* fn is assumed to end; a goroutine runs on; the pool serves its waiters in
\* their order, so a waiter is not passed over forever.  Nothing is assumed of
\* contexts: CtxEnds and AcquireFails need never happen.
Fairness ==
  \A c \in Client : /\ WF_vars(InWithTx(c) \/ InFn(c))
                    /\ SF_vars(Acquire(c))
FairSpec == Spec /\ Fairness
-----------------------------------------------------------------------------
(* Properties *)

Blocks == {<<c, b>> : c \in Client, b \in BlockId}
OutcomeOf(x) == outcome[x[1]][x[2]]
WrittenBy(x) == written[x[1]][x[2]]

\* A connection is in the pool or held by one client, by frames that form one
\* stack of savepoints from level 1 on: no connection is leaked (but by
\* Goexit), handed out twice, or given back with a transaction open.
ConnectionsAccounted ==
  /\ \A k \in free : tx[k] = <<>>
  /\ \A k \in Conn \ free :
       \E c \in Client :
         /\ \E i \in 1 .. Depth(c) : frames[c][i].conn = k /\ frames[c][i].level = 1
         /\ \A d \in Client \ {c} : \A i \in 1 .. Depth(d) : frames[d][i].conn # k
  /\ \A c \in Client : \A i \in 1 .. Depth(c) :
       frames[c][i].conn \notin free /\ frames[c][i].level <= Len(tx[frames[c][i].conn])

\* dbtx.go:45-46, core-api.mdx:137: what a block wrote before its fn returned
\* an error or panicked never becomes visible, whatever the blocks around it
\* and the other clients do afterwards.
FailedBlocksLeaveNothing ==
  \A x \in Blocks : OutcomeOf(x) \in {"err", "panic"} => WrittenBy(x) \cap store = {}

\* The same sentence for contexts that may end inside the block: the nested
\* Rollback is then never sent and its error is dropped (dbtx.go:67).
ErrorMeansRolledBack == FailedBlocksLeaveNothing

\* Nothing of a block is visible while it runs, nor only a part of it later.
NoPartialBlock ==
  \A x \in Blocks :
    /\ OutcomeOf(x) = "open" => WrittenBy(x) \cap store = {}
    /\ WrittenBy(x) \cap store # {} => WrittenBy(x) \subseteq store

\* dbtx.go:70-73: a block on the pool that returned no error has every write of
\* its own in the store by then, those made after a nested block ended too.
RootOf(c, i) == frames[c][i].level = 1
SuccessIsDurable ==
  [][\A c \in Client :
       Commit(c) /\ RootOf(c, Depth(c)) =>
         written[c][Top(c).b] \subseteq store']_vars

\* The whole of dbtx.go:45-48: connections and savepoints implement the blocks
\* of TxContract.  An open block's own writes sit on its level of the stack.
Work == [c \in Client |-> [i \in 1 .. Depth(c) |->
  [b |-> frames[c][i].b, root |-> RootOf(c, i),
   w |-> tx[frames[c][i].conn][frames[c][i].level]]]]
Contract == INSTANCE TxContract WITH work <- Work
ImplementsContract == Contract!CSpec

\* Every connection comes back to the pool, however fn ends.
ConnectionsComeBack == \A k \in Conn : k \notin free ~> k \in free

\* Nobody waits in Begin for ever.
WaitersServed == \A c \in Client : pc[c] = "acquire" ~> pc[c] # "acquire"
=============================================================================
