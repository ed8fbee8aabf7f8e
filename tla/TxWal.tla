-------------------------------- MODULE TxWal --------------------------------
(***************************************************************************)
(* The transaction records of the WAL (src/wal.rs: begin, append, commit,  *)
(* abort, truncate and replay), used by a client that may die inside a     *)
(* transaction, or inside the write of a record, or with its machine, and  *)
(* open the log again, where the transaction ids start over.  A            *)
(* transaction number of 0 marks a record of no transaction.               *)
(***************************************************************************)
EXTENDS Naturals, Sequences

CONSTANTS
    TxOps,      \* the operations a client logs
    MaxCalls    \* bound: calls a client makes

ASSUME TxWalAssumptions == MaxCalls \in Nat

VARIABLES
    log,        \* the TxEntry records, in file order
    torn,       \* 0, or the position in the log of a part of a record
    txCounter,  \* Wal::tx_counter
    calls,      \* history: calls made
    active,     \* history: the transaction begun last, until it ends, or 0
    dangling,   \* history: the log may hold a transaction that a crash left open
    mine,       \* history: operations logged in the active transaction
    committed,  \* history: operations a client considers done
    views,      \* history: what committed was when each record was written
    irregular   \* history: the client mixed transactions

txVars == <<log, torn, txCounter, active, dangling, mine, committed, views, irregular>>

TxInit ==
    /\ log = <<>> /\ torn = 0 /\ txCounter = 0 /\ calls = 0
    /\ active = 0 /\ dangling = FALSE /\ mine = <<>>
    /\ committed = <<>> /\ views = <<>> /\ irregular = FALSE

Entry(kind, t, o) == [kind |-> kind, tx |-> t, op |-> o]
NoOp == "none"
CountCall == calls < MaxCalls /\ calls' = calls + 1

\* append: a record behind all there is, also behind a part of one; c is what the
\* client considers done from now on.
Write(e, c) ==
    /\ log' = Append(log, e) /\ committed' = c /\ views' = Append(views, c)
    /\ UNCHANGED torn

-----------------------------------------------------------------------------
Begin ==
    /\ CountCall
    /\ txCounter' = txCounter + 1
    /\ Write(Entry("begin", txCounter + 1, NoOp), committed)
    /\ active' = txCounter + 1 /\ mine' = <<>>
    /\ UNCHANGED <<dangling, irregular>>

\* An operation of transaction t, or of none.
LogOp(t, o) ==
    /\ CountCall
    /\ Write(Entry("op", t, o), IF t = 0 THEN Append(committed, o) ELSE committed)
    /\ mine' = IF t = active /\ t # 0 THEN Append(mine, o) ELSE mine
    /\ irregular' = (irregular \/ t # active \/ (t = 0 /\ dangling))
    /\ UNCHANGED <<txCounter, active, dangling>>

Commit(t) ==
    /\ CountCall
    /\ Write(Entry("commit", t, NoOp), IF t = active THEN committed \o mine ELSE committed)
    /\ irregular' = (irregular \/ t # active)
    /\ active' = 0 /\ mine' = <<>> /\ dangling' = FALSE
    /\ UNCHANGED txCounter

Abort(t) ==
    /\ CountCall
    /\ Write(Entry("abort", t, NoOp), committed)
    /\ irregular' = (irregular \/ t # active)
    /\ active' = 0 /\ mine' = <<>> /\ dangling' = FALSE
    /\ UNCHANGED txCounter

Truncate ==
    /\ CountCall
    /\ log' = <<>> /\ torn' = 0 /\ committed' = <<>> /\ views' = <<>> /\ dangling' = FALSE
    /\ irregular' = (irregular \/ active # 0)
    /\ UNCHANGED <<txCounter, active, mine>>

\* The log is opened again with its first k records and torn at t.
View(k) == IF k = 0 THEN <<>> ELSE views[k]
Reopened(k, t) ==
    /\ log' = SubSeq(log, 1, k) /\ torn' = t
    /\ committed' = View(k) /\ views' = SubSeq(views, 1, k)
    /\ txCounter' = 0
    /\ dangling' = (dangling \/ active # 0 \/ k < Len(log))
    /\ active' = 0 /\ mine' = <<>>
    /\ UNCHANGED irregular

\* The client drops the Wal, or dies, maybe inside the write of a record.
ReopenLog ==
    \E t \in IF torn = 0 THEN {0, Len(log) + 1} ELSE {torn} : Reopened(Len(log), t)

\* The machine dies: append only flushes, so any of the last records may be
\* gone, or in the file in part.
ReopenAfterPowerLoss ==
    \E k \in 0 .. Len(log) :
      \E t \in IF torn \in 1 .. k THEN {torn} ELSE {0, k + 1} : Reopened(k, t)

TxNext ==
    \/ Begin \/ Truncate
    \/ \E t \in 0 .. txCounter, o \in TxOps : LogOp(t, o)
    \/ \E t \in 1 .. txCounter : Commit(t) \/ Abort(t)

-----------------------------------------------------------------------------
(* replay.  What it has when it has read a prefix of the log: the current  *)
(* transaction, its operations, and the operations passed to the callback. *)

\* Mutant: a new transaction takes over the operations of an unfinished one.
Read_KeepsPending(s, e) ==
    CASE e.kind = "begin" -> [s EXCEPT !.tx = e.tx]
      [] e.kind = "commit" ->
           [tx |-> 0, pending |-> <<>>, out |-> IF s.tx = e.tx THEN s.out \o s.pending ELSE s.out]
      [] e.kind = "abort" -> [s EXCEPT !.tx = 0, !.pending = <<>>]
      [] e.kind = "op" /\ s.tx # 0 -> [s EXCEPT !.pending = Append(@, e.op)]
      [] OTHER -> [s EXCEPT !.out = Append(@, e.op)]

Read(s, e) ==
    CASE e.kind = "begin" -> [s EXCEPT !.tx = e.tx, !.pending = <<>>]
      [] e.kind = "commit" ->
           [tx |-> 0, pending |-> <<>>, out |-> IF s.tx = e.tx THEN s.out \o s.pending ELSE s.out]
      [] e.kind = "abort" -> [s EXCEPT !.tx = 0, !.pending = <<>>]
      [] e.kind = "op" /\ s.tx # 0 -> [s EXCEPT !.pending = Append(@, e.op)]
      [] OTHER -> [s EXCEPT !.out = Append(@, e.op)]

ReadAll(l) ==
    LET f[k \in 0 .. Len(l)] ==
          IF k = 0 THEN [tx |-> 0, pending |-> <<>>, out |-> <<>>] ELSE Read(f[k - 1], l[k])
    IN  f[Len(l)]

\* What replay passes on before it meets a part of a record, where it fails or
\* reads on at a wrong place.
Readable == IF torn = 0 THEN log ELSE SubSeq(log, 1, torn - 1)
Replay == ReadAll(Readable).out

\* A client that runs one transaction at a time, and logs no operation outside
\* one after a crash left one open, gets back what it committed, in order and
\* once, although replay compares no operation's transaction and the ids of
\* abandoned transactions are used again after every open (wal.rs:204): all of
\* it, if no write and no machine died; if a machine died, what it had committed
\* up to the last record that reached the disk; and from a log with a part of a
\* record in it what it had committed before that record (wal.rs:182).
ReplayIsCommitted ==
    ~irregular => Replay = IF torn = 0 THEN committed ELSE View(torn - 1)
=============================================================================
