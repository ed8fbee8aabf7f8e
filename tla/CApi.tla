-------------------------------- MODULE CApi --------------------------------
(***************************************************************************)
(* The C library (libcassettedb/src/lib.rs) as the Go binding              *)
(* (bindings/go/cassettedb.go) uses it.  Callers (goroutines), each with a *)
(* database of its own, run on OS threads.  A C function runs to its end   *)
(* on one thread and leaves the message of its failure in that thread's    *)
(* LAST_ERROR; the binding fetches the message by a second C call, and     *)
(* between the two the scheduler may move the caller to another thread or  *)
(* run another caller on this one.                                         *)
(***************************************************************************)
EXTENDS Query

CONSTANTS
    Callers, Threads,
    Ids,        \* document ids
    Bodies,     \* document bodies a caller writes (module Query)
    Files,      \* what a database file may hold when it is opened
    Queries,    \* the texts of queries
    None,       \* no document, no message
    MaxCalls    \* bound: calls of the binding, of all callers together

ASSUME CApiAssumptions == MaxCalls \in Nat /\ Threads # {}

VARIABLES
    lastError,  \* LAST_ERROR of each thread: a message or None
    thread,     \* the thread each caller runs on
    open,       \* callers whose handle is not NULL
    stored,     \* the documents in each caller's database
    last,       \* what the last call of each caller returned
    asking,     \* callers whose call failed and that have not fetched the message
    got,        \* the message each caller was given for its last failure
    answer,     \* history: what a query returned, in the step it did
    calls

avars == <<lastError, thread, open, stored, last, asking, got, answer, calls>>

NotCalled == [fn |-> "none", msg |-> None]
NoDocs == [i \in Ids |-> None]
NoAnswer == [query |-> <<>>, rows |-> {}, docs |-> NoDocs]

Init ==
    /\ lastError = [t \in Threads |-> None]
    /\ thread \in [Callers -> Threads]
    /\ open = {} /\ stored = [c \in Callers |-> NoDocs]
    /\ last = [c \in Callers |-> NotCalled]
    /\ asking = {} /\ got = [c \in Callers |-> None]
    /\ answer = NoAnswer /\ calls = 0

-----------------------------------------------------------------------------
(* What the functions have in common: clear_error first, and set_error (or *)
(* handle_result) with the reason of a failure.                            *)

Message(c, fn, why) == [caller |-> c, fn |-> fn, why |-> why]

\* What a call of c leaves in LAST_ERROR.
Leave(c, msg) == [lastError EXCEPT ![thread[c]] = msg]

Return(c, fn, msg) ==
    /\ c \notin asking /\ calls < MaxCalls /\ calls' = calls + 1
    /\ lastError' = Leave(c, msg)
    /\ last' = [last EXCEPT ![c] = [fn |-> fn, msg |-> msg]]
    /\ asking' = IF msg = None THEN asking ELSE asking \cup {c}
    /\ UNCHANGED <<thread, got>>

Succeed(c, fn) == Return(c, fn, None) /\ answer' = NoAnswer
Fail(c, fn, why) == Return(c, fn, Message(c, fn, why)) /\ answer' = NoAnswer

-----------------------------------------------------------------------------
\* cassette_db_open: a NULL or unreadable path, or an engine that cannot open;
\* otherwise the documents are whatever the file held.
OpenDb(c) ==
    /\ c \notin open
    /\ \/ /\ Succeed(c, "open") /\ open' = open \cup {c}
          /\ \E d \in Files : stored' = [stored EXCEPT ![c] = d]
       \/ Fail(c, "open", "refused") /\ UNCHANGED <<open, stored>>

\* cassette_db_close does not touch LAST_ERROR; the binding forgets the handle.
CloseDb(c) ==
    /\ c \in open /\ c \notin asking
    /\ open' = open \ {c}
    /\ answer' = NoAnswer
    /\ UNCHANGED <<lastError, thread, stored, last, asking, got, calls>>

\* Every other function first looks for a NULL handle, which is what a closed
\* database has, and then at its arguments.
NullHandle(c, fn) == c \notin open /\ Fail(c, fn, "null handle") /\ UNCHANGED <<open, stored>>
BadArgument(c, fn) == c \in open /\ Fail(c, fn, "bad argument") /\ UNCHANGED <<open, stored>>
Io(c, fn) == Fail(c, fn, "i/o")

InsertDoc(c) ==
    \/ NullHandle(c, "insert") \/ BadArgument(c, "insert")
    \/ /\ c \in open
       /\ \E i \in Ids, b \in Bodies :
            /\ stored[c][i] = None
            /\ \/ Succeed(c, "insert") /\ stored' = [stored EXCEPT ![c][i] = b]
               \/ Io(c, "insert") /\ stored' \in {stored, [stored EXCEPT ![c][i] = b]}
       /\ UNCHANGED open

\* A document that is not there is an error too.
GetDoc(c) ==
    \/ NullHandle(c, "get") \/ BadArgument(c, "get")
    \/ /\ c \in open
       /\ \E i \in Ids : IF stored[c][i] # None THEN Succeed(c, "get") ELSE Fail(c, "get", "not found")
       /\ UNCHANGED <<open, stored>>

UpdateDoc(c) ==
    \/ NullHandle(c, "update") \/ BadArgument(c, "update")
    \/ /\ c \in open
       /\ \E i \in Ids, b \in Bodies :
            IF stored[c][i] = None THEN Fail(c, "update", "not found") /\ UNCHANGED stored
            ELSE \/ Succeed(c, "update") /\ stored' = [stored EXCEPT ![c][i] = b]
                 \/ Io(c, "update") /\ stored' \in {stored, [stored EXCEPT ![c][i] = b]}
       /\ UNCHANGED open

\* The engine takes the document out of its map before it writes.
DeleteDoc(c) ==
    \/ NullHandle(c, "delete") \/ BadArgument(c, "delete")
    \/ /\ c \in open
       /\ \E i \in Ids :
            IF stored[c][i] = None THEN Fail(c, "delete", "not found") /\ UNCHANGED stored
            ELSE /\ Succeed(c, "delete") \/ Io(c, "delete")
                 /\ stored' = [stored EXCEPT ![c][i] = None]
       /\ UNCHANGED open

\* cassette_query: a text that does not parse is an error, any other has a
\* result, the ids of the documents that match.
RunQuery(c) ==
    \/ NullHandle(c, "query") \/ BadArgument(c, "query")
    \/ /\ c \in open
       /\ \E ts \in Queries :
            LET query == Parse(ts)
                msg == IF query = Error THEN Message(c, "query", "parse") ELSE None
            IN /\ Return(c, "query", msg)
               /\ answer' = [query |-> ts, docs |-> stored[c],
                             rows |-> IF query = Error THEN {}
                                      ELSE {i \in Ids : stored[c][i] # None /\ Matches(query, stored[c][i])}]
       /\ UNCHANGED <<open, stored>>

\* cassette_dump and cassette_compact.
DumpOrCompact(c) ==
    \E fn \in {"dump", "compact"} :
      \/ NullHandle(c, fn)
      \/ c \in open /\ (Succeed(c, fn) \/ Io(c, fn)) /\ UNCHANGED <<open, stored>>

-----------------------------------------------------------------------------
\* lastError of the binding: cassette_last_error on the thread c is on now.
AskError(c) ==
    /\ c \in asking
    /\ asking' = asking \ {c}
    /\ got' = [got EXCEPT ![c] = lastError[thread[c]]]
    /\ answer' = NoAnswer
    /\ UNCHANGED <<lastError, thread, open, stored, last, calls>>

\* The scheduler resumes c on another thread.
Migrate(c, t) ==
    /\ t # thread[c]
    /\ thread' = [thread EXCEPT ![c] = t]
    /\ answer' = NoAnswer
    /\ UNCHANGED <<lastError, open, stored, last, asking, got, calls>>

Next ==
    \E c \in Callers :
      \/ OpenDb(c) \/ CloseDb(c) \/ InsertDoc(c) \/ GetDoc(c) \/ UpdateDoc(c) \/ DeleteDoc(c)
      \/ RunQuery(c) \/ DumpOrCompact(c) \/ AskError(c)
      \/ \E t \in Threads : Migrate(c, t)

Spec == Init /\ [][Next]_avars

-----------------------------------------------------------------------------
(* Properties.                                                             *)

\* A well-formed query is accepted and returns exactly the documents that
\* satisfy one operand between every two `and': `or' binds tighter than `and',
\* contrary to custom (query.rs:114, query.rs:141), and no search swallows the
\* rest of the text (query.rs:77).
QueryMeansCnf ==
    WellFormed(answer.query) =>
      answer.rows = {i \in Ids : answer.docs[i] # None /\ Means(answer.query, answer.docs[i])}
=============================================================================
