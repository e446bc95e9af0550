---------------------------- MODULE McpSessions ----------------------------
(***************************************************************************)
(* The Streamable-HTTP server of the MCP interface: the session plumbing   *)
(* it shares with the SSE server (editor/agent/mcp/_session_queue.py) and  *)
(* its verbs (streamable_server.py).                                       *)
(*                                                                         *)
(* Every request has a thread of its own.  A POST runs a JSON-RPC call     *)
(* under a global cap; the first one of a session opens its event stream   *)
(* and stays as the thread that writes it, a later one leaves its answer   *)
(* in the queue of the session.  GET attaches a further stream, DELETE and *)
(* the idle sweep close a session by a sentinel in its queue.              *)
(***************************************************************************)
EXTENDS Naturals, FiniteSets, SequencesExt

CONSTANTS
    Sessions,       \* the ids uuid4 yields
    NoSession,
    Threads,        \* request threads
    Backlog,        \* _MAX_QUEUED_EVENTS
    MaxConcurrent,  \* _MAX_CONCURRENT_REQUESTS
    MaxCalls        \* bound: JSON-RPC calls with an id

McpAssumption == /\ NoSession \notin Sessions
                 /\ Backlog \in Nat \ {0}
                 /\ MaxConcurrent \in Nat \ {0}
                 /\ MaxCalls \in Nat

VARIABLES
    sessions,   \* keys of _sessions
    active,     \* keys of _last_active
    idle,       \* those whose stamp is past the TTL
    known,      \* ids some client has been sent
    born,       \* ids drawn
    queue,      \* the queue of each session
    free,       \* value of the semaphore
    thread,     \* what a request thread is doing
    calls,      \* calls made
    acked,      \* calls answered 202, each with the session on whose stream the
                \* answer is to come
    written,    \* answers written to a stream
    cut,        \* sessions one of whose clients disconnected
    sweep,      \* the ids the sweep found idle and has still to close
    swept,      \* a session the sweep has popped and not yet signalled
    up          \* "up", "closing" (sessions cleared), "down" (no more requests)

registry == <<sessions, active, idle>>
ids      == <<known, born>>
answers  == <<calls, acked, written, cut>>
sweeper  == <<sweep, swept>>
vars     == <<registry, ids, queue, free, thread, answers, sweeper, up>>

Calls    == 1 .. MaxCalls
None     == 0               \* a notification: the JSON-RPC handler is not run
Sentinel == MaxCalls + 1    \* the None that ends a stream
Rest     == [at |-> "rest", sid |-> NoSession, item |-> None]

Init ==
    /\ sessions = {} /\ active = {} /\ idle = {}
    /\ known = {} /\ born = {}
    /\ queue = [s \in Sessions |-> <<>>]
    /\ free = MaxConcurrent
    /\ thread = [t \in Threads |-> Rest]
    /\ calls = 0 /\ acked = {} /\ written = {} /\ cut = {}
    /\ sweep = {} /\ swept = NoSession
    /\ up = "up"

Go(t, at)       == thread' = [thread EXCEPT ![t].at = at]
Take(t, at, s)  == thread' = [thread EXCEPT ![t] = [at |-> at, sid |-> s, item |-> None]]
Leave(t)        == thread' = [thread EXCEPT ![t] = Rest]

-----------------------------------------------------------------------------
(* The registry: each of these runs under _lock.                           *)

Stamp(s) == active' = active \cup {s} /\ idle' = idle \ {s}

Register(s) == sessions' = sessions \cup {s} /\ Stamp(s)

Drop(s) == sessions' = sessions \ {s} /\ active' = active \ {s} /\ idle' = idle \ {s}

(* put_nowait of the sentinel: a full queue swallows it.                   *)
Signal(q) == IF Len(q) < Backlog THEN Append(q, Sentinel) ELSE q

-----------------------------------------------------------------------------
(* POST.                                                                   *)

(* The id'd calls; a notification draws none.                              *)
NextCall(t, c) ==
    \/ c = None /\ calls' = calls
    \/ c = calls + 1 /\ c \in Calls /\ calls' = c

(* POST with an id this server does not know, or none: a fresh session.    *)
PostNew(t) ==
    /\ up # "down" /\ thread[t] = Rest
    /\ \E s \in Sessions \ born, c \in Calls \cup {None} :
        /\ NextCall(t, c)
        /\ Register(s) /\ born' = born \cup {s}
        /\ thread' = [thread EXCEPT ![t] =
               [at |-> IF c = None THEN "open" ELSE "new", sid |-> s, item |-> c]]
    /\ UNCHANGED <<known, queue, free, acked, written, cut, sweeper, up>>

(* POST for a session that exists: its stamp is renewed.  A notification   *)
(* is acknowledged at once.                                                *)
PostKnown(t) ==
    /\ up # "down" /\ thread[t] = Rest
    /\ \E s \in sessions \cap known, c \in Calls \cup {None} :
        /\ NextCall(t, c)
        /\ Stamp(s)
        /\ thread' = IF c = None THEN thread ELSE
               [thread EXCEPT ![t] = [at |-> "post", sid |-> s, item |-> c]]
    /\ UNCHANGED <<sessions, ids, queue, free, acked, written, cut, sweeper, up>>

(* POST whose answer goes into the body: no session is made, the one it    *)
(* may name is stamped.                                                    *)
PostJson(t) ==
    /\ up # "down" /\ thread[t] = Rest
    /\ \/ UNCHANGED <<active, idle>>
       \/ \E s \in sessions \cap known : Stamp(s)
    /\ Take(t, "json", NoSession)
    /\ UNCHANGED <<sessions, ids, queue, free, answers, sweeper, up>>

Slot == free > 0

Running == [new |-> "run_new", post |-> "run", json |-> "run_json"]

(* The cap is not reached: the handler runs.                               *)
Acquire(t) ==
    /\ thread[t].at \in DOMAIN Running /\ Slot
    /\ free' = IF free > 0 THEN free - 1 ELSE 0
    /\ Go(t, Running[thread[t].at])
    /\ UNCHANGED <<registry, ids, queue, answers, sweeper, up>>

(* 503, and the session just made is dropped.                              *)
Busy(t) ==
    /\ thread[t].at \in DOMAIN Running /\ ~Slot
    /\ IF thread[t].at = "new" THEN Drop(thread[t].sid) ELSE UNCHANGED registry
    /\ Leave(t)
    /\ UNCHANGED <<ids, queue, free, answers, sweeper, up>>

Handled(t) ==
    /\ thread[t].at \in Range(Running)
    /\ free' = free + 1
    /\ CASE thread[t].at = "run_new"  -> Go(t, "open")
         [] thread[t].at = "run"      -> Go(t, "answer")
         [] thread[t].at = "run_json" -> Leave(t)
    /\ UNCHANGED <<registry, ids, queue, answers, sweeper, up>>

(* The stream of a fresh session: headers and the first answer.            *)
OpenStream(t) ==
    /\ thread[t].at = "open"
    /\ known' = known \cup {thread[t].sid}
    /\ written' = written \cup ({thread[t].item} \ {None})
    /\ Take(t, "stream", thread[t].sid)
    /\ UNCHANGED <<registry, born, queue, free, calls, acked, cut, sweeper, up>>

(* The client went away while the handler ran.                             *)
OpenFails(t) ==
    /\ thread[t].at = "open"
    /\ Drop(thread[t].sid) /\ Leave(t)
    /\ UNCHANGED <<ids, queue, free, answers, sweeper, up>>

\* Slip: the session is not looked up again after the handler.
CurrentAlways(s) == TRUE

(* _enqueue_if_current: is the session still the registered one?  Ids are  *)
(* never drawn twice, so the key decides.                                  *)
Current(s) == s \in sessions

(* 202 when the answer is queued; 409 when the session is gone, 503 when   *)
(* its queue is full.                                                      *)
Enqueue(t) ==
    LET s == thread[t].sid
        ok == Current(s) /\ Len(queue[s]) < Backlog
    IN  /\ thread[t].at = "answer"
        /\ queue' = IF ok THEN [queue EXCEPT ![s] = Append(@, thread[t].item)] ELSE queue
        /\ acked' = IF ok THEN acked \cup {<<thread[t].item, s>>} ELSE acked
        /\ Leave(t)
        /\ UNCHANGED <<registry, ids, free, calls, written, cut, sweeper, up>>

-----------------------------------------------------------------------------
(* GET, and the loop that writes a stream.                                 *)

Resume(t) ==
    /\ up # "down" /\ thread[t] = Rest
    /\ \E s \in sessions \cap known : Stamp(s) /\ Take(t, "stream", s)
    /\ UNCHANGED <<sessions, ids, queue, free, answers, sweeper, up>>

Get(t) ==
    LET s == thread[t].sid
    IN  /\ thread[t].at = "stream" /\ queue[s] # <<>>
        /\ queue' = [queue EXCEPT ![s] = Tail(@)]
        /\ thread' = [thread EXCEPT ![t] =
               [at |-> IF Head(queue[s]) = Sentinel THEN "end" ELSE "write",
                sid |-> s, item |-> Head(queue[s])]]
        /\ UNCHANGED <<registry, ids, free, answers, sweeper, up>>

(* An answer, or after a quiet interval the heartbeat, reaches the client, *)
(* and the session is stamped, registered or not.                          *)
Write(t) ==
    /\ \/ thread[t].at = "write"
       \/ thread[t].at = "stream" /\ queue[thread[t].sid] = <<>>
    /\ written' = written \cup ({thread[t].item} \ {None})
    /\ Stamp(thread[t].sid)
    /\ Take(t, "stream", thread[t].sid)
    /\ UNCHANGED <<sessions, ids, queue, free, calls, acked, cut, sweeper, up>>

(* The client is gone: the write, or the heartbeat, fails.                 *)
Disconnect(t) ==
    /\ thread[t].at \in {"stream", "write"}
    /\ Go(t, "end")
    /\ cut' = cut \cup {thread[t].sid}
    /\ UNCHANGED <<registry, ids, queue, free, calls, acked, written, sweeper, up>>

(* However the stream ended, its session ends with it.                     *)
EndStream(t) ==
    /\ thread[t].at = "end"
    /\ Drop(thread[t].sid) /\ Leave(t)
    /\ UNCHANGED <<ids, queue, free, answers, sweeper, up>>

-----------------------------------------------------------------------------
(* Closing: pop under the lock, then the sentinel.                         *)

Delete(t) ==
    /\ up # "down" /\ thread[t] = Rest
    /\ \E s \in sessions \cap known : Drop(s) /\ Take(t, "close", s)
    /\ UNCHANGED <<ids, queue, free, answers, sweeper, up>>

SignalClose(t) ==
    /\ thread[t].at = "close"
    /\ queue' = [queue EXCEPT ![thread[t].sid] = Signal(@)]
    /\ Leave(t)
    /\ UNCHANGED <<registry, ids, free, answers, sweeper, up>>

Streaming(s) == \E t \in Threads : thread[t].sid = s /\ thread[t].at \in {"stream", "write", "end"}

(* Time: a stamp passes the TTL of half an hour.  A stream renews it many  *)
(* times within that, and what is not a tool call takes moments.           *)
Age(s) ==
    /\ s \in active \ idle
    /\ \A t \in Threads : thread[t].sid = s => thread[t].at \in {"run_new", "run"}
    /\ idle' = idle \cup {s}
    /\ UNCHANGED <<sessions, active, ids, queue, free, thread, answers, sweeper, up>>

SweepLooks ==
    /\ up = "up" /\ sweep = {} /\ swept = NoSession /\ idle # {}
    /\ sweep' = idle
    /\ UNCHANGED <<registry, ids, queue, free, thread, answers, swept, up>>

SweepPops ==
    /\ swept = NoSession
    /\ \E s \in sweep :
        /\ Drop(s)
        /\ sweep' = sweep \ {s}
        /\ swept' = IF s \in sessions THEN s ELSE NoSession
    /\ UNCHANGED <<ids, queue, free, thread, answers, up>>

SweepSignals ==
    /\ swept # NoSession
    /\ queue' = [queue EXCEPT ![swept] = Signal(@)]
    /\ swept' = NoSession
    /\ UNCHANGED <<registry, ids, free, thread, answers, sweep, up>>

(* shutdown(): every registered session is signalled and cleared; then the *)
(* listener, which has gone on accepting, is stopped.                      *)
Shutdown ==
    /\ up = "up" /\ up' = "closing"
    /\ queue' = [s \in Sessions |-> IF s \in sessions THEN Signal(queue[s]) ELSE queue[s]]
    /\ sessions' = {} /\ active' = {} /\ idle' = {}
    /\ UNCHANGED <<ids, free, thread, answers, sweeper>>

ListenerStops ==
    /\ up = "closing" /\ up' = "down"
    /\ UNCHANGED <<registry, ids, queue, free, thread, answers, sweeper>>

-----------------------------------------------------------------------------
Step(t) ==
    \/ Acquire(t) \/ Busy(t) \/ Handled(t) \/ OpenStream(t) \/ OpenFails(t)
    \/ Enqueue(t) \/ Get(t) \/ Write(t) \/ Disconnect(t) \/ EndStream(t)
    \/ SignalClose(t)

Next ==
    \/ \E t \in Threads : PostNew(t) \/ PostKnown(t) \/ PostJson(t) \/ Resume(t) \/ Delete(t) \/ Step(t)
    \/ \E s \in Sessions : Age(s)
    \/ SweepLooks \/ SweepPops \/ SweepSignals
    \/ Shutdown \/ ListenerStops

Spec == Init /\ [][Next]_vars

(* Threads that can go on do; every call returns; the heartbeat is timed,  *)
(* so a stream whose queue stays empty still writes.  That a client leaves *)
(* is not assumed.                                                         *)
Serve(t) ==
    \/ Acquire(t) \/ Busy(t) \/ Handled(t) \/ OpenStream(t) \/ Enqueue(t)
    \/ Get(t) \/ Write(t) \/ EndStream(t) \/ SignalClose(t)

FairSpec ==
    /\ Spec
    /\ \A t \in Threads : WF_vars(Serve(t))
    /\ WF_vars(SweepLooks) /\ WF_vars(SweepPops) /\ WF_vars(SweepSignals)
    /\ WF_vars(ListenerStops)

-----------------------------------------------------------------------------
TypeOK ==
    /\ sessions \subseteq born /\ born \subseteq Sessions
    /\ idle \subseteq active /\ active \subseteq born /\ known \subseteq born
    /\ queue \in [Sessions -> Seq(Calls \cup {Sentinel})]
    /\ \A s \in Sessions : Len(queue[s]) <= Backlog
    /\ free \in 0 .. MaxConcurrent
    /\ thread \in [Threads ->
           [at : {"rest", "new", "post", "json", "run_new", "run", "run_json", "open", "answer",
                  "stream", "write", "end", "close"},
            sid : Sessions \cup {NoSession},
            item : Calls \cup {None, Sentinel}]]
    /\ calls \in 0 .. MaxCalls
    /\ acked \subseteq Calls \X Sessions /\ written \subseteq Calls /\ cut \subseteq Sessions
    /\ sweep \subseteq Sessions /\ swept \in Sessions \cup {NoSession}
    /\ up \in {"up", "closing", "down"}

(* The semaphore counts the handlers that run: no path out of a call       *)
(* keeps its slot, so the cap neither leaks nor is exceeded.               *)
CapCounted == free + Cardinality({t \in Threads : thread[t].at \in Range(Running)}) = MaxConcurrent

(* "The sentinel never lands behind a payload on a session nobody reads"   *)
(* and, the other way round, no answer ever lies behind a sentinel, where  *)
(* its stream would end without it: whatever DELETE, the sweep, shutdown   *)
(* and the POSTs in flight do.                                             *)
SentinelIsLast ==
    \A s \in Sessions : \A i \in 1 .. Len(queue[s]) : queue[s][i] = Sentinel => i = Len(queue[s])

(* A registered session has a stamp, or the sweep would never find it; and *)
(* a stamp belongs to a session or to a stream that ends by dropping it,   *)
(* though every write stamps without asking whether the session is there.  *)
StampsHaveOwners ==
    /\ sessions \subseteq active
    /\ \A s \in active : s \in sessions \/ Streaming(s)

(* An answer acknowledged with 202 is never without a reader: it is        *)
(* written, or held by a thread that writes it, or queued where a stream   *)
(* reads; unless a client of its session disconnected.                     *)
AckedHasReader ==
    \A a \in acked :
        LET c == a[1]
            s == a[2]
        IN  \/ c \in written \/ s \in cut
            \/ \E t \in Threads : thread[t] = [at |-> "write", sid |-> s, item |-> c]
            \/ c \in ToSet(queue[s]) /\ Streaming(s)

(* An answer acknowledged with 202 is written in the end, unless a client  *)
(* of its session disconnected.                                            *)
AckedIsWritten ==
    \A c \in Calls, s \in Sessions :
        <<c, s>> \in acked ~> c \in written \/ s \in cut

(* shutdown: "a thread blocked in messages.get() must not outlive the      *)
(* server" (lines 135-136).                                                *)
StreamsEnd == \A t \in Threads : up = "down" ~> thread[t] = Rest

(* The heartbeat "touches the session so an active client is never swept"  *)
(* (lines 54-55): the sweep closes no session whose stream is open.        *)
ActiveIsNotSwept == [][ \A s \in Sessions : swept # s /\ swept' = s => ~Streaming(s) ]_vars
=============================================================================
