------------------------------ MODULE McpStdio ------------------------------
(***************************************************************************)
(* The stdio server of the MCP interface (editor/agent/mcp/server.py,      *)
(* _run_stdio_server): the read loop answers protocol requests itself and  *)
(* gives every tool call a thread, which waits for a slot, runs the tool   *)
(* and writes its response.  At the end of the input the loop drains the   *)
(* threads for a bounded time; on Ctrl-C it does not.                      *)
(***************************************************************************)
EXTENDS Naturals, FiniteSets

CONSTANTS
    ToolCalls,      \* the mcp.call_tool requests a client may send
    MaxConcurrent   \* _MAX_CONCURRENT_TOOL_CALLS

SlotsAssumption == MaxConcurrent \in Nat \ {0}

VARIABLES
    reader,     \* "reading", "starting" a thread, "answering", "writing", "draining", "left"
    starting,   \* the call whose thread is being started, as a set
    inflight,   \* in_flight
    call,       \* what the thread of a call is doing
    slots,      \* value of tool_slots
    out,        \* who holds stdout_lock, as a set
    why         \* how the loop came to leave, or "serving": "drained", "broken", "timeout", "interrupt"

vars == <<reader, starting, inflight, call, slots, out, why>>

Reader == "reader"
ReaderAssumption == Reader \notin ToolCalls

Init ==
    /\ reader = "reading" /\ starting = {} /\ inflight = {}
    /\ call = [c \in ToolCalls |-> "unsent"]
    /\ slots = MaxConcurrent
    /\ out = {} /\ why = "serving"

(* The reader enters the thread before it starts it.                       *)
Entered(c) == inflight' = inflight \cup {c}

ReadToolCall ==
    /\ reader = "reading"
    /\ \E c \in ToolCalls :
        /\ call[c] = "unsent"
        /\ Entered(c)
        /\ starting' = {c}
        /\ call' = [call EXCEPT ![c] = "read"]
    /\ reader' = "starting"
    /\ UNCHANGED <<slots, out, why>>

StartThread ==
    /\ reader = "starting"
    /\ call' = [c \in ToolCalls |-> IF c \in starting THEN "waiting" ELSE call[c]]
    /\ starting' = {} /\ reader' = "reading"
    /\ UNCHANGED <<inflight, slots, out, why>>

(* No thread can be made: the error leaves the loop.                       *)
StartFails ==
    /\ reader = "starting" /\ reader' = "draining"
    /\ UNCHANGED <<starting, inflight, call, slots, out, why>>

(* Any other line, one that does not parse included, is answered here.     *)
ReadRequest ==
    /\ reader = "reading" /\ reader' = "answering"
    /\ UNCHANGED <<starting, inflight, call, slots, out, why>>

StdoutFree == out = {}

ReaderLocks ==
    /\ reader = "answering" /\ StdoutFree
    /\ out' = {Reader} /\ reader' = "writing"
    /\ UNCHANGED <<starting, inflight, call, slots, why>>

(* The answer is written; or stdout is gone and the loop is left.          *)
ReaderWrites ==
    /\ reader = "writing" /\ out' = {}
    /\ reader' \in {"reading", "draining"}
    /\ UNCHANGED <<starting, inflight, call, slots, why>>

-----------------------------------------------------------------------------
Move(c, from, to) == call[c] = from /\ call' = [call EXCEPT ![c] = to]

SlotFree == slots > 0

(* Slip: the slot comes back only when the response could be written.      *)
ReleasedAfterWrite(c) == slots' = IF call[c] = "written" THEN slots + 1 ELSE slots

Released(c) == slots' = slots + 1

TakeSlot(c) ==
    /\ Move(c, "waiting", "running") /\ SlotFree
    /\ slots' = slots - 1
    /\ UNCHANGED <<reader, starting, inflight, out, why>>

ToolReturns(c) ==
    /\ Move(c, "running", "responding")
    /\ UNCHANGED <<reader, starting, inflight, slots, out, why>>

WorkerLocks(c) ==
    /\ Move(c, "responding", "writing") /\ StdoutFree
    /\ out' = {c}
    /\ UNCHANGED <<reader, starting, inflight, slots, why>>

(* The response is written, or stdout is gone.                             *)
WorkerWrites(c) ==
    /\ Move(c, "writing", "written") \/ Move(c, "writing", "mute")
    /\ out' = {}
    /\ UNCHANGED <<reader, starting, inflight, slots, why>>

FreeSlot(c) ==
    /\ Move(c, "written", "ended") \/ Move(c, "mute", "ended_mute")
    /\ Released(c)
    /\ UNCHANGED <<reader, starting, inflight, out, why>>

Discard(c) ==
    /\ call[c] \in {"ended", "ended_mute"} /\ c \in inflight
    /\ inflight' = inflight \ {c}
    /\ UNCHANGED <<reader, starting, call, slots, out, why>>

-----------------------------------------------------------------------------
EndOfInput ==
    /\ reader = "reading" /\ reader' = "draining"
    /\ UNCHANGED <<starting, inflight, call, slots, out, why>>

(* Ctrl-C raises in the main thread, wherever the loop is.                 *)
Interrupt ==
    /\ reader \in {"reading", "starting", "answering", "writing", "draining"}
    /\ reader' = "left" /\ why' = "interrupt"
    /\ out' = out \ {Reader}
    /\ UNCHANGED <<starting, inflight, call, slots>>

Drained ==
    /\ reader = "draining" /\ inflight = {}
    /\ reader' = "left" /\ why' = "drained"
    /\ UNCHANGED <<starting, inflight, call, slots, out>>

(* A thread that was never started cannot be joined: the drain raises.     *)
DrainBreaks ==
    /\ reader = "draining" /\ starting # {}
    /\ reader' = "left" /\ why' = "broken"
    /\ UNCHANGED <<starting, inflight, call, slots, out>>

DrainTimesOut ==
    /\ reader = "draining" /\ inflight # {}
    /\ reader' = "left" /\ why' = "timeout"
    /\ UNCHANGED <<starting, inflight, call, slots, out>>

Work(c) ==
    \/ TakeSlot(c) \/ ToolReturns(c) \/ WorkerLocks(c) \/ WorkerWrites(c)
    \/ FreeSlot(c) \/ Discard(c)

Next ==
    \/ ReadToolCall \/ StartThread \/ StartFails \/ ReadRequest \/ ReaderLocks \/ ReaderWrites
    \/ EndOfInput \/ Interrupt \/ Drained \/ DrainBreaks \/ DrainTimesOut
    \/ reader # "left" /\ \E c \in ToolCalls : Work(c)

Spec == Init /\ [][Next]_vars

(* What a thread does without waiting for anybody, and what it waits for.  *)
Goes(c) ==
    reader # "left" /\ (ToolReturns(c) \/ WorkerWrites(c) \/ FreeSlot(c) \/ Discard(c))

Waits(c) == reader # "left" /\ (TakeSlot(c) \/ WorkerLocks(c))

(* Tools return, threads run and get the slot or the lock they wait for;   *)
(* nothing is assumed of the input.                                        *)
FairSpec ==
    /\ Spec
    /\ \A c \in ToolCalls : WF_vars(Goes(c)) /\ SF_vars(Waits(c))
    /\ WF_vars(StartThread) /\ WF_vars(ReaderWrites) /\ SF_vars(ReaderLocks)
    /\ WF_vars(Drained \/ DrainBreaks)

-----------------------------------------------------------------------------
TypeOK ==
    /\ reader \in {"reading", "starting", "answering", "writing", "draining", "left"}
    /\ starting \subseteq ToolCalls /\ inflight \subseteq ToolCalls
    /\ call \in [ToolCalls -> {"unsent", "read", "waiting", "running", "responding", "writing",
                               "written", "mute", "ended", "ended_mute"}]
    /\ slots \in 0 .. MaxConcurrent
    /\ out \subseteq ToolCalls \cup {Reader}
    /\ why \in {"serving", "drained", "broken", "timeout", "interrupt"}

Holding == {c \in ToolCalls : call[c] \in {"running", "responding", "writing", "written", "mute"}}

(* A slot is held by each tool that runs or has still to write, and comes  *)
(* back whether or not the write succeeds.                                 *)
SlotsCounted == slots + Cardinality(Holding) = MaxConcurrent

(* One writer at a time: lines of the protocol are never mixed.            *)
OneWriter ==
    /\ Cardinality(out) <= 1
    /\ out = {c \in ToolCalls : call[c] = "writing"} \cup (IF reader = "writing" THEN {Reader} ELSE {})

(* "drain in-flight tool calls ... so their responses are not cut off"     *)
(* (lines 247-248): when the drain ends by itself, every call that was     *)
(* read has had its response written, or stdout was gone.                  *)
DrainedMeansAnswered ==
    why = "drained" => \A c \in ToolCalls : call[c] \in {"unsent", "ended", "ended_mute"}

(* A call that was read is answered, or the server has left.               *)
EveryCallEnds ==
    \A c \in ToolCalls : call[c] = "waiting" ~> call[c] \in {"ended", "ended_mute"} \/ reader = "left"

(* "Bounded by the semaphore, so a pipelining client cannot spawn          *)
(* unbounded threads" (lines 218-220).                                     *)
ThreadsBounded == Cardinality(inflight \ starting) <= MaxConcurrent
=============================================================================
