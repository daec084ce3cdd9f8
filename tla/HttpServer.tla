------------------------------ MODULE HttpServer ------------------------------
(***************************************************************************)
(* The HTTP side of the server: serving/server.py.                         *)
(*                                                                         *)
(* Every connection has a handler thread, which serves one request after   *)
(* the other (keep-alive) and holds one of the server's connection slots   *)
(* while it waits for a request and answers it.  A client may go away,     *)
(* stop sending in the middle of a request, and stop reading and go on     *)
(* later.  What a connection carries is the heads and bodies of requests   *)
(* on the way in and status lines on the way out.                          *)
(*                                                                         *)
(* The loop over requests, the request line and the headers are those of   *)
(* http.server: on a read that times out the connection is closed, and     *)
(* after one no read of that connection succeeds any more.  Bytes that are *)
(* no request line are answered with an error and the connection closed.   *)
(* That bytes of a body may look like a request line is left out: a body   *)
(* is a JSON object.                                                       *)
(***************************************************************************)
EXTENDS Integers, Sequences

CONSTANTS
    Conns,          \* connections, each with its client and its handler
    MaxSlots,       \* max_connections: value of the semaphore conn_sem
    MaxRequests,    \* bound: requests of all clients together
    MaxEvents       \* bound: events of one stream

ASSUME HttpAssumption ==
    /\ MaxSlots \in Nat \ {0}
    /\ MaxRequests \in Nat
    /\ MaxEvents \in Nat

\* A GET by whether it has a body, which HTTP allows; a POST by its
\* Content-Length (none or zero, below zero, no number, over the limit) or its
\* chunked encoding, and else by its path and the "stream" of its body.
WithoutBody == {"get", "empty"}
Ignored == {"getbody", "negative"}
Refused == {"badlen", "chunked", "huge"}
Kinds == WithoutBody \union Ignored \union Refused
         \union {"nopath", "plain", "stream"}

\* What follows a head: bytes that are accounted for (read, or refused and the
\* connection closed), or stray ones, of which the handler knows nothing.
Bodies == {"body", "stray"}
Follows(k) == IF k \in WithoutBody THEN "nothing"
              ELSE IF k \in Ignored THEN "stray" ELSE "body"

VARIABLES
    \* the client's side
    wire,       \* sent and not read yet: heads (their kinds) and bodies
    left,       \* requests the clients may still send
    owes,       \* what of its last request is still to be sent
    gone,       \* it has closed the connection
    stalled,    \* it does not read what it is sent
    lazy,       \* it has been stalled at least once
    \* the handler's side
    hpc,        \* where the handler is
    task,       \* what it serves: the request's kind, events its stream may
                \* still yield, and of its JSON reply: does the connection
                \* stay, is a failure to write it caught by do_POST
    lines,      \* status lines written for this request
    deaf,       \* a read has timed out
    slots       \* free slots of conn_sem

clientVars == <<left, owes, gone, stalled, lazy>>
httpVars == <<wire, clientVars, hpc, task, lines, deaf, slots>>

NoTask == [kind |-> "get", events |-> 0, keep |-> FALSE, caught |-> FALSE]

HttpInit ==
    /\ wire = [c \in Conns |-> <<>>]
    /\ left = MaxRequests
    /\ owes = [c \in Conns |-> "nothing"]
    /\ gone = [c \in Conns |-> FALSE]
    /\ stalled = [c \in Conns |-> FALSE]
    /\ lazy = [c \in Conns |-> FALSE]
    /\ hpc = [c \in Conns |-> "enter"]
    /\ task = [c \in Conns |-> NoTask]
    /\ lines = [c \in Conns |-> 0]
    /\ deaf = [c \in Conns |-> FALSE]
    /\ slots = MaxSlots

-----------------------------------------------------------------------------
(***************************************************************************)
(* The client.                                                             *)
(***************************************************************************)
Unanswered(c) == hpc[c] \in {"method", "body", "run", "reply", "stream"}

\* A client sends its next request when the last one is answered, which says
\* nothing of stray bytes: they may still be on the wire.
SendHead(c) ==
    /\ ~gone[c] /\ owes[c] = "nothing"
    /\ left > 0
    /\ wire[c] \in {<<>>, <<"stray">>} /\ ~Unanswered(c)
    /\ \E k \in Kinds :
        /\ wire' = [wire EXCEPT ![c] = Append(@, k)]
        /\ owes' = [owes EXCEPT ![c] = Follows(k)]
    /\ left' = left - 1
    /\ UNCHANGED <<gone, stalled, lazy, hpc, task, lines, deaf, slots>>

SendBody(c) ==
    /\ ~gone[c]
    /\ owes[c] # "nothing"
    /\ wire' = [wire EXCEPT ![c] = Append(@, owes[c])]
    /\ owes' = [owes EXCEPT ![c] = "nothing"]
    /\ UNCHANGED <<left, gone, stalled, lazy, hpc, task, lines, deaf, slots>>

Disconnect(c) ==
    /\ ~gone[c]
    /\ gone' = [gone EXCEPT ![c] = TRUE]
    /\ UNCHANGED <<wire, left, owes, stalled, lazy, hpc, task, lines, deaf, slots>>

\* The client stops reading, or reads again.
Stall(c) ==
    /\ ~gone[c]
    /\ stalled[c] \/ ~lazy[c]
    /\ stalled' = [stalled EXCEPT ![c] = ~@]
    /\ lazy' = [lazy EXCEPT ![c] = TRUE]
    /\ UNCHANGED <<wire, left, owes, gone, hpc, task, lines, deaf, slots>>

\* Nothing a client does to a closed connection matters.
Client(c) ==
    /\ hpc[c] # "closed"
    /\ SendHead(c) \/ SendBody(c) \/ Disconnect(c) \/ Stall(c)

-----------------------------------------------------------------------------
(***************************************************************************)
(* The handler.                                                            *)
(***************************************************************************)
\* What may come of a write: a client that is gone may not be noticed.
Writes(c) ==
    IF stalled[c] THEN {"timeout"}
    ELSE IF gone[c] THEN {"ok", "broken"} ELSE {"ok"}

\* Mutant of Leave: the slot comes back only when the connection stays.
LeaveKeepsSlot(c, keep) ==
    /\ slots' = IF keep THEN slots + 1 ELSE slots
    /\ hpc' = [hpc EXCEPT ![c] = IF keep THEN "enter" ELSE "closed"]
    /\ task' = [task EXCEPT ![c] = NoTask]

\* handle_one_request returns or raises: its finally clause gives the slot
\* back, and the connection stays or is closed.
Leave(c, keep) ==
    /\ slots' = slots + 1
    /\ hpc' = [hpc EXCEPT ![c] = IF keep THEN "enter" ELSE "closed"]
    /\ task' = [task EXCEPT ![c] = NoTask]

\* The handler goes on, with the same task or with t.
To(c, where, t) ==
    /\ hpc' = [hpc EXCEPT ![c] = where]
    /\ task' = [task EXCEPT ![c] = t]
    /\ UNCHANGED slots
Go(c, where) == To(c, where, task[c])

\* A JSON reply is about to be written.
Send(c, keep, caught) ==
    To(c, "reply", [NoTask EXCEPT !.keep = keep, !.caught = caught])

Acquire(c) ==
    /\ hpc[c] = "enter"
    /\ slots > 0
    /\ slots' = slots - 1
    /\ hpc' = [hpc EXCEPT ![c] = "head"]
    /\ lines' = [lines EXCEPT ![c] = 0]
    /\ UNCHANGED <<wire, clientVars, task, deaf>>

\* 503, written without a slot, whatever comes of the write.
Saturated(c) ==
    /\ hpc[c] = "enter"
    /\ slots = 0
    /\ hpc' = [hpc EXCEPT ![c] = "closed"]
    /\ lines' = [lines EXCEPT ![c] = 1]
    /\ UNCHANGED <<wire, clientVars, task, deaf, slots>>

ReadHead(c) ==
    /\ hpc[c] = "head"
    /\ ~deaf[c] /\ wire[c] # <<>>
    /\ Head(wire[c]) \in Kinds
    /\ wire' = [wire EXCEPT ![c] = Tail(@)]
    /\ To(c, "method", [NoTask EXCEPT !.kind = Head(wire[c])])
    /\ UNCHANGED <<clientVars, lines, deaf>>

\* What is read as a request line is what is left of a body: an error and the
\* connection is closed, or closed without one (a blank line, or no end of
\* the line before the read times out).
BadRequestLine(c) ==
    /\ hpc[c] = "head"
    /\ ~deaf[c] /\ wire[c] # <<>>
    /\ Head(wire[c]) \in Bodies
    /\ wire' = [wire EXCEPT ![c] = Tail(@)]
    /\ Send(c, FALSE, FALSE) \/ Leave(c, FALSE)
    /\ UNCHANGED <<clientVars, lines, deaf>>

\* The client is gone, the wait for it timed out, or a read did before.
NoHead(c) ==
    /\ hpc[c] = "head"
    /\ deaf[c] \/ wire[c] = <<>>
    /\ Leave(c, FALSE)
    /\ UNCHANGED <<wire, clientVars, lines, deaf>>

\* Mutant of Method: an oversized body is refused and the connection kept.
MethodKeepsOversized(c) ==
    /\ hpc[c] = "method"
    /\ CASE task[c].kind \in WithoutBody \union Ignored \union {"huge"} ->
                Send(c, TRUE, FALSE)
         [] task[c].kind \in Refused -> Send(c, FALSE, FALSE)
         [] OTHER -> Go(c, "body")
    /\ UNCHANGED <<wire, clientVars, lines, deaf>>

\* do_GET, and do_POST up to the body: the connection is closed with a body
\* that is refused, and kept where there is none, or where do_GET and the test
\* length <= 0 take it that there is none.
Method(c) ==
    /\ hpc[c] = "method"
    /\ CASE task[c].kind \in WithoutBody \union Ignored -> Send(c, TRUE, FALSE)
         [] task[c].kind \in Refused -> Send(c, FALSE, FALSE)
         [] OTHER -> Go(c, "body")
    /\ UNCHANGED <<wire, clientVars, lines, deaf>>

ReadBody(c) ==
    /\ hpc[c] = "body"
    /\ wire[c] # <<>>
    /\ wire' = [wire EXCEPT ![c] = Tail(@)]
    /\ Go(c, "run")
    /\ UNCHANGED <<clientVars, lines, deaf>>

\* A body cut short is invalid JSON: 400.
ShortBody(c) ==
    /\ hpc[c] = "body"
    /\ wire[c] = <<>> /\ gone[c]
    /\ Send(c, TRUE, FALSE)
    /\ UNCHANGED <<wire, clientVars, lines, deaf>>

\* A body that does not come is a 500 of do_POST.
BodyTimeout(c) ==
    /\ hpc[c] = "body"
    /\ wire[c] = <<>> /\ ~gone[c]
    /\ deaf' = [deaf EXCEPT ![c] = TRUE]
    /\ Send(c, TRUE, FALSE)
    /\ UNCHANGED <<wire, clientVars, lines>>

\* An unknown path is a 404 written inside the try of do_POST.  Otherwise
\* the engine answers, or the body or the engine makes it a 400, 429 or 500.
Answer(c) ==
    /\ hpc[c] = "run"
    /\ Send(c, TRUE, task[c].kind = "nopath")
    /\ UNCHANGED <<wire, clientVars, lines, deaf>>

\* The head of an event stream; when writing it fails do_POST sends a 500.
StartStream(c) ==
    /\ hpc[c] = "run"
    /\ task[c].kind = "stream"
    /\ \E w \in Writes(c) :
        IF w = "ok"
        THEN \E n \in 0 .. MaxEvents :
                 To(c, "stream", [task[c] EXCEPT !.events = n])
        ELSE Send(c, FALSE, FALSE)
    /\ lines' = [lines EXCEPT ![c] = @ + 1]
    /\ UNCHANGED <<wire, clientVars, deaf>>

\* A client that went away ends the stream, any other failure reports itself.
Event(c) ==
    /\ hpc[c] = "stream"
    /\ task[c].events > 0
    /\ \E w \in Writes(c) :
        IF w = "ok" THEN To(c, "stream", [task[c] EXCEPT !.events = @ - 1])
        ELSE IF w = "broken" THEN Leave(c, FALSE) ELSE Go(c, "error")
    /\ UNCHANGED <<wire, clientVars, lines, deaf>>

\* Mutant of StreamFails: the failure is left to do_POST.
StreamFailsOutside(c) ==
    /\ hpc[c] = "stream"
    /\ Send(c, FALSE, FALSE)
    /\ UNCHANGED <<wire, clientVars, lines, deaf>>

\* The engine raises in the middle of the stream.
StreamFails(c) ==
    /\ hpc[c] = "stream"
    /\ Go(c, "error")
    /\ UNCHANGED <<wire, clientVars, lines, deaf>>

\* The in-band error frame; when writing it times out do_POST sends a 500.
ErrorFrame(c) ==
    /\ hpc[c] = "error"
    /\ \E w \in Writes(c) :
        IF w = "ok" THEN Go(c, "end")
        ELSE IF w = "broken" THEN Leave(c, FALSE) ELSE Send(c, FALSE, FALSE)
    /\ UNCHANGED <<wire, clientVars, lines, deaf>>

StreamEnds(c) ==
    /\ hpc[c] = "stream"
    /\ task[c].events = 0
    /\ Go(c, "end")
    /\ UNCHANGED <<wire, clientVars, lines, deaf>>

\* data: [DONE]
WriteDone(c) ==
    /\ hpc[c] = "end"
    /\ \E w \in Writes(c) :
        IF w = "timeout" THEN Send(c, FALSE, FALSE) ELSE Leave(c, FALSE)
    /\ UNCHANGED <<wire, clientVars, lines, deaf>>

\* A status line whose write fails is counted as well: it is on the wire, or
\* in the header buffer, which the next reply flushes.
WriteReply(c) ==
    /\ hpc[c] = "reply"
    /\ \E w \in Writes(c) :
        IF w = "ok" THEN Leave(c, task[c].keep)
        ELSE IF task[c].caught THEN Send(c, TRUE, FALSE)
        ELSE Leave(c, FALSE)
    /\ lines' = [lines EXCEPT ![c] = @ + 1]
    /\ UNCHANGED <<wire, clientVars, deaf>>

Handler(c) ==
    \/ Acquire(c) \/ Saturated(c) \/ ReadHead(c) \/ BadRequestLine(c)
    \/ NoHead(c) \/ Method(c) \/ ReadBody(c) \/ ShortBody(c) \/ BodyTimeout(c)
    \/ Answer(c) \/ StartStream(c) \/ Event(c) \/ StreamFails(c)
    \/ ErrorFrame(c) \/ StreamEnds(c) \/ WriteDone(c) \/ WriteReply(c)

HttpNext == \E c \in Conns : Client(c) \/ Handler(c)

HttpSpec == HttpInit /\ [][HttpNext]_httpVars

\* Handler threads are scheduled, reads and writes time out
\* (socket_timeout) and the engine answers.  Clients need do nothing.
HttpFairSpec == HttpSpec /\ \A c \in Conns : WF_httpVars(Handler(c))

-----------------------------------------------------------------------------
(***************************************************************************)
(* Properties.                                                             *)
(***************************************************************************)
\* Where the handler waits for a request line, what comes first.
AtRequestLine(c) == hpc[c] = "head" /\ ~deaf[c] /\ wire[c] # <<>>

\* A body that do_POST knows of, read or refused, short or late, never becomes
\* a request line, which would "desync the next request on this socket"
\* (server.py:137-139).  Only bytes that no branch accounts for do: the body
\* of a GET, and what follows a negative Content-Length.
Framed == \A c \in Conns : AtRequestLine(c) => Head(wire[c]) # "body"

\* One request gets one status line, and a stream that has begun gets no
\* second one, whatever fails when; as long as the client reads what it is
\* sent. (Of a client that stalls a write runs into the socket's timeout, which
\* _send_sse does not catch, and do_POST then answers 500 within the stream.)
OneStatusLine ==
    \A c \in Conns : lines[c] <= 1 \/ lazy[c] \/ gone[c]

\* Once the clients have said what they have to say every slot is free,
\* whichever of them stalled or left when.
SlotsReturn == <>[](slots = MaxSlots)

=============================================================================
