------------------------------ MODULE HttpServer ------------------------------
(***************************************************************************)
(* The HTTP server of inference-engine/engine/src/serving/http_server.cpp  *)
(* in front of the batcher: the accept loop, one detached thread for each  *)
(* connection, and stop() called by another thread.  The batcher is what   *)
(* Batches promises, which DynamicBatcher implements.                      *)
(*                                                                         *)
(* A request is known by its sizes: recv hands over any number of bytes    *)
(* there are, up to the size of the chunk.  Descriptors are numbers, and   *)
(* a new one is the lowest that is free, as on POSIX.  Ended is the end of *)
(* the process.                                                            *)
(***************************************************************************)
EXTENDS Integers, Sequences, FiniteSetsExt

CONSTANTS
  Conn,            \* connections that clients open
  Impatient,       \* those whose client may hang up before the end
  Traffic,         \* what clients may send, by connection: head, the bytes up to
                   \* the blank line and with it; endless, there is none; route;
                   \* lengths, the Content-Length headers; body, the bytes behind
                   \* the head; sane, floats that are finite and in range
  Unparsable,      \* a Content-Length that stoll rejects
  MaxHeaderBytes,  \* kMaxHeaderBytes
  MaxBodyBytes,    \* kMaxBodyBytes
  ChunkBytes,      \* sizeof(chunk)
  FeatureCount,    \* featureCount_
  FloatBytes,      \* sizeof(float)
  MaxBatch,        \* of the batcher
  BrokenPipeKills  \* send on a reset connection raises SIGPIPE (POSIX)

ASSUME BoundsAssumption ==
  /\ MaxHeaderBytes \in Nat /\ MaxBodyBytes \in Nat
  /\ ChunkBytes \in Nat \ {0}
  /\ FloatBytes \in Nat \ {0, 1} /\ FeatureCount \in Nat \ {0}
ASSUME ConnAssumption == IsFiniteSet(Conn) /\ "listen" \notin Conn
\* A head is never empty: it ends in a blank line.
ASSUME TrafficAssumption ==
  Traffic \subseteq [Conn -> [head : Nat \ {0}, endless : BOOLEAN, body : Nat, sane : BOOLEAN,
                             route : {"infer", "health", "metrics", "other"},
                             lengths : Seq(Int \cup {Unparsable})]]

VARIABLES
  message,   \* what the client of a connection sends
  hungUp,    \* it sends no more; recv returns 0 or less
  at,        \* "backlog", "headers", "body", "future", "reply", "close", "closed"
  buffered,  \* bytes received behind and including the head
  status,    \* of the response; 0 is none yet, or none at all
  fd,        \* the handler's descriptor
  open,      \* what descriptors refer to: 0 is the listening socket
  stats,     \* stats_
  running,   \* running_
  listenSocket,  \* listenSocket_, -1 for none
  runner,    \* where run() is: "loop", "accept", in stop(), "returned", "exit"
  stopper,   \* where another thread's stop() is: "before", in stop(), "returned"
  waiting, answer, stopping, ended  \* the batcher's, and the process

batcherVars == <<waiting, answer, stopping, ended>>
connVars == <<message, hungUp, at, buffered, status, fd, stats>>
serverVars == <<open, running, listenSocket, runner, stopper>>
vars == <<connVars, serverVars, batcherVars>>

Batcher == INSTANCE Batches WITH Request <- Conn, Malformed <- {}

Nothing == -1
Low(a, b) == IF a < b THEN a ELSE b

Init ==
  /\ message \in Traffic
  /\ hungUp = [c \in Conn |-> FALSE]
  /\ at = [c \in Conn |-> "backlog"]
  /\ buffered = [c \in Conn |-> 0]
  /\ status = [c \in Conn |-> 0]
  /\ fd = [c \in Conn |-> Nothing]
  /\ open = [n \in {0} |-> "listen"]
  /\ stats = [requests |-> 0, errors |-> 0]
  /\ running = TRUE /\ listenSocket = 0
  /\ runner = "loop" /\ stopper = "before"
  /\ Batcher!Init

--------------------------------------------------------------------------------

(***************************************************************************)
(* run: the accept loop.  A thread in accept keeps the socket it waits on, *)
(* even when the descriptor is closed meanwhile.                           *)
(***************************************************************************)
Loop ==
  /\ runner = "loop"
  /\ runner' = IF running THEN "accept" ELSE "flag"
  /\ UNCHANGED <<connVars, open, running, listenSocket, stopper, batcherVars>>

\* A connection that was given up, or a descriptor that is closed.
AcceptFails ==
  /\ runner = "accept"
  /\ runner' = IF running THEN "loop" ELSE "flag"
  /\ UNCHANGED <<connVars, open, running, listenSocket, stopper, batcherVars>>

LowestFree == CHOOSE n \in 0 .. Cardinality(Conn) + 1 :
                n \notin DOMAIN open /\ 0 .. n - 1 \subseteq DOMAIN open

Accept(c) ==
  /\ runner = "accept" /\ at[c] = "backlog"
  /\ at' = [at EXCEPT ![c] = "headers"]
  /\ fd' = [fd EXCEPT ![c] = LowestFree]
  /\ open' = [n \in DOMAIN open \cup {LowestFree} |-> IF n = LowestFree THEN c ELSE open[n]]
  /\ runner' = "loop"
  /\ UNCHANGED <<message, hungUp, buffered, status, stats, running, listenSocket, stopper, batcherVars>>

Closed(n) == [k \in DOMAIN open \ {n} |-> open[k]]

(***************************************************************************)
(* stop(), one access of what the threads share a step: the flag, the      *)
(* test, the close, the assignment ("flag", "test", "close", "forget").    *)
(* Nothing orders the accesses of listenSocket_: the argument of close is  *)
(* what the test found, the listening socket, or what a second read finds, *)
(* and closing -1 does nothing.                                            *)
(***************************************************************************)
Afterwards == IF listenSocket # -1 THEN "close" ELSE "returned"
CloseListening == open' \in {Closed(n) : n \in {0, listenSocket}}

\* As called at the end of run ...
RunFlag ==
  /\ runner = "flag"
  /\ running' = FALSE
  /\ runner' = "test"
  /\ UNCHANGED <<connVars, open, listenSocket, stopper, batcherVars>>

RunTest ==
  /\ runner = "test"
  /\ runner' = Afterwards
  /\ UNCHANGED <<connVars, open, running, listenSocket, stopper, batcherVars>>

RunClose ==
  /\ runner = "close"
  /\ CloseListening
  /\ runner' = "forget"
  /\ UNCHANGED <<connVars, running, listenSocket, stopper, batcherVars>>

RunForget ==
  /\ runner = "forget"
  /\ listenSocket' = -1
  /\ runner' = "returned"
  /\ UNCHANGED <<connVars, open, running, stopper, batcherVars>>

\* ... and as called by another thread.
StopFlag ==
  /\ stopper = "before"
  /\ running' = FALSE
  /\ stopper' = "test"
  /\ UNCHANGED <<connVars, open, listenSocket, runner, batcherVars>>

StopTest ==
  /\ stopper = "test"
  /\ stopper' = Afterwards
  /\ UNCHANGED <<connVars, open, running, listenSocket, runner, batcherVars>>

StopClose ==
  /\ stopper = "close"
  /\ CloseListening
  /\ stopper' = "forget"
  /\ UNCHANGED <<connVars, running, listenSocket, runner, batcherVars>>

\* Seeded fault: the closed descriptor is remembered.
StopForgetNothing ==
  /\ stopper = "forget"
  /\ stopper' = "returned"
  /\ UNCHANGED <<connVars, open, running, listenSocket, runner, batcherVars>>

StopForget ==
  /\ stopper = "forget"
  /\ listenSocket' = -1
  /\ stopper' = "returned"
  /\ UNCHANGED <<connVars, open, running, runner, batcherVars>>

\* runServe unwinds: ~HttpServer finds no socket, the batcher's destructor stops
\* and drains it, and the process ends with whatever threads there are.
DestroyBatcher ==
  /\ runner = "returned"
  /\ Batcher!Stop
  /\ runner' = "exit"
  /\ UNCHANGED <<connVars, open, running, listenSocket, stopper>>

Exit ==
  /\ runner = "exit" /\ waiting = <<>>
  /\ ended' = TRUE
  /\ UNCHANGED <<connVars, serverVars, waiting, answer, stopping>>

--------------------------------------------------------------------------------

(***************************************************************************)
(* handleClient.                                                           *)
(***************************************************************************)
Total(c) == message[c].head + message[c].body
\* A descriptor that somebody else closed, or closed and opened again, is of
\* no use to the handler.
Mine(c) == fd[c] \in DOMAIN open /\ open[fd[c]] = c

\* What recv may return.
Received(c) ==
  IF ~ Mine(c) THEN {0}
  ELSE 1 .. Low(ChunkBytes, Total(c) - buffered[c]) \cup (IF hungUp[c] THEN {0} ELSE {})

HangUp(c) ==
  /\ c \in Impatient /\ ~ hungUp[c]
  /\ at[c] \in {"headers", "body", "reply"}
  /\ hungUp' = [hungUp EXCEPT ![c] = TRUE]
  /\ UNCHANGED <<message, at, buffered, status, fd, stats, serverVars, batcherVars>>

Goto(c, place) == at' = [at EXCEPT ![c] = place]
Reply(c, code) == Goto(c, "reply") /\ status' = [status EXCEPT ![c] = code]

\* Seeded fault: a declared length has no upper limit.
LengthStatusUncapped(c) ==
  LET lengths == message[c].lengths
      rejected == {i \in DOMAIN lengths : lengths[i] = Unparsable \/ lengths[i] < 0}
  IN  IF rejected = {} THEN 0 ELSE IF lengths[Min(rejected)] = Unparsable THEN 400 ELSE 413

\* The first Content-Length that is no good decides; the last one counts.
LengthStatus(c) ==
  LET lengths == message[c].lengths
      Rejected(i) == lengths[i] = Unparsable \/ lengths[i] \notin 0 .. MaxBodyBytes
      rejected == {i \in DOMAIN lengths : Rejected(i)}
  IN  IF rejected = {} THEN 0 ELSE IF lengths[Min(rejected)] = Unparsable THEN 400 ELSE 413

ContentLength(c) ==
  LET lengths == message[c].lengths IN IF lengths = <<>> THEN 0 ELSE lengths[Len(lengths)]

HeadComplete(c, bytes) == ~ message[c].endless /\ bytes >= message[c].head

\* Seeded faults: the size is looked at although the blank line is there;
\* headers may be of any size.
TooLargeAnyway(c, bytes) == bytes > MaxHeaderBytes

TooLargeNever(c, bytes) == FALSE

TooLarge(c, bytes) == ~ HeadComplete(c, bytes) /\ bytes > MaxHeaderBytes

RecvHeaders(c) ==
  /\ at[c] = "headers"
  /\ \E n \in Received(c) :
       /\ buffered' = [buffered EXCEPT ![c] = @ + n]
       /\ \/ n = 0 /\ Goto(c, "close") /\ UNCHANGED status
          \/ n # 0 /\ TooLarge(c, buffered'[c]) /\ Reply(c, 431)
          \/ /\ n # 0 /\ ~ TooLarge(c, buffered'[c])
             /\ ~ HeadComplete(c, buffered'[c])
             /\ Goto(c, "headers") /\ UNCHANGED status
          \/ /\ n # 0 /\ ~ TooLarge(c, buffered'[c])
             /\ HeadComplete(c, buffered'[c])
             /\ IF LengthStatus(c) = 0 THEN Goto(c, "body") /\ UNCHANGED status
                ELSE Reply(c, LengthStatus(c))
  /\ UNCHANGED <<message, hungUp, fd, stats, serverVars, batcherVars>>

BodyBytes(c) == buffered[c] - message[c].head

RecvBody(c) ==
  /\ at[c] = "body" /\ BodyBytes(c) < ContentLength(c)
  /\ \E n \in Received(c) \ {0} : buffered' = [buffered EXCEPT ![c] = @ + n]
  /\ UNCHANGED <<message, hungUp, at, status, fd, stats, serverVars, batcherVars>>

\* Seeded fault: recv is called again when it returned nothing.
BodyOverComplete(c) ==
  /\ at[c] = "body"
  /\ BodyBytes(c) >= ContentLength(c)

\* The loop is over: all is there, or recv returned nothing.
BodyOver(c) ==
  /\ at[c] = "body"
  /\ BodyBytes(c) >= ContentLength(c) \/ 0 \in Received(c)

\* The body as handleInfer sees it, cut to what was declared.
Body(c) == Low(BodyBytes(c), ContentLength(c))

Route(c) ==
  /\ BodyOver(c) /\ message[c].route # "infer"
  /\ Reply(c, IF message[c].route \in {"health", "metrics"} THEN 200 ELSE 404)
  /\ UNCHANGED <<message, hungUp, buffered, fd, stats, serverVars, batcherVars>>

CountError == stats' = [stats EXCEPT !.errors = @ + 1]

\* Floats, or as many pixels as features; pixels are always in range.
Acceptable(c) ==
  \/ Body(c) = FeatureCount * FloatBytes /\ message[c].sane
  \/ Body(c) = FeatureCount

InferRejects(c) ==
  /\ BodyOver(c) /\ message[c].route = "infer" /\ ~ Acceptable(c)
  /\ CountError
  /\ Reply(c, 400)
  /\ UNCHANGED <<message, hungUp, buffered, fd, serverVars, batcherVars>>

InferEnqueue(c) ==
  /\ BodyOver(c) /\ message[c].route = "infer" /\ Acceptable(c)
  /\ \/ Batcher!Accept(c) /\ Goto(c, "future") /\ UNCHANGED <<status, stats>>
     \/ Batcher!Refuse(c) /\ CountError /\ Reply(c, 500)
  /\ UNCHANGED <<message, hungUp, buffered, fd, serverVars>>

\* Seeded fault: a failed inference is not counted.
InferAnsweredUncounted(c) ==
  /\ at[c] = "future"
  /\ \/ /\ answer[c] = "logits"
        /\ stats' = [stats EXCEPT !.requests = @ + 1]
        /\ Reply(c, 200)
     \/ answer[c] = "error" /\ Reply(c, 500) /\ UNCHANGED stats
  /\ UNCHANGED <<message, hungUp, buffered, fd, serverVars, batcherVars>>

InferAnswered(c) ==
  /\ at[c] = "future"
  /\ \/ /\ answer[c] = "logits"
        /\ stats' = [stats EXCEPT !.requests = @ + 1]
        /\ Reply(c, 200)
     \/ answer[c] = "error" /\ CountError /\ Reply(c, 500)
  /\ UNCHANGED <<message, hungUp, buffered, fd, serverVars, batcherVars>>

\* sendAll.
Send(c) ==
  /\ at[c] = "reply"
  /\ \/ Goto(c, "close") /\ UNCHANGED ended
     \/ BrokenPipeKills /\ hungUp[c] /\ ended' = TRUE /\ UNCHANGED at
  /\ UNCHANGED <<message, hungUp, buffered, status, fd, stats, serverVars, waiting, answer, stopping>>

Close(c) ==
  /\ at[c] = "close"
  /\ open' = Closed(fd[c])
  /\ Goto(c, "closed")
  /\ UNCHANGED <<message, hungUp, buffered, status, fd, stats, running, listenSocket, runner,
                 stopper, batcherVars>>

--------------------------------------------------------------------------------

HandlerStep(c) ==
  RecvHeaders(c) \/ RecvBody(c) \/ Route(c) \/ InferRejects(c) \/ InferEnqueue(c)
  \/ InferAnswered(c) \/ Send(c) \/ Close(c)

RunStep ==
  Loop \/ AcceptFails \/ (\E c \in Conn : Accept(c))
  \/ RunFlag \/ RunTest \/ RunClose \/ RunForget \/ DestroyBatcher \/ Exit
StopStep == StopFlag \/ StopTest \/ StopClose \/ StopForget

\* The worker of the batcher; what it does when it fails to is Batches' End.
BatcherStep == (Batcher!Answer \/ Batcher!End) /\ UNCHANGED <<connVars, serverVars>>

Next ==
  /\ ~ ended
  /\ RunStep \/ StopStep \/ BatcherStep \/ \E c \in Conn : HangUp(c) \/ HandlerStep(c)

Spec == Init /\ [][Next]_vars

(***************************************************************************)
(* Fairness: handler threads are scheduled, and the batcher answers, which *)
(* is what EveryRequestAnswered says of DynamicBatcher.                    *)
(***************************************************************************)
Fairness ==
  /\ \A c \in Conn : WF_vars(~ ended /\ HandlerStep(c))
  /\ WF_vars(~ ended /\ BatcherStep)

FairSpec == Spec /\ Fairness

--------------------------------------------------------------------------------

\* What a message that is all there deserves.
Specified(c) ==
  LET m == message[c]
      declared == ContentLength(c)
      rest == IF LengthStatus(c) # 0 THEN {LengthStatus(c)}
              ELSE IF m.route \in {"health", "metrics"} THEN {200}
              ELSE IF m.route = "other" THEN {404}
              ELSE IF \/ declared = FeatureCount
                      \/ declared = FeatureCount * FloatBytes /\ m.sane THEN {200, 500}
              ELSE {400}
  IN  IF m.endless \/ m.head > MaxHeaderBytes + ChunkBytes THEN {431}
      ELSE IF m.head > MaxHeaderBytes THEN {431} \cup rest ELSE rest

(***************************************************************************)
(* However the bytes of a request fall into chunks, and whatever other     *)
(* connections do, it gets the one status its head and its declared body   *)
(* call for, and an inference the batcher's verdict on this request.  Only *)
(* a head that passes kMaxHeaderBytes by less than a chunk may go either   *)
(* way.                                                                    *)
(***************************************************************************)
AsSpecified ==
  \A c \in Conn :
    /\ status[c] = 431 => 431 \in Specified(c)
    /\ status[c] # 0 /\ HeadComplete(c, buffered[c])
       /\ (LengthStatus(c) # 0 \/ BodyBytes(c) >= ContentLength(c))
         => status[c] \in Specified(c)
    /\ answer[c] \in {"logits", "error"} /\ status[c] # 0
         => status[c] = IF answer[c] = "logits" THEN 200 ELSE 500
    /\ answer[c] = "none" => status[c] # 500

(***************************************************************************)
(* /metrics: each inference that got its response is counted once, as a    *)
(* request if it has logits and as an error if not; what the framing turns *)
(* away is in neither count.                                               *)
(***************************************************************************)
Inferred == {c \in Conn : message[c].route = "infer" /\ LengthStatus(c) = 0 /\ status[c] \notin {0, 431}}

EachInferenceCounted ==
  /\ stats.requests = Cardinality({c \in Inferred : status[c] = 200})
  /\ stats.errors = Cardinality({c \in Inferred : status[c] # 200})

(***************************************************************************)
(* "All request sizes are bounded" (http_server.h:14): what a connection   *)
(* makes the server keep stays within the two limits and a chunk beyond    *)
(* each, whatever it sends.                                                *)
(***************************************************************************)
BuffersBounded ==
  \A c \in Conn :
    IF HeadComplete(c, buffered[c]) THEN BodyBytes(c) < MaxBodyBytes + ChunkBytes
                                         /\ message[c].head <= MaxHeaderBytes + ChunkBytes
    ELSE buffered[c] <= MaxHeaderBytes + ChunkBytes

(***************************************************************************)
(* Nobody but its handler closes a connection, with one exception: another *)
(* thread's stop() has closed the listening socket, accept has given the   *)
(* descriptor to a connection, and run() tests listenSocket_ before the    *)
(* other thread has forgotten it.  Then run() closes the descriptor once   *)
(* more, perhaps after the other stop() has returned.  It never starts to  *)
(* do so afterwards, and the other thread's stop() never closes one.       *)
(***************************************************************************)
OwnSocketStep ==
  /\ \A c \in Conn : Mine(c) /\ ~ Mine(c)' =>
       at'[c] = "closed" \/ (runner = "close" /\ stopper \in {"forget", "returned"})
  /\ runner = "test" /\ runner' = "close" => stopper # "returned"
OwnSocket == [][OwnSocketStep]_vars

(***************************************************************************)
(* Every handler ends, if its client has sent all that was announced, or a *)
(* head that is refused however it is cut, or hangs up: no lost answer, no *)
(* recv without end.  Without a receive timeout a client that announces a  *)
(* body and keeps silent holds its handler for ever.                       *)
(***************************************************************************)
Answerable(c) ==
  LET m == message[c] IN
    \/ hungUp[c]
    \/ m.head > MaxHeaderBytes + (IF m.endless THEN 0 ELSE ChunkBytes)
    \/ ~ m.endless /\ (LengthStatus(c) # 0 \/ m.body >= ContentLength(c))

HandlersEnd ==
  \A c \in Conn :
    at[c] # "backlog" /\ Answerable(c) ~> at[c] = "closed" \/ ended

(***************************************************************************)
(* "body is exactly featureCount little-endian float32 values, or          *)
(* featureCount raw uint8 pixels" (http_server.h:10-11): logits are only   *)
(* given for a body that came as it was declared.                          *)
(***************************************************************************)
InferredWasSent ==
  \A c \in Conn :
    message[c].route = "infer" /\ status[c] = 200 => BodyBytes(c) >= ContentLength(c)

================================================================================
