---------------------------- MODULE FrontEndProofs -----------------------------
(***************************************************************************)
(* What reaches the engine from outside: HTTP requests, and the command    *)
(* line with its model file.                                               *)
(*                                                                         *)
(* That each request gets the response its bytes call for, that inferences *)
(* are counted once, that buffers stay bounded and that nobody closes a    *)
(* connection of another: for any connections, messages and limits.        *)
(* That load returns what save wrote, for any models, and that eval and    *)
(* bench report the true count, for any options, datasets and limits.      *)
(***************************************************************************)
EXTENDS HttpServer, CommandLine, FiniteSetTheorems, SequenceTheorems, WellFoundedInduction, NaturalsInduction, TLAPS

--------------------------------------------------------------------------------

(***************************************************************************)
(* The inductive invariant.                                                *)
(***************************************************************************)
Place == {"backlog", "headers", "body", "future", "reply", "close", "closed"}
Code == {0, 200, 400, 404, 413, 431, 500}

Message == [head : Nat \ {0}, endless : BOOLEAN, body : Nat, sane : BOOLEAN,
            route : {"infer", "health", "metrics", "other"},
            lengths : Seq(Int \cup {Unparsable})]

ConnTypeOK ==
  /\ message \in [Conn -> Message]
  /\ at \in [Conn -> Place]
  /\ buffered \in [Conn -> Nat]
  /\ status \in [Conn -> Code]
  /\ fd \in [Conn -> Int]
  /\ stats \in [requests : Nat, errors : Nat]
  /\ waiting \in Seq(Conn)
  /\ answer \in [Conn -> {"none", "refused", "pending", "logits", "error"}]

ServerTypeOK ==
  /\ listenSocket \in {0, -1}
  /\ runner \in {"loop", "accept", "flag", "test", "close", "forget", "returned", "exit"}
  /\ stopper \in {"before", "test", "close", "forget", "returned"}

\* Where a connection has no descriptor, and run() until it has closed the socket.
Resting == {"backlog", "closed"}
Accepting == runner \in {"loop", "accept", "flag", "test", "close"}

\* Descriptors: a live connection has its own until run() is in stop().
SocketInv ==
  /\ DOMAIN open \subseteq Nat
  /\ open \in [DOMAIN open -> Conn \cup {"listen"}]
  /\ \A n \in DOMAIN open : open[n] = "listen" => n = 0
  /\ \A n \in DOMAIN open : open[n] \in Conn => at[open[n]] \notin Resting /\ fd[open[n]] = n
  /\ \A c \in Conn : at[c] \notin Resting => Mine(c) \/ (~ Accepting /\ fd[c] \notin DOMAIN open)

\* The listening socket is closed by whoever comes first; by then nobody has
\* forgotten it, and after run() no connection gets its descriptor.
ListenInv ==
  /\ Accepting /\ stopper \in {"before", "test", "close"} =>
       listenSocket = 0 /\ 0 \in DOMAIN open /\ open[0] = "listen"
  /\ ~ Accepting /\ stopper \in {"before", "test", "close"} => 0 \notin DOMAIN open
  /\ runner \in {"returned", "exit"} \/ stopper = "returned" => listenSocket = -1

\* The batcher's queue.
WaitingInv ==
  /\ IsInjective(waiting)
  /\ \A i \in DOMAIN waiting : answer[waiting[i]] = "pending"
  /\ \A c \in Conn : answer[c] = "pending" => at[c] = "future"

\* How a connection was answered, by its message.
Judged(c) ==
  \/ /\ status[c] = 431 /\ answer[c] = "none"
     /\ ~ HeadComplete(c, buffered[c]) /\ buffered[c] > MaxHeaderBytes
  \/ /\ HeadComplete(c, buffered[c]) /\ answer[c] = "none"
     /\ LengthStatus(c) # 0 /\ status[c] = LengthStatus(c)
  \/ /\ HeadComplete(c, buffered[c]) /\ answer[c] = "none"
     /\ LengthStatus(c) = 0 /\ message[c].route # "infer"
     /\ status[c] = IF message[c].route \in {"health", "metrics"} THEN 200 ELSE 404
  \/ /\ HeadComplete(c, buffered[c])
     /\ LengthStatus(c) = 0 /\ message[c].route = "infer"
     /\ \/ ~ Acceptable(c) /\ status[c] = 400 /\ answer[c] = "none"
        \/ Acceptable(c) /\ status[c] = 500 /\ answer[c] \in {"refused", "error"}
        \/ Acceptable(c) /\ status[c] = 200 /\ answer[c] = "logits"

\* What is known of a connection wherever its handler is.
ConnInv(c) ==
  /\ at[c] \in {"backlog", "headers"} =>
       /\ status[c] = 0 /\ answer[c] = "none"
       /\ ~ HeadComplete(c, buffered[c]) /\ buffered[c] <= MaxHeaderBytes
  /\ at[c] = "body" =>
       /\ status[c] = 0 /\ answer[c] = "none"
       /\ HeadComplete(c, buffered[c]) /\ LengthStatus(c) = 0
  /\ at[c] = "future" =>
       /\ status[c] = 0 /\ answer[c] \in {"pending", "logits", "error"}
       /\ HeadComplete(c, buffered[c]) /\ LengthStatus(c) = 0
       /\ message[c].route = "infer" /\ Acceptable(c)
  /\ at[c] \in {"reply", "close", "closed"} =>
       (status[c] = 0 /\ answer[c] = "none") \/ Judged(c)

\* The two halves: descriptors and listening, and what connections bring.
ServerInv ==
  /\ ServerTypeOK
  /\ SocketInv
  /\ ListenInv

TrafficInv ==
  /\ ConnTypeOK
  /\ WaitingInv
  /\ \A c \in Conn : ConnInv(c)
  /\ BuffersBounded
  /\ EachInferenceCounted

IInv ==
  /\ ServerInv
  /\ TrafficInv

--------------------------------------------------------------------------------

(***************************************************************************)
(* What a message says does not change.                                    *)
(***************************************************************************)
LEMMA MessageSame ==
  ASSUME message' = message
  PROVE  \A c \in Conn : /\ LengthStatus(c)' = LengthStatus(c)
                         /\ ContentLength(c)' = ContentLength(c)
  BY DEF LengthStatus, ContentLength

\* The status of rejected lengths; none is rejected if it is 0.
LEMMA LengthFacts ==
  ASSUME ConnTypeOK, NEW c \in Conn
  PROVE  /\ LengthStatus(c) \in {0, 400, 413}
         /\ LengthStatus(c) = 0 => ContentLength(c) \in 0 .. MaxBodyBytes
<1> DEFINE lengths == message[c].lengths
           Rejected(i) == lengths[i] = Unparsable \/ lengths[i] \notin 0 .. MaxBodyBytes
           rejected == {i \in DOMAIN lengths : Rejected(i)}
<1>1. LengthStatus(c) = IF rejected = {} THEN 0
                        ELSE IF lengths[Min(rejected)] = Unparsable THEN 400 ELSE 413
  BY DEF LengthStatus
<1>2. LengthStatus(c) = 0 => \A i \in DOMAIN lengths : lengths[i] \in 0 .. MaxBodyBytes
  BY <1>1
<1>3. lengths \in Seq(Int \cup {Unparsable})
  BY DEF ConnTypeOK, Message
<1>4. ContentLength(c) = IF lengths = <<>> THEN 0 ELSE lengths[Len(lengths)]
  BY DEF ContentLength
<1>5. lengths # <<>> => Len(lengths) \in DOMAIN lengths
  BY <1>3
<1> HIDE DEF lengths, rejected
<1>6. LengthStatus(c) = 0 => ContentLength(c) \in 0 .. MaxBodyBytes
  BY <1>2, <1>4, <1>5, BoundsAssumption
<1>7. LengthStatus(c) \in {0, 400, 413}
  BY <1>1
<1> QED
  BY <1>6, <1>7

\* A connection of which nothing has changed is as it was.
LEMMA ConnSame ==
  ASSUME message' = message, NEW c \in Conn, ConnInv(c), at'[c] = at[c],
         buffered'[c] = buffered[c], status'[c] = status[c], answer'[c] = answer[c]
  PROVE  ConnInv(c)'
<1>1. LengthStatus(c)' = LengthStatus(c) /\ ContentLength(c)' = ContentLength(c)
  BY MessageSame
<1>2. HeadComplete(c, buffered[c])' <=> HeadComplete(c, buffered[c])
  BY DEF HeadComplete
<1>3. Acceptable(c)' <=> Acceptable(c)
  BY <1>1 DEF Acceptable, Body, BodyBytes
<1>4. Judged(c)' <=> Judged(c)
  BY <1>1, <1>2, <1>3 DEF Judged
<1> QED
  BY <1>1, <1>2, <1>3, <1>4 DEF ConnInv

\* A reply on its way is not touched by what happens to others.
LEMMA JudgedSame ==
  ASSUME message' = message, NEW c \in Conn, Judged(c),
         buffered'[c] = buffered[c], status'[c] = status[c], answer'[c] = answer[c]
  PROVE  Judged(c)'
<1>1. LengthStatus(c)' = LengthStatus(c) /\ ContentLength(c)' = ContentLength(c)
  BY MessageSame
<1>2. HeadComplete(c, buffered[c])' <=> HeadComplete(c, buffered[c])
  BY DEF HeadComplete
<1>3. Acceptable(c)' <=> Acceptable(c)
  BY <1>1 DEF Acceptable, Body, BodyBytes
<1> QED
  BY <1>1, <1>2, <1>3 DEF Judged

\* Buffers that nothing was received into.
LEMMA BuffersSame ==
  ASSUME BuffersBounded, UNCHANGED <<message, buffered>>
  PROVE  BuffersBounded'
  BY DEF BuffersBounded, HeadComplete, BodyBytes

\* Counts that no reply adds to.
LEMMA CountSame ==
  ASSUME EachInferenceCounted, UNCHANGED <<message, status, stats>>
  PROVE  EachInferenceCounted'
<1>1. \A c \in Conn : LengthStatus(c)' = LengthStatus(c)
  BY MessageSame
<1>2. Inferred' = Inferred
  BY <1>1 DEF Inferred
<1> QED
  BY <1>2 DEF EachInferenceCounted

\* What a reply does to the counters.
CountedReply(c, code) ==
  stats' = IF message[c].route = "infer" /\ LengthStatus(c) = 0 /\ code # 431
           THEN IF code = 200 THEN [stats EXCEPT !.requests = @ + 1]
                ELSE [stats EXCEPT !.errors = @ + 1]
           ELSE stats

\* A reply is counted once, or not at all if it is the framing's.
LEMMA ReplyCounted ==
  ASSUME ConnTypeOK, EachInferenceCounted, message' = message,
         NEW c \in Conn, NEW code \in Code \ {0}, status[c] = 0,
         status' = [status EXCEPT ![c] = code],
         CountedReply(c, code)
  PROVE  EachInferenceCounted' /\ stats' \in [requests : Nat, errors : Nat]
<1> DEFINE Good == {d \in Inferred : status[d] = 200}
           Bad == {d \in Inferred : status[d] # 200}
           Counted == message[c].route = "infer" /\ LengthStatus(c) = 0 /\ code # 431
<1>1. \A d \in Conn : status'[d] = IF d = c THEN code ELSE status[d]
  BY DEF ConnTypeOK
<1>2. \A d \in Conn : LengthStatus(d)' = LengthStatus(d)
  BY MessageSame
<1>3. \A d \in Conn : d \in Inferred <=> /\ message[d].route = "infer" /\ LengthStatus(d) = 0
                                        /\ status[d] \notin {0, 431}
  BY DEF Inferred
<1>4. \A d \in Conn : d \in Inferred' <=> /\ message[d].route = "infer" /\ LengthStatus(d) = 0
                                         /\ status'[d] \notin {0, 431}
  BY <1>2 DEF Inferred
<1>5. Inferred \subseteq Conn /\ Inferred' \subseteq Conn
  BY DEF Inferred
<1>6. /\ stats.requests = Cardinality(Good) /\ stats.errors = Cardinality(Bad)
      /\ stats \in [requests : Nat, errors : Nat]
  BY DEF EachInferenceCounted, ConnTypeOK
<1>7. c \notin Inferred /\ \A d \in Conn \ {c} : d \in Inferred' <=> d \in Inferred
  <2>1. c \notin Inferred
    BY <1>3
  <2>2. \A d \in Conn \ {c} : d \in Inferred' <=> d \in Inferred
    <3> TAKE d \in Conn \ {c}
    <3>1. status'[d] = status[d]
      BY <1>1
    <3> QED
      BY <1>3, <1>4, <3>1
  <2> QED
    BY <2>1, <2>2
<1>8. c \in Inferred' <=> Counted
  BY <1>1, <1>4
<1>9. /\ IsFiniteSet(Good) /\ IsFiniteSet(Bad)
      /\ c \notin Good /\ c \notin Bad
  <2>1. Good \in SUBSET Conn /\ Bad \in SUBSET Conn
    BY <1>5
  <2> QED
    BY <1>7, <2>1, ConnAssumption, FS_Subset
<1>10. {d \in Inferred' : status'[d] = 200} = IF Counted /\ code = 200 THEN Good \cup {c} ELSE Good
  BY <1>1, <1>5, <1>7, <1>8
<1>11. {d \in Inferred' : status'[d] # 200} = IF Counted /\ code # 200 THEN Bad \cup {c} ELSE Bad
  BY <1>1, <1>5, <1>7, <1>8
<1> HIDE DEF Good, Bad
<1>12. /\ Cardinality(Good \cup {c}) = Cardinality(Good) + 1
       /\ Cardinality(Bad \cup {c}) = Cardinality(Bad) + 1
  BY <1>9, FS_AddElement
<1>13. /\ stats'.requests = IF Counted /\ code = 200 THEN stats.requests + 1 ELSE stats.requests
       /\ stats'.errors = IF Counted /\ code # 200 THEN stats.errors + 1 ELSE stats.errors
       /\ stats' \in [requests : Nat, errors : Nat]
  BY <1>6 DEF CountedReply
<1> HIDE DEF Counted
<1>14. /\ stats'.requests = Cardinality({d \in Inferred' : status'[d] = 200})
       /\ stats'.errors = Cardinality({d \in Inferred' : status'[d] # 200})
  <2>1. CASE Counted /\ code = 200
    <3>1. /\ {d \in Inferred' : status'[d] = 200} = Good \cup {c}
          /\ {d \in Inferred' : status'[d] # 200} = Bad
          /\ stats'.requests = stats.requests + 1 /\ stats'.errors = stats.errors
      BY <1>10, <1>11, <1>13, <2>1
    <3> QED
      BY <1>6, <1>12, <3>1
  <2>2. CASE Counted /\ code # 200
    <3>1. /\ {d \in Inferred' : status'[d] = 200} = Good
          /\ {d \in Inferred' : status'[d] # 200} = Bad \cup {c}
          /\ stats'.requests = stats.requests /\ stats'.errors = stats.errors + 1
      BY <1>10, <1>11, <1>13, <2>2
    <3> QED
      BY <1>6, <1>12, <3>1
  <2>3. CASE ~ Counted
    BY <1>6, <1>10, <1>11, <1>13, <2>3
  <2> QED
    BY <2>1, <2>2, <2>3
<1>15. EachInferenceCounted'
  BY <1>14 DEF EachInferenceCounted
<1> QED
  BY <1>13, <1>15

--------------------------------------------------------------------------------

(***************************************************************************)
(* Descriptors.                                                            *)
(***************************************************************************)
\* There is a free descriptor, as no two connections have the same.
LEMMA LowestFreeIsFree ==
  ASSUME SocketInv
  PROVE  LowestFree \in Nat /\ LowestFree \notin DOMAIN open
<1> DEFINE K == Cardinality(Conn)
           T == (0 .. K + 1) \ DOMAIN open
           Below == OpToRel(<, Nat)
           Good(n) == n \notin DOMAIN open /\ 0 .. n - 1 \subseteq DOMAIN open
<1>1. /\ IsFiniteSet(Conn \cup {"listen"}) /\ Cardinality(Conn \cup {"listen"}) = K + 1
      /\ K \in Nat
  BY ConnAssumption, FS_AddElement, FS_CardinalityType
<1>2. open \in Injection(DOMAIN open, Conn \cup {"listen"})
  <2>1. \A m, n \in DOMAIN open : open[m] = open[n] => m = n
    BY DEF SocketInv
  <2>2. open \in [DOMAIN open -> Conn \cup {"listen"}]
    BY DEF SocketInv
  <2> QED
    BY <2>1, <2>2 DEF Injection, IsInjective
<1>3. IsFiniteSet(DOMAIN open) /\ Cardinality(DOMAIN open) <= K + 1
  BY <1>1, <1>2, FS_Injection
<1>4. T # {}
  <2> SUFFICES ASSUME 0 .. K + 1 \subseteq DOMAIN open PROVE FALSE
    OBVIOUS
  <2>1. Cardinality(0 .. K + 1) <= Cardinality(DOMAIN open)
    BY <1>3, FS_Subset
  <2>2. PICK k \in Nat : k = K + 1
    BY <1>1
  <2>3. Cardinality(0 .. k) = IF 0 > k THEN 0 ELSE k - 0 + 1
    BY FS_Interval
  <2>4. Cardinality(DOMAIN open) \in Nat
    BY <1>3, FS_CardinalityType
  <2> QED
    BY <1>1, <1>3, <2>1, <2>2, <2>3, <2>4
<1>5. \E n \in T : \A k \in T : ~ (<<k, n>> \in Below)
  <2>1. IsWellFoundedOn(Below, Nat)
    BY NatLessThanWellFounded
  <2>2. T \subseteq Nat
    BY <1>1
  <2> HIDE DEF T, Below
  <2> QED
    BY <1>4, <2>1, <2>2, WFMin
<1>6. PICK n \in T : \A k \in T : ~ (<<k, n>> \in Below)
  BY <1>5
<1> HIDE DEF Below
<1>7. n \in 0 .. K + 1 /\ n \in Nat /\ Good(n)
  <2>1. n \in 0 .. K + 1 /\ n \in Nat /\ n \notin DOMAIN open
    BY <1>1, <1>6
  <2>2. ASSUME NEW k \in 0 .. n - 1 PROVE k \in DOMAIN open
    <3>1. k \in Nat /\ k < n /\ k \in 0 .. K + 1
      BY <1>1, <2>1
    <3>2. <<k, n>> \in Below
      BY <2>1, <3>1 DEF OpToRel, Below
    <3> QED
      BY <1>6, <3>1, <3>2
  <2> QED
    BY <2>1, <2>2
<1>8. LowestFree \in 0 .. K + 1 /\ Good(LowestFree)
  BY <1>7 DEF LowestFree
<1> QED
  BY <1>1, <1>8

\* A step that opens and closes nothing.
LEMMA SocketsSame ==
  ASSUME SocketInv, UNCHANGED <<open, fd>>, \A c \in Conn : at'[c] \notin Resting <=> at[c] \notin Resting,
         Accepting' => Accepting,
         runner = "test" /\ runner' = "close" => stopper # "returned"
  PROVE  SocketInv' /\ OwnSocketStep
<1>1. \A c \in Conn : Mine(c)' <=> Mine(c)
  BY DEF Mine
<1>2. \A c \in Conn : at[c] \notin Resting => Mine(c) \/ (~ Accepting /\ fd[c] \notin DOMAIN open)
  BY DEF SocketInv
<1>3. \A c \in Conn : at'[c] \notin Resting => Mine(c)' \/ (~ Accepting' /\ fd'[c] \notin DOMAIN open')
  BY <1>1, <1>2
<1> QED
  BY <1>1, <1>3 DEF SocketInv, OwnSocketStep

\* What is still open when descriptor n is closed.
LEMMA ClosedFacts ==
  ASSUME NEW n
  PROVE  /\ DOMAIN Closed(n) = DOMAIN open \ {n}
         /\ \A k \in DOMAIN open \ {n} : Closed(n)[k] = open[k]
         /\ Closed(n) = [k \in DOMAIN open \ {n} |-> open[k]]
  BY DEF Closed

\* Closing -1 does nothing.
LEMMA CloseNothing ==
  ASSUME SocketInv
  PROVE  Closed(-1) = open
<1>1. DOMAIN open \ {-1} = DOMAIN open
  BY DEF SocketInv
<1>2. open = [k \in DOMAIN open |-> open[k]]
  BY DEF SocketInv
<1> QED
  BY <1>1, <1>2 DEF Closed

\* The listening socket is closed, or a descriptor that nobody may use.
LEMMA ListenClosed ==
  ASSUME SocketInv, open' = Closed(0), UNCHANGED <<fd, at>>,
         Accepting' => Accepting,
         \/ 0 \notin DOMAIN open
         \/ open[0] = "listen"
         \/ runner = "close" /\ stopper \in {"forget", "returned"} /\ ~ Accepting',
         runner = "test" => runner' # "close"
  PROVE  SocketInv' /\ OwnSocketStep /\ 0 \notin DOMAIN open'
<1>1. /\ DOMAIN open' = DOMAIN open \ {0}
      /\ \A k \in DOMAIN open' : open'[k] = open[k]
      /\ open' \in [DOMAIN open' -> Conn \cup {"listen"}]
  <2>1. PICK D, f, E : D = DOMAIN open \ {0} /\ f = open' /\ E = Conn \cup {"listen"}
    OBVIOUS
  <2>2. DOMAIN f = D /\ (\A k \in D : f[k] = open[k]) /\ f = [k \in D |-> open[k]]
    BY <2>1, ClosedFacts
  <2>3. \A k \in D : open[k] \in E
    BY <2>1 DEF SocketInv
  <2>4. f \in [D -> E]
    BY <2>2, <2>3
  <2> QED
    BY <2>1, <2>2, <2>4
<1>2. \A c \in Conn : at'[c] \notin Resting <=> at[c] \notin Resting
  BY DEF Resting
<1>3. \A c \in Conn : Mine(c) =>
        fd[c] # 0 \/ (runner = "close" /\ stopper \in {"forget", "returned"} /\ ~ Accepting')
  <2>1. \A c \in Conn : Mine(c) => fd[c] \in DOMAIN open /\ open[fd[c]] # "listen"
    BY ConnAssumption DEF Mine
  <2> QED
    BY <2>1
<1>4. \A c \in Conn : fd[c] # 0 => (Mine(c)' <=> Mine(c))
  BY <1>1 DEF Mine
<1>5. \A c \in Conn : at'[c] \notin Resting => Mine(c)' \/ (~ Accepting' /\ fd'[c] \notin DOMAIN open')
  <2> TAKE c \in Conn
  <2>1. at[c] \notin Resting => Mine(c) \/ (~ Accepting /\ fd[c] \notin DOMAIN open)
    BY DEF SocketInv
  <2>2. fd[c] = 0 => fd[c] \notin DOMAIN open'
    BY <1>1
  <2>3. fd[c] \notin DOMAIN open => fd[c] \notin DOMAIN open'
    BY <1>1
  <2> QED
    BY <1>2, <1>3, <1>4, <2>1, <2>2, <2>3
<1>6. OwnSocketStep
  BY <1>3, <1>4 DEF OwnSocketStep
<1>7. /\ DOMAIN open' \subseteq Nat
      /\ \A n \in DOMAIN open' : open'[n] = "listen" => n = 0
      /\ \A n \in DOMAIN open' : open'[n] \in Conn => at'[open'[n]] \notin Resting /\ fd'[open'[n]] = n
  BY <1>1, <1>2 DEF SocketInv
<1> QED
  BY <1>1, <1>5, <1>6, <1>7 DEF SocketInv

\* A handler closes its own connection, or one that is closed already.
LEMMA CloseKeeps ==
  ASSUME ServerInv, ConnTypeOK, NEW c \in Conn, Close(c)
  PROVE  ServerInv' /\ OwnSocketStep
<1>1. /\ at[c] = "close" /\ open' = Closed(fd[c]) /\ at' = [at EXCEPT ![c] = "closed"]
      /\ fd' = fd /\ listenSocket' = listenSocket /\ runner' = runner /\ stopper' = stopper
  BY DEF Close, Goto
<1>2. SocketInv /\ ListenInv /\ ServerTypeOK
  BY DEF ServerInv
<1>3. at'[c] = "closed" /\ \A d \in Conn \ {c} : at'[d] = at[d]
  BY <1>1 DEF ConnTypeOK
<1>4. at'[c] \in Resting /\ \A d \in Conn \ {c} : at'[d] \notin Resting <=> at[d] \notin Resting
  BY <1>3 DEF Resting
<1>5. Mine(c) \/ fd[c] \notin DOMAIN open
  BY <1>1, <1>2 DEF SocketInv, Resting
<1>6. /\ DOMAIN open' = DOMAIN open \ {fd[c]}
      /\ \A k \in DOMAIN open' : open'[k] = open[k]
      /\ open' \in [DOMAIN open' -> Conn \cup {"listen"}]
  <2>1. PICK n : n = fd[c]
    OBVIOUS
  <2>2. /\ DOMAIN open' = DOMAIN open \ {n}
        /\ open' = [k \in DOMAIN open \ {n} |-> open[k]]
    BY <1>1, <2>1 DEF Closed
  <2>3. open \in [DOMAIN open -> Conn \cup {"listen"}]
    BY <1>2 DEF SocketInv
  <2> QED
    BY <2>1, <2>2, <2>3
<1>7. \A d \in Conn \ {c} : Mine(d) => fd[d] # fd[c]
  BY <1>5 DEF Mine
<1>8. \A d \in Conn \ {c} : Mine(d)' <=> Mine(d)
  BY <1>1, <1>6, <1>7 DEF Mine
<1>9. OwnSocketStep
  BY <1>1, <1>3, <1>8 DEF OwnSocketStep
<1>10. \A d \in Conn : at'[d] \notin Resting => Mine(d)' \/ (~ Accepting' /\ fd'[d] \notin DOMAIN open')
  <2> TAKE d \in Conn
  <2>1. CASE d = c
    BY <2>1, <1>4
  <2>2. CASE d # c
    <3>1. at[d] \notin Resting => Mine(d) \/ (~ Accepting /\ fd[d] \notin DOMAIN open)
      BY <1>2 DEF SocketInv
    <3>2. Accepting' <=> Accepting
      BY <1>1 DEF Accepting
    <3> QED
      BY <2>2, <1>1, <1>4, <1>6, <1>8, <3>1, <3>2
  <2> QED
    BY <2>1, <2>2
<1>11. \A n \in DOMAIN open' : open'[n] \in Conn => at'[open'[n]] \notin Resting /\ fd'[open'[n]] = n
  <2> TAKE n \in DOMAIN open'
  <2>1. SUFFICES ASSUME open[n] \in Conn PROVE at'[open[n]] \notin Resting /\ fd[open[n]] = n
    BY <1>1, <1>6
  <2>2. n \in DOMAIN open /\ n # fd[c] /\ at[open[n]] \notin Resting /\ fd[open[n]] = n
    BY <1>2, <1>6, <2>1 DEF SocketInv
  <2> QED
    BY <1>4, <2>1, <2>2
<1>12. SocketInv'
  BY <1>2, <1>6, <1>10, <1>11 DEF SocketInv
<1>13. ListenInv'
  <2>1. Accepting /\ stopper \in {"before", "test", "close"} => 0 \in DOMAIN open'
    <3>1. open[0] = "listen" => fd[c] # 0 \/ 0 \notin DOMAIN open
      BY <1>5, ConnAssumption DEF Mine
    <3> QED
      BY <1>2, <1>6, <3>1 DEF ListenInv
  <2> QED
    BY <1>1, <1>2, <1>6, <2>1 DEF ListenInv, Accepting
<1> QED
  BY <1>1, <1>2, <1>9, <1>12, <1>13 DEF ServerInv, ServerTypeOK

\* accept gives a connection a descriptor that nobody has.
LEMMA AcceptKeeps ==
  ASSUME ServerInv, ConnTypeOK, NEW c \in Conn, Accept(c)
  PROVE  ServerInv' /\ OwnSocketStep /\ fd' \in [Conn -> Int]
<1>1. PICK n : n = LowestFree
  OBVIOUS
<1>2. /\ runner = "accept" /\ runner' = "loop" /\ at[c] = "backlog"
      /\ at' = [at EXCEPT ![c] = "headers"] /\ fd' = [fd EXCEPT ![c] = n]
      /\ open' = [k \in DOMAIN open \cup {n} |-> IF k = n THEN c ELSE open[k]]
      /\ listenSocket' = listenSocket /\ stopper' = stopper
  BY <1>1 DEF Accept
<1>3. SocketInv /\ ListenInv /\ ServerTypeOK
  BY DEF ServerInv
<1>4. n \in Nat /\ n \notin DOMAIN open
  BY <1>1, <1>3, LowestFreeIsFree
<1>5. at'[c] = "headers" /\ \A d \in Conn \ {c} : at'[d] = at[d]
  BY <1>2 DEF ConnTypeOK
<1>6. at'[c] \notin Resting /\ at[c] \in Resting /\ \A d \in Conn \ {c} : at'[d] \notin Resting <=> at[d] \notin Resting
  BY <1>2, <1>5 DEF Resting
<1>7. fd'[c] = n /\ fd' \in [Conn -> Int] /\ \A d \in Conn \ {c} : fd'[d] = fd[d]
  BY <1>2, <1>4 DEF ConnTypeOK
<1>8. /\ DOMAIN open' = DOMAIN open \cup {n} /\ open'[n] = c
      /\ \A k \in DOMAIN open : open'[k] = open[k]
      /\ open' \in [DOMAIN open' -> Conn \cup {"listen"}]
  BY <1>2, <1>3, <1>4 DEF SocketInv
<1>9. Mine(c)'
  BY <1>7, <1>8 DEF Mine
<1>10. \A d \in Conn \ {c} : Mine(d) => Mine(d)'
  BY <1>7, <1>8 DEF Mine
<1>11. OwnSocketStep
  BY <1>2, <1>9, <1>10 DEF OwnSocketStep
<1>12. \A d \in Conn : at'[d] \notin Resting => Mine(d)'
  BY <1>2, <1>3, <1>6, <1>9, <1>10 DEF SocketInv, Accepting
<1>13. \A k \in DOMAIN open' : open'[k] \in Conn => at'[open'[k]] \notin Resting /\ fd'[open'[k]] = k
  <2> TAKE k \in DOMAIN open'
  <2>1. CASE k = n
    BY <2>1, <1>6, <1>7, <1>8
  <2>2. CASE k # n
    <3>1. k \in DOMAIN open /\ open'[k] = open[k]
      BY <2>2, <1>8
    <3>2. open[k] \in Conn => at[open[k]] \notin Resting /\ fd[open[k]] = k
      BY <1>3, <3>1 DEF SocketInv
    <3>3. open[k] \in Conn => open[k] # c
      BY <1>6, <3>2
    <3> QED
      BY <1>6, <1>7, <3>1, <3>2, <3>3
  <2> QED
    BY <2>1, <2>2
<1>14. \A k \in DOMAIN open' : open'[k] = "listen" => k = 0
  BY <1>3, <1>8, ConnAssumption DEF SocketInv
<1>15. SocketInv'
  BY <1>3, <1>4, <1>8, <1>12, <1>13, <1>14 DEF SocketInv
<1>16. ListenInv'
  BY <1>2, <1>3, <1>4, <1>8 DEF ListenInv, Accepting
<1> QED
  BY <1>2, <1>3, <1>7, <1>11, <1>15, <1>16 DEF ServerInv, ServerTypeOK

\* run() and stop(), besides accept.
LEMMA ServerStepKeeps ==
  ASSUME ServerInv, UNCHANGED connVars,
         \/ Loop \/ AcceptFails \/ RunFlag \/ RunTest \/ RunClose \/ RunForget
         \/ StopStep \/ DestroyBatcher \/ Exit
  PROVE  ServerInv' /\ OwnSocketStep
<1>1. SocketInv /\ ListenInv /\ ServerTypeOK
  BY DEF ServerInv
<1>2. fd' = fd /\ at' = at /\ \A c \in Conn : at'[c] \notin Resting <=> at[c] \notin Resting
  BY DEF connVars, Resting
<1>3. CASE RunClose
  <2>1. /\ runner = "close" /\ runner' = "forget"
        /\ stopper' = stopper /\ listenSocket' = listenSocket
        /\ ~ Accepting' /\ listenSocket \in {0, -1}
    BY <1>1, <1>3 DEF RunClose, Accepting, ServerTypeOK
  <2>2. open[0] = "listen" \/ stopper \in {"forget", "returned"}
    BY <1>1, <2>1 DEF ListenInv, Accepting, ServerTypeOK
  <2>3. CASE open' = Closed(0)
    <3>1. SocketInv' /\ OwnSocketStep /\ 0 \notin DOMAIN open'
      BY <1>1, <1>2, <2>1, <2>2, <2>3, ListenClosed
    <3> QED
      BY <1>1, <2>1, <3>1 DEF ServerInv, ServerTypeOK, ListenInv, Accepting
  <2>4. CASE listenSocket = -1 /\ open' = open
    <3>1. SocketInv' /\ OwnSocketStep
      BY <1>1, <1>2, <2>1, <2>4, SocketsSame
    <3>2. stopper \in {"forget", "returned"}
      BY <1>1, <2>1, <2>4 DEF ListenInv, Accepting, ServerTypeOK
    <3> QED
      BY <1>1, <2>1, <2>4, <3>1, <3>2 DEF ServerInv, ServerTypeOK, ListenInv, Accepting
  <2> QED
    BY <1>1, <1>3, <2>1, <2>3, <2>4, CloseNothing DEF RunClose, CloseListening
<1>4. CASE StopClose
  <2>1. /\ stopper = "close" /\ stopper' = "forget"
        /\ runner' = runner /\ listenSocket' = listenSocket
        /\ listenSocket \in {0, -1}
    BY <1>1, <1>4 DEF StopClose, ServerTypeOK
  <2>2. open[0] = "listen" \/ 0 \notin DOMAIN open
    BY <1>1, <2>1 DEF ListenInv
  <2>3. CASE open' = Closed(0)
    <3>1. SocketInv' /\ OwnSocketStep
      BY <1>1, <1>2, <2>1, <2>2, <2>3, ListenClosed DEF Accepting
    <3> QED
      BY <1>1, <2>1, <3>1 DEF ServerInv, ServerTypeOK, ListenInv, Accepting
  <2>4. CASE open' = open
    <3>1. SocketInv' /\ OwnSocketStep
      BY <1>1, <1>2, <2>1, <2>4, SocketsSame DEF Accepting
    <3> QED
      BY <1>1, <2>1, <3>1 DEF ServerInv, ServerTypeOK, ListenInv, Accepting
  <2> QED
    BY <1>1, <1>4, <2>1, <2>3, <2>4, CloseNothing DEF StopClose, CloseListening
<1>5. CASE Loop \/ AcceptFails \/ RunFlag
  <2>1. /\ runner \in {"loop", "accept", "flag"} /\ runner' \in {"loop", "accept", "flag", "test"}
        /\ open' = open /\ listenSocket' = listenSocket /\ stopper' = stopper
    BY <1>5 DEF Loop, AcceptFails, RunFlag
  <2>2. SocketInv' /\ OwnSocketStep
    BY <1>1, <1>2, <2>1, SocketsSame DEF Accepting
  <2> QED
    BY <1>1, <2>1, <2>2 DEF ServerInv, ServerTypeOK, ListenInv, Accepting
<1>11. CASE RunTest
  <2>1. /\ runner = "test" /\ runner' = Afterwards
        /\ open' = open /\ listenSocket' = listenSocket /\ stopper' = stopper
    BY <1>11 DEF RunTest
  <2>2. stopper = "returned" => listenSocket = -1
    BY <1>1 DEF ListenInv
  <2>3. SocketInv' /\ OwnSocketStep
    BY <1>1, <1>2, <2>1, <2>2, SocketsSame DEF Accepting, Afterwards
  <2> QED
    BY <1>1, <2>1, <2>3 DEF ServerInv, ServerTypeOK, ListenInv, Accepting, Afterwards
<1>12. CASE StopTest
  <2>1. /\ stopper = "test" /\ stopper' = Afterwards
        /\ open' = open /\ listenSocket' = listenSocket /\ runner' = runner
    BY <1>12 DEF StopTest
  <2>2. SocketInv' /\ OwnSocketStep
    BY <1>1, <1>2, <2>1, SocketsSame DEF Accepting
  <2> QED
    BY <1>1, <2>1, <2>2 DEF ServerInv, ServerTypeOK, ListenInv, Accepting, Afterwards
<1>6. CASE RunForget
  <2>1. /\ runner = "forget" /\ runner' = "returned" /\ listenSocket' = -1
        /\ open' = open /\ stopper' = stopper
    BY <1>6 DEF RunForget
  <2>2. SocketInv' /\ OwnSocketStep
    BY <1>1, <1>2, <2>1, SocketsSame DEF Accepting
  <2> QED
    BY <1>1, <2>1, <2>2 DEF ServerInv, ServerTypeOK, ListenInv, Accepting
<1>7. CASE StopForget
  <2>1. /\ stopper = "forget" /\ stopper' = "returned" /\ listenSocket' = -1
        /\ open' = open /\ runner' = runner
    BY <1>7 DEF StopForget
  <2>2. SocketInv' /\ OwnSocketStep
    BY <1>1, <1>2, <2>1, SocketsSame DEF Accepting
  <2> QED
    BY <1>1, <2>1, <2>2 DEF ServerInv, ServerTypeOK, ListenInv, Accepting
<1>8. CASE StopFlag
  <2>1. /\ stopper = "before" /\ stopper' = "test" /\ listenSocket' = listenSocket
        /\ open' = open /\ runner' = runner
    BY <1>8 DEF StopFlag
  <2>2. SocketInv' /\ OwnSocketStep
    BY <1>1, <1>2, <2>1, SocketsSame DEF Accepting
  <2> QED
    BY <1>1, <2>1, <2>2 DEF ServerInv, ServerTypeOK, ListenInv, Accepting
<1>9. CASE DestroyBatcher
  <2>1. /\ runner = "returned" /\ runner' = "exit" /\ listenSocket' = listenSocket
        /\ open' = open /\ stopper' = stopper
    BY <1>9 DEF DestroyBatcher
  <2>2. SocketInv' /\ OwnSocketStep
    BY <1>1, <1>2, <2>1, SocketsSame DEF Accepting
  <2> QED
    BY <1>1, <2>1, <2>2 DEF ServerInv, ServerTypeOK, ListenInv, Accepting
<1>10. CASE Exit
  <2>1. /\ runner' = runner /\ listenSocket' = listenSocket
        /\ open' = open /\ stopper' = stopper
    BY <1>10 DEF Exit, serverVars
  <2>2. SocketInv' /\ OwnSocketStep
    BY <1>1, <1>2, <2>1, SocketsSame DEF Accepting
  <2> QED
    BY <1>1, <2>1, <2>2 DEF ServerInv, ServerTypeOK, ListenInv, Accepting
<1> QED
  BY <1>3, <1>4, <1>5, <1>6, <1>7, <1>8, <1>9, <1>10, <1>11, <1>12 DEF StopStep

\* A step that leaves descriptors and the listening socket alone.
LEMMA StayOpen ==
  ASSUME ServerInv, UNCHANGED <<serverVars, fd>>,
         \A c \in Conn : at'[c] \notin Resting <=> at[c] \notin Resting
  PROVE  ServerInv' /\ OwnSocketStep
<1>1. SocketInv /\ ListenInv /\ ServerTypeOK
  BY DEF ServerInv
<1>2. UNCHANGED <<open, running, listenSocket, runner, stopper, fd>>
  BY DEF serverVars
<1>3. SocketInv' /\ OwnSocketStep
  BY <1>1, <1>2, SocketsSame DEF Accepting
<1>4. ListenInv' /\ ServerTypeOK'
  BY <1>1, <1>2 DEF ListenInv, ServerTypeOK, Accepting
<1> QED
  BY <1>3, <1>4 DEF ServerInv

--------------------------------------------------------------------------------

(***************************************************************************)
(* What a step of one connection leaves to show of the others.             *)
(***************************************************************************)
LEMMA OthersKept ==
  ASSUME message' = message, \A d \in Conn : ConnInv(d), NEW c \in Conn, ConnInv(c)',
         \A d \in Conn \ {c} : /\ at'[d] = at[d] /\ buffered'[d] = buffered[d]
                               /\ status'[d] = status[d] /\ answer'[d] = answer[d]
  PROVE  \A d \in Conn : ConnInv(d)'
<1>1. ASSUME NEW d \in Conn \ {c} PROVE ConnInv(d)'
  BY <1>1, ConnSame
<1> QED
  BY <1>1

\* A queue that the step does not touch.
LEMMA WaitingSame ==
  ASSUME WaitingInv, UNCHANGED <<waiting, answer>>, NEW c \in Conn,
         at[c] = "future" => answer[c] # "pending",
         \A d \in Conn \ {c} : at'[d] = at[d]
  PROVE  WaitingInv'
<1>1. answer[c] # "pending"
  BY DEF WaitingInv
<1> QED
  BY <1>1 DEF WaitingInv

\* A handler that moved on without having received or replied.
LEMMA MoveKeeps ==
  ASSUME TrafficInv, NEW c \in Conn, NEW place \in Place, at[c] # "future",
         at' = [at EXCEPT ![c] = place], ConnInv(c)', fd' \in [Conn -> Int],
         UNCHANGED <<message, buffered, status, stats, waiting, answer>>
  PROVE  TrafficInv'
<1>1. ConnTypeOK /\ WaitingInv /\ (\A d \in Conn : ConnInv(d)) /\ BuffersBounded /\ EachInferenceCounted
  BY DEF TrafficInv
<1>2. \A d \in Conn \ {c} : at'[d] = at[d]
  BY <1>1 DEF ConnTypeOK
<1>3. ConnTypeOK'
  BY <1>1 DEF ConnTypeOK
<1>4. WaitingInv'
  BY <1>1, <1>2, WaitingSame
<1>5. \A d \in Conn : ConnInv(d)'
  BY <1>1, <1>2, OthersKept
<1>6. BuffersBounded' /\ EachInferenceCounted'
  BY <1>1, BuffersSame, CountSame
<1> QED
  BY <1>3, <1>4, <1>5, <1>6 DEF TrafficInv

\* A handler that replied: its queue entry is gone, or it never had one.
LEMMA ReplyKeeps ==
  ASSUME TrafficInv, NEW c \in Conn, NEW code \in Code \ {0}, status[c] = 0, Reply(c, code),
         CountedReply(c, code),
         UNCHANGED <<message, fd>>, Judged(c)',
         BuffersBounded', buffered' \in [Conn -> Nat], WaitingInv', waiting' \in Seq(Conn),
         answer' \in [Conn -> {"none", "refused", "pending", "logits", "error"}],
         \A d \in Conn \ {c} : buffered'[d] = buffered[d] /\ answer'[d] = answer[d]
  PROVE  TrafficInv'
<1>1. ConnTypeOK /\ (\A d \in Conn : ConnInv(d)) /\ EachInferenceCounted
  BY DEF TrafficInv
<1>2. at' = [at EXCEPT ![c] = "reply"] /\ status' = [status EXCEPT ![c] = code]
  BY DEF Reply, Goto
<1>3. at'[c] = "reply" /\ \A d \in Conn \ {c} : at'[d] = at[d] /\ status'[d] = status[d]
  BY <1>1, <1>2 DEF ConnTypeOK
<1>4. EachInferenceCounted' /\ stats' \in [requests : Nat, errors : Nat]
  BY <1>1, <1>2, ReplyCounted
<1>5. ConnTypeOK'
  BY <1>1, <1>2, <1>4 DEF ConnTypeOK, Place, Code
<1>6. ConnInv(c)'
  BY <1>3 DEF ConnInv
<1>7. \A d \in Conn : ConnInv(d)'
  BY <1>1, <1>3, <1>6, OthersKept
<1> QED
  BY <1>4, <1>5, <1>7 DEF TrafficInv

--------------------------------------------------------------------------------

(***************************************************************************)
(* Each step keeps what is known of connections.                           *)
(***************************************************************************)
\* Steps that touch no connection and not the queue.
LEMMA QuietKeeps ==
  ASSUME TrafficInv, UNCHANGED <<message, at, buffered, status, fd, stats, waiting, answer>>
  PROVE  TrafficInv'
<1>1. ConnTypeOK /\ WaitingInv /\ (\A d \in Conn : ConnInv(d)) /\ BuffersBounded /\ EachInferenceCounted
  BY DEF TrafficInv
<1>2. ConnTypeOK' /\ WaitingInv'
  BY <1>1 DEF ConnTypeOK, WaitingInv
<1>3. \A d \in Conn : ConnInv(d)'
  BY <1>1, ConnSame
<1>4. BuffersBounded' /\ EachInferenceCounted'
  BY <1>1, BuffersSame, CountSame
<1> QED
  BY <1>2, <1>3, <1>4 DEF TrafficInv

\* What recv returns is at most a chunk.
LEMMA ReceivedFacts ==
  ASSUME ConnTypeOK, NEW c \in Conn
  PROVE  Received(c) \subseteq 0 .. ChunkBytes
<1>1. Total(c) - buffered[c] \in Int
  BY DEF ConnTypeOK, Message, Total
<1>2. ChunkBytes \in Nat
  BY BoundsAssumption
<1> QED
  BY <1>1, <1>2 DEF Received, Low

\* A connection is accepted.
LEMMA AcceptTraffic ==
  ASSUME TrafficInv, NEW c \in Conn, Accept(c), fd' \in [Conn -> Int]
  PROVE  TrafficInv'
<1>1. /\ at[c] = "backlog" /\ at' = [at EXCEPT ![c] = "headers"]
      /\ UNCHANGED <<message, buffered, status, stats, waiting, answer>>
  BY DEF Accept, batcherVars
<1>2. ConnTypeOK /\ ConnInv(c)
  BY DEF TrafficInv
<1>3. at'[c] = "headers"
  BY <1>1, <1>2 DEF ConnTypeOK
<1>4. ConnInv(c)'
  BY <1>1, <1>2, <1>3 DEF ConnInv, HeadComplete
<1> QED
  BY <1>1, <1>4, MoveKeeps DEF Place

\* The headers come in.
LEMMA HeadersTraffic ==
  ASSUME TrafficInv, NEW c \in Conn, RecvHeaders(c)
  PROVE  TrafficInv'
<1>1. PICK n \in Received(c) :
        /\ buffered' = [buffered EXCEPT ![c] = @ + n]
        /\ \/ n = 0 /\ Goto(c, "close") /\ UNCHANGED status
           \/ n # 0 /\ TooLarge(c, buffered'[c]) /\ Reply(c, 431)
           \/ /\ n # 0 /\ ~ TooLarge(c, buffered'[c])
              /\ ~ HeadComplete(c, buffered'[c])
              /\ Goto(c, "headers") /\ UNCHANGED status
           \/ /\ n # 0 /\ ~ TooLarge(c, buffered'[c])
              /\ HeadComplete(c, buffered'[c])
              /\ IF LengthStatus(c) = 0 THEN Goto(c, "body") /\ UNCHANGED status
                 ELSE Reply(c, LengthStatus(c))
  BY DEF RecvHeaders
<1>2. at[c] = "headers" /\ UNCHANGED <<message, fd, stats, waiting, answer>>
  BY DEF RecvHeaders, batcherVars
<1>3. ConnTypeOK /\ WaitingInv /\ (\A d \in Conn : ConnInv(d)) /\ BuffersBounded /\ EachInferenceCounted
  BY DEF TrafficInv
<1>4. /\ status[c] = 0 /\ answer[c] = "none"
      /\ ~ HeadComplete(c, buffered[c]) /\ buffered[c] <= MaxHeaderBytes
  BY <1>2, <1>3 DEF ConnInv
<1>5. n \in 0 .. ChunkBytes /\ ChunkBytes \in Nat /\ MaxHeaderBytes \in Nat /\ MaxBodyBytes \in Nat
  BY <1>3, ReceivedFacts, BoundsAssumption
<1>6. buffered[c] \in Nat /\ buffered'[c] = buffered[c] + n /\ buffered' \in [Conn -> Nat]
  BY <1>1, <1>3, <1>5 DEF ConnTypeOK
<1>7. \A d \in Conn \ {c} : buffered'[d] = buffered[d]
  BY <1>1, <1>3 DEF ConnTypeOK
<1>8. BuffersBounded'
  <2>1. message[c].head \in Nat
    BY <1>3 DEF ConnTypeOK, Message
  <2>2. IF HeadComplete(c, buffered'[c])
        THEN /\ buffered'[c] - message[c].head < MaxBodyBytes + ChunkBytes
             /\ message[c].head <= MaxHeaderBytes + ChunkBytes
        ELSE buffered'[c] <= MaxHeaderBytes + ChunkBytes
    BY <1>4, <1>5, <1>6, <2>1 DEF HeadComplete
  <2>3. \A d \in Conn \ {c} :
          IF HeadComplete(d, buffered'[d])
          THEN /\ buffered'[d] - message[d].head < MaxBodyBytes + ChunkBytes
               /\ message[d].head <= MaxHeaderBytes + ChunkBytes
          ELSE buffered'[d] <= MaxHeaderBytes + ChunkBytes
    BY <1>3, <1>7 DEF BuffersBounded, BodyBytes
  <2> QED
    BY <1>2, <2>2, <2>3 DEF BuffersBounded, BodyBytes, HeadComplete
<1>9. WaitingInv' \/ ~ (\A d \in Conn \ {c} : at'[d] = at[d])
  BY <1>2, <1>3, WaitingSame
<1>10. LengthStatus(c)' = LengthStatus(c) /\ LengthStatus(c) \in {0, 400, 413}
  BY <1>2, <1>3, MessageSame, LengthFacts
<1>11. HeadComplete(c, buffered[c])' <=> HeadComplete(c, buffered'[c])
  BY <1>2 DEF HeadComplete
<1>12. ASSUME NEW place \in {"close", "headers", "body"}, Goto(c, place), UNCHANGED status,
              place = "headers" => ~ HeadComplete(c, buffered'[c]) /\ buffered'[c] <= MaxHeaderBytes,
              place = "body" => HeadComplete(c, buffered'[c]) /\ LengthStatus(c) = 0
       PROVE  TrafficInv'
  <2>1. at'[c] = place /\ at' \in [Conn -> Place] /\ \A d \in Conn \ {c} : at'[d] = at[d]
    BY <1>3, <1>12 DEF ConnTypeOK, Goto, Place
  <2>2. ConnInv(c)'
    BY <1>2, <1>4, <1>10, <1>11, <1>12, <2>1 DEF ConnInv
  <2>3. \A d \in Conn : ConnInv(d)'
    BY <1>2, <1>3, <1>7, <1>12, <2>1, <2>2, OthersKept
  <2>4. ConnTypeOK'
    BY <1>2, <1>3, <1>6, <1>12, <2>1 DEF ConnTypeOK
  <2>5. EachInferenceCounted'
    BY <1>2, <1>3, <1>12, CountSame
  <2> QED
    BY <1>8, <1>9, <2>1, <2>3, <2>4, <2>5 DEF TrafficInv
<1>13. ASSUME NEW code \in {400, 413, 431}, Reply(c, code), Judged(c)',
              code = 431 \/ LengthStatus(c) # 0
       PROVE  TrafficInv'
  <2>1. \A d \in Conn \ {c} : at'[d] = at[d]
    BY <1>3, <1>13 DEF ConnTypeOK, Reply, Goto
  <2>2. WaitingInv'
    BY <1>9, <2>1
  <2>3. /\ waiting' \in Seq(Conn)
        /\ answer' \in [Conn -> {"none", "refused", "pending", "logits", "error"}]
        /\ code \in Code \ {0}
    BY <1>2, <1>3 DEF ConnTypeOK, Code
  <2>4. CountedReply(c, code)
    BY <1>2, <1>13 DEF CountedReply
  <2> QED
    BY <1>2, <1>4, <1>6, <1>7, <1>8, <1>13, <2>2, <2>3, <2>4, ReplyKeeps
<1>14. CASE n = 0 /\ Goto(c, "close") /\ UNCHANGED status
  BY <1>12, <1>14
<1>15. CASE n # 0 /\ TooLarge(c, buffered'[c]) /\ Reply(c, 431)
  <2>1. status'[c] = 431
    BY <1>3, <1>15 DEF ConnTypeOK, Reply
  <2>2. Judged(c)'
    BY <1>2, <1>4, <1>11, <1>15, <2>1 DEF Judged, TooLarge
  <2> QED
    BY <1>13, <1>15, <2>2
<1>16. CASE /\ ~ TooLarge(c, buffered'[c]) /\ ~ HeadComplete(c, buffered'[c])
            /\ Goto(c, "headers") /\ UNCHANGED status
  <2>1. buffered'[c] <= MaxHeaderBytes
    BY <1>5, <1>6, <1>16 DEF TooLarge
  <2> QED
    BY <1>12, <1>16, <2>1
<1>17. CASE HeadComplete(c, buffered'[c]) /\ LengthStatus(c) = 0 /\ Goto(c, "body") /\ UNCHANGED status
  BY <1>12, <1>17
<1>18. CASE HeadComplete(c, buffered'[c]) /\ LengthStatus(c) # 0 /\ Reply(c, LengthStatus(c))
  <2>1. status'[c] = LengthStatus(c)
    BY <1>3, <1>18 DEF ConnTypeOK, Reply
  <2>2. Judged(c)'
    BY <1>2, <1>4, <1>10, <1>11, <1>18, <2>1 DEF Judged
  <2> QED
    BY <1>10, <1>13, <1>18, <2>2
<1> QED
  BY <1>1, <1>14, <1>15, <1>16, <1>17, <1>18

\* The body comes in.
LEMMA BodyTraffic ==
  ASSUME TrafficInv, NEW c \in Conn, RecvBody(c)
  PROVE  TrafficInv'
<1>1. PICK n \in Received(c) \ {0} : buffered' = [buffered EXCEPT ![c] = @ + n]
  BY DEF RecvBody
<1>2. /\ at[c] = "body" /\ BodyBytes(c) < ContentLength(c)
      /\ UNCHANGED <<message, at, status, fd, stats, waiting, answer>>
  BY DEF RecvBody, batcherVars
<1>3. ConnTypeOK /\ WaitingInv /\ (\A d \in Conn : ConnInv(d)) /\ BuffersBounded /\ EachInferenceCounted
  BY DEF TrafficInv
<1>4. /\ status[c] = 0 /\ answer[c] = "none"
      /\ HeadComplete(c, buffered[c]) /\ LengthStatus(c) = 0
  BY <1>2, <1>3 DEF ConnInv
<1>5. n \in 0 .. ChunkBytes /\ ChunkBytes \in Nat /\ MaxBodyBytes \in Nat
  BY <1>3, ReceivedFacts, BoundsAssumption
<1>6. buffered[c] \in Nat /\ buffered'[c] = buffered[c] + n /\ buffered' \in [Conn -> Nat]
  BY <1>1, <1>3, <1>5 DEF ConnTypeOK
<1>7. \A d \in Conn \ {c} : buffered'[d] = buffered[d]
  BY <1>1, <1>3 DEF ConnTypeOK
<1>8. message[c].head \in Nat
  BY <1>3 DEF ConnTypeOK, Message
<1>9. ContentLength(c) \in 0 .. MaxBodyBytes
  BY <1>3, <1>4, LengthFacts
<1>10. HeadComplete(c, buffered'[c])
  BY <1>4, <1>5, <1>6, <1>8 DEF HeadComplete
<1>11. BuffersBounded'
  <2>1. PICK k : k = ContentLength(c)
    OBVIOUS
  <2>2. /\ buffered'[c] - message[c].head < MaxBodyBytes + ChunkBytes
        /\ message[c].head <= MaxHeaderBytes + ChunkBytes
    <3>1. message[c].head <= MaxHeaderBytes + ChunkBytes
      BY <1>3, <1>4 DEF BuffersBounded
    <3>2. buffered[c] - message[c].head < k /\ k \in 0 .. MaxBodyBytes
      BY <1>2, <1>9, <2>1 DEF BodyBytes
    <3> QED
      BY <1>5, <1>6, <1>8, <3>1, <3>2
  <2>3. \A d \in Conn \ {c} :
          IF HeadComplete(d, buffered'[d])
          THEN /\ buffered'[d] - message[d].head < MaxBodyBytes + ChunkBytes
               /\ message[d].head <= MaxHeaderBytes + ChunkBytes
          ELSE buffered'[d] <= MaxHeaderBytes + ChunkBytes
    BY <1>3, <1>7 DEF BuffersBounded, BodyBytes
  <2> QED
    BY <1>2, <1>10, <2>2, <2>3 DEF BuffersBounded, BodyBytes, HeadComplete
<1>12. ConnInv(c)'
  <2>1. LengthStatus(c)' = LengthStatus(c)
    BY <1>2, MessageSame
  <2>2. HeadComplete(c, buffered[c])'
    BY <1>2, <1>10 DEF HeadComplete
  <2> QED
    BY <1>2, <1>4, <2>1, <2>2 DEF ConnInv
<1>13. \A d \in Conn : ConnInv(d)'
  BY <1>2, <1>3, <1>7, <1>12, OthersKept
<1>14. ConnTypeOK' /\ WaitingInv'
  BY <1>2, <1>3, <1>6 DEF ConnTypeOK, WaitingInv
<1>15. EachInferenceCounted'
  BY <1>2, <1>3, CountSame
<1> QED
  BY <1>11, <1>13, <1>14, <1>15 DEF TrafficInv

\* A reply that needs no inference, or that was not taken by the batcher.
LEMMA RejectedKeeps ==
  ASSUME TrafficInv, NEW c \in Conn, NEW code \in {200, 400, 404}, Reply(c, code), at[c] = "body",
         \/ message[c].route = "infer" /\ code = 400 /\ ~ Acceptable(c) /\ CountError
         \/ /\ message[c].route # "infer" /\ UNCHANGED stats
            /\ code = IF message[c].route \in {"health", "metrics"} THEN 200 ELSE 404,
         UNCHANGED <<message, buffered, fd, waiting, answer>>
  PROVE  TrafficInv'
<1>1. ConnTypeOK /\ WaitingInv /\ (\A d \in Conn : ConnInv(d)) /\ BuffersBounded
  BY DEF TrafficInv
<1>2. /\ status[c] = 0 /\ answer[c] = "none"
      /\ HeadComplete(c, buffered[c]) /\ LengthStatus(c) = 0
  BY <1>1 DEF ConnInv
<1>3. status'[c] = code /\ \A d \in Conn \ {c} : at'[d] = at[d]
  BY <1>1 DEF ConnTypeOK, Reply, Goto
<1>4. /\ LengthStatus(c)' = LengthStatus(c)
      /\ HeadComplete(c, buffered[c])' <=> HeadComplete(c, buffered[c])
      /\ Acceptable(c)' <=> Acceptable(c)
  <2>1. LengthStatus(c)' = LengthStatus(c) /\ ContentLength(c)' = ContentLength(c)
    BY MessageSame
  <2> QED
    BY <2>1 DEF HeadComplete, Acceptable, Body, BodyBytes
<1>5. Judged(c)'
  BY <1>2, <1>3, <1>4 DEF Judged
<1>6. WaitingInv'
  BY <1>1, <1>3, WaitingSame
<1>7. BuffersBounded'
  BY <1>1, BuffersSame
<1>8. /\ waiting' \in Seq(Conn) /\ buffered' \in [Conn -> Nat] /\ code \in Code \ {0}
      /\ answer' \in [Conn -> {"none", "refused", "pending", "logits", "error"}]
  BY <1>1 DEF ConnTypeOK, Code
<1>9. CountedReply(c, code)
  BY <1>2 DEF CountedReply, CountError
<1> QED
  BY <1>2, <1>5, <1>6, <1>7, <1>8, <1>9, ReplyKeeps

\* The request goes to the batcher, or is refused by it.
LEMMA EnqueueTraffic ==
  ASSUME TrafficInv, NEW c \in Conn, InferEnqueue(c)
  PROVE  TrafficInv'
<1>1. /\ at[c] = "body" /\ message[c].route = "infer" /\ Acceptable(c)
      /\ UNCHANGED <<message, buffered, fd>>
  BY DEF InferEnqueue, BodyOver
<1>2. ConnTypeOK /\ WaitingInv /\ (\A d \in Conn : ConnInv(d)) /\ BuffersBounded /\ EachInferenceCounted
  BY DEF TrafficInv
<1>3. /\ status[c] = 0 /\ answer[c] = "none"
      /\ HeadComplete(c, buffered[c]) /\ LengthStatus(c) = 0
  BY <1>1, <1>2 DEF ConnInv
<1>4. /\ LengthStatus(c)' = LengthStatus(c)
      /\ HeadComplete(c, buffered[c])' <=> HeadComplete(c, buffered[c])
      /\ Acceptable(c)' <=> Acceptable(c)
  <2>1. LengthStatus(c)' = LengthStatus(c) /\ ContentLength(c)' = ContentLength(c)
    BY <1>1, MessageSame
  <2> QED
    BY <1>1, <2>1 DEF HeadComplete, Acceptable, Body, BodyBytes
<1>5. BuffersBounded'
  BY <1>1, <1>2, BuffersSame
<1>6. CASE Batcher!Accept(c) /\ Goto(c, "future") /\ UNCHANGED <<status, stats>>
  <2>1. /\ answer' = [answer EXCEPT ![c] = "pending"] /\ waiting' = Append(waiting, c)
        /\ at' = [at EXCEPT ![c] = "future"]
    BY <1>6 DEF Batcher!Accept, Goto
  <2>2. /\ at'[c] = "future" /\ answer'[c] = "pending"
        /\ \A d \in Conn \ {c} : at'[d] = at[d] /\ answer'[d] = answer[d]
    BY <1>2, <2>1 DEF ConnTypeOK
  <2>3. ConnTypeOK'
    BY <1>1, <1>2, <1>6, <2>1 DEF ConnTypeOK, Place
  <2>4. ConnInv(c)'
    BY <1>1, <1>3, <1>4, <1>6, <2>2 DEF ConnInv
  <2>5. \A d \in Conn : ConnInv(d)'
    BY <1>1, <1>2, <1>6, <2>2, <2>4, OthersKept
  <2>6. WaitingInv'
    <3>1. waiting \in Seq(Conn) /\ \A i \in DOMAIN waiting : waiting[i] \in Conn /\ waiting[i] # c
      BY <1>2, <1>3 DEF ConnTypeOK, WaitingInv
    <3>2. /\ DOMAIN waiting' = DOMAIN waiting \cup {Len(waiting) + 1}
          /\ Len(waiting) + 1 \notin DOMAIN waiting
          /\ \A i \in DOMAIN waiting : waiting'[i] = waiting[i]
          /\ waiting'[Len(waiting) + 1] = c
      BY <2>1, <3>1
    <3>3. IsInjective(waiting')
      BY <1>2, <3>1, <3>2 DEF WaitingInv, IsInjective
    <3>4. \A i \in DOMAIN waiting' : answer'[waiting'[i]] = "pending"
      BY <1>2, <2>2, <3>1, <3>2 DEF WaitingInv
    <3>5. \A d \in Conn : answer'[d] = "pending" => at'[d] = "future"
      BY <1>2, <2>2 DEF WaitingInv
    <3> QED
      BY <3>3, <3>4, <3>5 DEF WaitingInv, IsInjective
  <2>7. EachInferenceCounted'
    BY <1>1, <1>2, <1>6, CountSame
  <2> QED
    BY <1>5, <2>3, <2>5, <2>6, <2>7 DEF TrafficInv
<1>7. CASE Batcher!Refuse(c) /\ CountError /\ Reply(c, 500)
  <2>1. answer' = [answer EXCEPT ![c] = "refused"] /\ waiting' = waiting
    BY <1>7 DEF Batcher!Refuse
  <2>2. /\ status'[c] = 500 /\ answer'[c] = "refused"
        /\ \A d \in Conn \ {c} : at'[d] = at[d] /\ answer'[d] = answer[d] /\ buffered'[d] = buffered[d]
    BY <1>1, <1>2, <1>7, <2>1 DEF ConnTypeOK, Reply, Goto
  <2>3. Judged(c)'
    BY <1>1, <1>3, <1>4, <2>2 DEF Judged
  <2>4. WaitingInv'
    <3>1. waiting \in Seq(Conn) /\ \A i \in DOMAIN waiting : waiting[i] \in Conn /\ waiting[i] # c
      BY <1>2, <1>3 DEF ConnTypeOK, WaitingInv
    <3> QED
      BY <1>2, <2>1, <2>2, <3>1 DEF WaitingInv
  <2>5. /\ waiting' \in Seq(Conn) /\ buffered' \in [Conn -> Nat] /\ 500 \in Code \ {0}
        /\ answer' \in [Conn -> {"none", "refused", "pending", "logits", "error"}]
    BY <1>1, <1>2, <2>1 DEF ConnTypeOK, Code
  <2>6. CountedReply(c, 500)
    BY <1>1, <1>3, <1>7 DEF CountedReply, CountError
  <2> QED
    BY <1>1, <1>3, <1>5, <1>7, <2>2, <2>3, <2>4, <2>5, <2>6, ReplyKeeps
<1> QED
  BY <1>6, <1>7 DEF InferEnqueue

\* The future is ready.
LEMMA AnsweredTraffic ==
  ASSUME TrafficInv, NEW c \in Conn, InferAnswered(c)
  PROVE  TrafficInv'
<1>1. at[c] = "future" /\ UNCHANGED <<message, buffered, fd, waiting, answer>>
  BY DEF InferAnswered, batcherVars
<1>2. PICK code \in {200, 500} :
        /\ Reply(c, code)
        /\ \/ code = 200 /\ answer[c] = "logits" /\ stats' = [stats EXCEPT !.requests = @ + 1]
           \/ code = 500 /\ answer[c] = "error" /\ stats' = [stats EXCEPT !.errors = @ + 1]
  BY DEF InferAnswered, CountError
<1>3. ConnTypeOK /\ WaitingInv /\ (\A d \in Conn : ConnInv(d)) /\ BuffersBounded
  BY DEF TrafficInv
<1>4. /\ status[c] = 0 /\ HeadComplete(c, buffered[c]) /\ LengthStatus(c) = 0
      /\ message[c].route = "infer" /\ Acceptable(c)
  BY <1>1, <1>3 DEF ConnInv
<1>5. /\ LengthStatus(c)' = LengthStatus(c)
      /\ HeadComplete(c, buffered[c])' <=> HeadComplete(c, buffered[c])
      /\ Acceptable(c)' <=> Acceptable(c)
  <2>1. LengthStatus(c)' = LengthStatus(c) /\ ContentLength(c)' = ContentLength(c)
    BY <1>1, MessageSame
  <2> QED
    BY <1>1, <2>1 DEF HeadComplete, Acceptable, Body, BodyBytes
<1>6. status'[c] = code /\ \A d \in Conn \ {c} : at'[d] = at[d]
  BY <1>2, <1>3 DEF ConnTypeOK, Reply, Goto
<1>7. Judged(c)'
  BY <1>1, <1>2, <1>4, <1>5, <1>6 DEF Judged
<1>8. WaitingInv'
  BY <1>1, <1>2, <1>3, <1>6, WaitingSame
<1>9. /\ waiting' \in Seq(Conn) /\ buffered' \in [Conn -> Nat] /\ code \in Code \ {0}
      /\ answer' \in [Conn -> {"none", "refused", "pending", "logits", "error"}]
      /\ BuffersBounded'
  BY <1>1, <1>3, BuffersSame DEF ConnTypeOK, Code
<1>10. CountedReply(c, code)
  BY <1>2, <1>4 DEF CountedReply
<1> QED
  BY <1>1, <1>2, <1>4, <1>7, <1>8, <1>9, <1>10, ReplyKeeps

\* The response is out, or the process is gone; the connection is closed.
LEMMA EndTraffic ==
  ASSUME TrafficInv, NEW c \in Conn, Send(c) \/ Close(c)
  PROVE  TrafficInv'
<1>1. UNCHANGED <<message, buffered, status, fd, stats, waiting, answer>>
  BY DEF Send, Close, batcherVars
<1>2. ConnTypeOK /\ ConnInv(c)
  BY DEF TrafficInv
<1>3. at[c] \in {"reply", "close"}
  BY DEF Send, Close
<1>4. CASE at' = at
  BY <1>1, <1>4, QuietKeeps
<1>5. ASSUME NEW place \in {"close", "closed"}, at' = [at EXCEPT ![c] = place]
      PROVE  TrafficInv'
  <2>1. at'[c] = place
    BY <1>2, <1>5 DEF ConnTypeOK
  <2>2. Judged(c) => Judged(c)'
    BY <1>1, JudgedSame
  <2>3. ConnInv(c)'
    BY <1>1, <1>2, <1>3, <2>1, <2>2 DEF ConnInv
  <2>4. fd' \in [Conn -> Int] /\ place \in Place
    BY <1>1, <1>2 DEF ConnTypeOK, Place
  <2> QED
    BY <1>1, <1>3, <1>5, <2>3, <2>4, MoveKeeps
<1> QED
  BY <1>4, <1>5 DEF Send, Close, Goto

\* A sequence without its first n elements.
LEMMA DropFacts ==
  ASSUME NEW S, NEW seq \in Seq(S), NEW n \in 1 .. Len(seq)
  PROVE  /\ SubSeq(seq, n + 1, Len(seq)) \in Seq(S)
         /\ Len(SubSeq(seq, n + 1, Len(seq))) = Len(seq) - n
         /\ \A i \in 1 .. Len(seq) - n : SubSeq(seq, n + 1, Len(seq))[i] = seq[i + n]
<1>1. Len(seq) \in Nat /\ \A i \in n + 1 .. Len(seq) : seq[i] \in S
  OBVIOUS
<1>2. PICK rest : rest = SubSeq(seq, n + 1, Len(seq))
  OBVIOUS
<1>3. rest \in Seq(S) /\ Len(rest) = Len(seq) - n
  BY <1>1, <1>2
<1>4. \A i \in 1 .. Len(seq) - n : rest[i] = seq[i + n]
  BY <1>1, <1>2
<1> QED
  BY <1>2, <1>3, <1>4

\* The batcher answers, one request or a batch.
LEMMA BatcherTraffic ==
  ASSUME TrafficInv, BatcherStep
  PROVE  TrafficInv'
<1>1. UNCHANGED <<message, at, buffered, status, fd, stats>>
  BY DEF BatcherStep, connVars
<1>2. ConnTypeOK /\ WaitingInv /\ (\A d \in Conn : ConnInv(d)) /\ BuffersBounded /\ EachInferenceCounted
  BY DEF TrafficInv
<1>3. waiting \in Seq(Conn) /\ Len(waiting) \in Nat /\ DOMAIN waiting = 1 .. Len(waiting)
  BY <1>2 DEF ConnTypeOK
<1>4. \A i, j \in 1 .. Len(waiting) : waiting[i] = waiting[j] => i = j
  BY <1>2, <1>3 DEF WaitingInv, IsInjective
<1>5. ASSUME NEW m \in 0 .. Len(waiting), NEW verdict \in {"logits", "error"},
             waiting' \in Seq(Conn), Len(waiting') = Len(waiting) - m,
             \A i \in 1 .. Len(waiting) - m : waiting'[i] = waiting[i + m],
             answer' \in [Conn -> {"none", "refused", "pending", "logits", "error"}],
             \A d \in Conn : answer'[d] = IF \E i \in 1 .. m : waiting[i] = d
                                          THEN verdict ELSE answer[d]
      PROVE  TrafficInv'
  <2>1. DOMAIN waiting' = 1 .. Len(waiting) - m
    BY <1>5
  <2>2. \A i \in 1 .. Len(waiting) - m : i + m \in 1 .. Len(waiting) /\ i + m \notin 1 .. m
    BY <1>3
  <2>3. IsInjective(waiting')
    <3>1. ASSUME NEW i \in DOMAIN waiting', NEW j \in DOMAIN waiting', waiting'[i] = waiting'[j]
          PROVE  i = j
      <4>1. waiting[i + m] = waiting[j + m] /\ i + m \in 1 .. Len(waiting) /\ j + m \in 1 .. Len(waiting)
        BY <1>5, <2>1, <2>2, <3>1
      <4>2. i + m = j + m
        BY <1>4, <4>1
      <4> QED
        BY <1>3, <2>1, <4>2
    <3> QED
      BY <3>1 DEF IsInjective
  <2>4. \A i \in DOMAIN waiting' : answer'[waiting'[i]] = "pending"
    <3> TAKE i \in DOMAIN waiting'
    <3>1. /\ waiting'[i] = waiting[i + m] /\ i + m \in 1 .. Len(waiting) /\ i + m \notin 1 .. m
          /\ waiting[i + m] \in Conn
      BY <1>3, <1>5, <2>1, <2>2
    <3>2. \A j \in 1 .. m : waiting[j] # waiting[i + m]
      BY <1>3, <1>4, <3>1
    <3>3. answer[waiting[i + m]] = "pending"
      BY <1>2, <1>3, <3>1 DEF WaitingInv
    <3> QED
      BY <1>5, <3>1, <3>2, <3>3
  <2>5. \A d \in Conn : answer'[d] = "pending" => at'[d] = "future"
    BY <1>1, <1>2, <1>5 DEF WaitingInv
  <2>6. WaitingInv'
    BY <2>3, <2>4, <2>5 DEF WaitingInv, IsInjective
  <2>7. \A d \in Conn : answer'[d] # answer[d] => at[d] = "future" /\ answer'[d] = verdict
    <3> TAKE d \in Conn
    <3>1. SUFFICES ASSUME NEW i \in 1 .. m, waiting[i] = d
                   PROVE  at[d] = "future" /\ answer'[d] = verdict
      BY <1>5
    <3>2. i \in DOMAIN waiting
      BY <1>3
    <3>3. answer[d] = "pending"
      BY <1>2, <3>1, <3>2 DEF WaitingInv
    <3> QED
      BY <1>2, <1>5, <3>1, <3>3 DEF WaitingInv
  <2>8. \A d \in Conn : ConnInv(d)'
    <3> TAKE d \in Conn
    <3>1. CASE answer'[d] = answer[d]
      BY <1>1, <1>2, <3>1, ConnSame
    <3>2. CASE answer'[d] # answer[d]
      <4>1. at'[d] = "future" /\ answer'[d] \in {"logits", "error"}
        BY <1>1, <2>7, <3>2
      <4>2. LengthStatus(d)' = LengthStatus(d) /\ ContentLength(d)' = ContentLength(d)
        BY <1>1, MessageSame
      <4>3. /\ HeadComplete(d, buffered[d])' <=> HeadComplete(d, buffered[d])
            /\ Acceptable(d)' <=> Acceptable(d)
        BY <1>1, <4>2 DEF HeadComplete, Acceptable, Body, BodyBytes
      <4>4. /\ status[d] = 0 /\ HeadComplete(d, buffered[d]) /\ LengthStatus(d) = 0
            /\ message[d].route = "infer" /\ Acceptable(d)
        BY <1>1, <1>2, <4>1 DEF ConnInv
      <4> QED
        BY <1>1, <4>1, <4>2, <4>3, <4>4 DEF ConnInv
    <3> QED
      BY <3>1, <3>2
  <2>9. ConnTypeOK'
    BY <1>1, <1>2, <1>5 DEF ConnTypeOK
  <2>10. BuffersBounded' /\ EachInferenceCounted'
    BY <1>1, <1>2, BuffersSame, CountSame
  <2> QED
    BY <2>6, <2>8, <2>9, <2>10 DEF TrafficInv
<1>6. CASE Batcher!End
  BY <1>1, <1>6, QuietKeeps DEF Batcher!End
<1>7. CASE Batcher!Respond
  <2>1. /\ waiting # <<>> /\ waiting' = Tail(waiting)
        /\ answer' = [answer EXCEPT ![Head(waiting)] = "logits"]
    BY <1>7 DEF Batcher!Respond
  <2>2. /\ 1 \in 0 .. Len(waiting) /\ Head(waiting) = waiting[1] /\ waiting[1] \in Conn
        /\ waiting' \in Seq(Conn) /\ Len(waiting') = Len(waiting) - 1
        /\ \A i \in 1 .. Len(waiting) - 1 : waiting'[i] = waiting[i + 1]
    BY <1>3, <2>1
  <2>3. /\ answer' \in [Conn -> {"none", "refused", "pending", "logits", "error"}]
        /\ \A d \in Conn : answer'[d] = IF waiting[1] = d THEN "logits" ELSE answer[d]
    BY <1>2, <2>1, <2>2 DEF ConnTypeOK
  <2>4. \A d \in Conn : (\E i \in 1 .. 1 : waiting[i] = d) <=> waiting[1] = d
    OBVIOUS
  <2>5. \A d \in Conn : answer'[d] = IF \E i \in 1 .. 1 : waiting[i] = d THEN "logits" ELSE answer[d]
    BY <2>3, <2>4
  <2> QED
    BY <1>5, <2>2, <2>3, <2>5
<1>8. ASSUME NEW n \in 1 .. MaxBatch, Batcher!Fail(n)
      PROVE  TrafficInv'
  <2>1. /\ n \in 1 .. Len(waiting) /\ waiting' = SubSeq(waiting, n + 1, Len(waiting))
        /\ answer' = [r \in Conn |-> IF \E i \in 1 .. n : waiting[i] = r THEN "error" ELSE answer[r]]
    BY <1>3, <1>8 DEF Batcher!Fail
  <2>2. /\ waiting' \in Seq(Conn) /\ Len(waiting') = Len(waiting) - n
        /\ \A i \in 1 .. Len(waiting) - n : waiting'[i] = waiting[i + n]
    BY <1>3, <2>1, DropFacts
  <2>3. /\ answer' \in [Conn -> {"none", "refused", "pending", "logits", "error"}]
        /\ \A d \in Conn : answer'[d] = IF \E i \in 1 .. n : waiting[i] = d THEN "error" ELSE answer[d]
    BY <1>2, <2>1 DEF ConnTypeOK
  <2>4. n \in 0 .. Len(waiting)
    BY <2>1
  <2> QED
    BY <1>5, <2>2, <2>3, <2>4
<1> QED
  BY <1>6, <1>7, <1>8 DEF BatcherStep, Batcher!Answer

--------------------------------------------------------------------------------

(***************************************************************************)
(* The inductive invariant holds.                                          *)
(***************************************************************************)
LEMMA InitOK == Init => IInv
<1> SUFFICES ASSUME Init PROVE IInv
  OBVIOUS
<1>1. /\ message \in [Conn -> Message]
      /\ \A c \in Conn : message[c].head \in Nat \ {0}
  BY TrafficAssumption DEF Init, Message
<1>2. ConnTypeOK
  BY <1>1 DEF Init, ConnTypeOK, Place, Code, Nothing, Batcher!Init
<1>3. ServerTypeOK /\ ListenInv
  BY DEF Init, ServerTypeOK, ListenInv, Accepting
<1>4. SocketInv
  BY ConnAssumption DEF Init, SocketInv, Resting, Accepting
<1>5. WaitingInv
  BY DEF Init, WaitingInv, IsInjective, Batcher!Init
<1>6. \A c \in Conn : ~ HeadComplete(c, buffered[c]) /\ buffered[c] = 0
  BY <1>1 DEF Init, HeadComplete
<1>7. \A c \in Conn : ConnInv(c)
  BY <1>6, BoundsAssumption DEF Init, ConnInv, Batcher!Init
<1>8. BuffersBounded
  BY <1>6, BoundsAssumption DEF BuffersBounded
<1>9. EachInferenceCounted
  <2>1. {c \in Inferred : status[c] = 200} = {} /\ {c \in Inferred : status[c] # 200} = {}
    BY DEF Init, Inferred
  <2> QED
    BY <2>1, FS_EmptySet DEF Init, EachInferenceCounted
<1> QED
  BY <1>2, <1>3, <1>4, <1>5, <1>7, <1>8, <1>9 DEF IInv, ServerInv, TrafficInv

\* Each step keeps the invariant and the sockets of others.
LEMMA NextOK == IInv /\ [Next]_vars => IInv' /\ OwnSocketStep
<1> SUFFICES ASSUME IInv, [Next]_vars PROVE IInv' /\ OwnSocketStep
  OBVIOUS
<1>1. ServerInv /\ TrafficInv /\ ConnTypeOK
  BY DEF IInv, TrafficInv
<1>2. ASSUME UNCHANGED <<serverVars, at, fd>>
      PROVE  ServerInv' /\ OwnSocketStep
  BY <1>1, <1>2, StayOpen
<1>3. ASSUME NEW c \in Conn, NEW place \in Place \ Resting, at[c] \notin Resting,
             at' = [at EXCEPT ![c] = place], UNCHANGED <<serverVars, fd>>
      PROVE  ServerInv' /\ OwnSocketStep
  <2>1. \A d \in Conn : at'[d] = IF d = c THEN place ELSE at[d]
    BY <1>1, <1>3 DEF ConnTypeOK
  <2>2. \A d \in Conn : at'[d] \notin Resting <=> at[d] \notin Resting
    BY <1>3, <2>1
  <2> QED
    BY <1>1, <1>3, <2>2, StayOpen
<1>4. CASE \/ Loop \/ AcceptFails \/ RunFlag \/ RunTest \/ RunClose \/ RunForget
           \/ StopStep \/ DestroyBatcher \/ Exit
  <2>1. UNCHANGED connVars
    BY <1>4 DEF Loop, AcceptFails, RunFlag, RunTest, RunClose, RunForget, StopStep, StopFlag,
                StopTest, StopClose, StopForget, DestroyBatcher, Exit
  <2>2. UNCHANGED <<waiting, answer>>
    BY <1>4 DEF Loop, AcceptFails, RunFlag, RunTest, RunClose, RunForget, StopStep, StopFlag,
                StopTest, StopClose, StopForget, DestroyBatcher, Exit, batcherVars, Batcher!Stop
  <2>3. TrafficInv'
    BY <1>1, <2>1, <2>2, QuietKeeps DEF connVars
  <2>4. ServerInv' /\ OwnSocketStep
    BY <1>1, <1>4, <2>1, ServerStepKeeps
  <2> QED
    BY <2>3, <2>4 DEF IInv
<1>5. ASSUME NEW c \in Conn, Accept(c) PROVE IInv' /\ OwnSocketStep
  BY <1>1, <1>5, AcceptKeeps, AcceptTraffic DEF IInv
<1>6. CASE BatcherStep
  <2>1. UNCHANGED <<serverVars, at, fd>>
    BY <1>6 DEF BatcherStep, connVars
  <2> QED
    BY <1>1, <1>2, <1>6, <2>1, BatcherTraffic DEF IInv
<1>7. ASSUME NEW c \in Conn, HangUp(c) PROVE IInv' /\ OwnSocketStep
  <2>1. UNCHANGED <<serverVars, message, at, buffered, status, fd, stats, waiting, answer>>
    BY <1>7 DEF HangUp, batcherVars
  <2>2. TrafficInv'
    BY <1>1, <2>1, QuietKeeps
  <2>3. ServerInv' /\ OwnSocketStep
    BY <1>2, <2>1
  <2> QED
    BY <2>2, <2>3 DEF IInv
<1>8. ASSUME NEW c \in Conn, RecvHeaders(c) PROVE IInv' /\ OwnSocketStep
  <2>1. at[c] = "headers" /\ UNCHANGED <<serverVars, fd>>
    BY <1>8 DEF RecvHeaders
  <2>2. \E place \in {"close", "reply", "headers", "body"} : at' = [at EXCEPT ![c] = place]
    BY <1>8 DEF RecvHeaders, Reply, Goto
  <2>3. ServerInv' /\ OwnSocketStep
    BY <1>3, <2>1, <2>2 DEF Place, Resting
  <2> QED
    BY <1>1, <1>8, <2>3, HeadersTraffic DEF IInv
<1>9. ASSUME NEW c \in Conn, RecvBody(c) PROVE IInv' /\ OwnSocketStep
  <2>1. UNCHANGED <<serverVars, at, fd>>
    BY <1>9 DEF RecvBody
  <2> QED
    BY <1>1, <1>2, <1>9, <2>1, BodyTraffic DEF IInv
<1>10. ASSUME NEW c \in Conn, Route(c) \/ InferRejects(c) PROVE IInv' /\ OwnSocketStep
  <2>1. /\ at[c] = "body" /\ UNCHANGED <<serverVars, fd>>
        /\ UNCHANGED <<message, buffered, waiting, answer>>
    BY <1>10 DEF Route, InferRejects, BodyOver, batcherVars
  <2>2. at' = [at EXCEPT ![c] = "reply"]
    BY <1>10 DEF Route, InferRejects, Reply, Goto
  <2>3. ServerInv' /\ OwnSocketStep
    BY <1>3, <2>1, <2>2 DEF Place, Resting
  <2>4. PICK code \in {200, 400, 404} :
          /\ Reply(c, code)
          /\ \/ message[c].route = "infer" /\ code = 400 /\ ~ Acceptable(c) /\ CountError
             \/ /\ message[c].route # "infer" /\ UNCHANGED stats
                /\ code = IF message[c].route \in {"health", "metrics"} THEN 200 ELSE 404
    BY <1>10 DEF Route, InferRejects
  <2>5. TrafficInv'
    BY <1>1, <2>1, <2>4, RejectedKeeps
  <2> QED
    BY <2>5, <2>3 DEF IInv
<1>11. ASSUME NEW c \in Conn, InferEnqueue(c) \/ InferAnswered(c) PROVE IInv' /\ OwnSocketStep
  <2>1. at[c] \in {"body", "future"} /\ UNCHANGED <<serverVars, fd>>
    BY <1>11 DEF InferEnqueue, InferAnswered, BodyOver
  <2>2. \E place \in {"future", "reply"} : at' = [at EXCEPT ![c] = place]
    BY <1>11 DEF InferEnqueue, InferAnswered, Reply, Goto
  <2>3. ServerInv' /\ OwnSocketStep
    BY <1>3, <2>1, <2>2 DEF Place, Resting
  <2> QED
    BY <1>1, <1>11, <2>3, EnqueueTraffic, AnsweredTraffic DEF IInv
<1>12. ASSUME NEW c \in Conn, Send(c) PROVE IInv' /\ OwnSocketStep
  <2>1. at[c] = "reply" /\ UNCHANGED <<serverVars, fd>>
    BY <1>12 DEF Send
  <2>2. at' = at \/ at' = [at EXCEPT ![c] = "close"]
    BY <1>12 DEF Send, Goto
  <2>3. ServerInv' /\ OwnSocketStep
    BY <1>2, <1>3, <2>1, <2>2 DEF Place, Resting
  <2> QED
    BY <1>1, <1>12, <2>3, EndTraffic DEF IInv
<1>13. ASSUME NEW c \in Conn, Close(c) PROVE IInv' /\ OwnSocketStep
  BY <1>1, <1>13, CloseKeeps, EndTraffic DEF IInv
<1>14. CASE UNCHANGED vars
  <2>1. UNCHANGED <<serverVars, message, at, buffered, status, fd, stats, waiting, answer>>
    BY <1>14 DEF vars, connVars, batcherVars
  <2> QED
    BY <1>1, <1>2, <2>1, QuietKeeps DEF IInv
<1> QED
  BY <1>4, <1>5, <1>6, <1>7, <1>8, <1>9, <1>10, <1>11, <1>12, <1>13, <1>14
  DEF Next, RunStep, HandlerStep

\* The invariant holds in every state.
LEMMA Invariance == Spec => []IInv
  BY InitOK, NextOK, PTL DEF Spec

\* A connection with a status has been judged by its message.
LEMMA AnsweredIsJudged ==
  ASSUME TrafficInv, NEW c \in Conn, status[c] # 0
  PROVE  Judged(c)
<1>1. ConnTypeOK /\ ConnInv(c)
  BY DEF TrafficInv
<1>2. at[c] \in Place
  BY <1>1 DEF ConnTypeOK
<1> QED
  BY <1>1, <1>2 DEF ConnInv, Place

\* Judged by its message, it has a status that this message deserves.
LEMMA JudgedAsSpecified ==
  ASSUME TrafficInv, NEW c \in Conn, status[c] # 0,
         HeadComplete(c, buffered[c]), LengthStatus(c) # 0 \/ BodyBytes(c) >= ContentLength(c)
  PROVE  status[c] \in Specified(c)
<1> DEFINE m == message[c]
           declared == ContentLength(c)
           rest == IF LengthStatus(c) # 0 THEN {LengthStatus(c)}
                   ELSE IF m.route \in {"health", "metrics"} THEN {200}
                   ELSE IF m.route = "other" THEN {404}
                   ELSE IF \/ declared = FeatureCount
                           \/ declared = FeatureCount * FloatBytes /\ m.sane THEN {200, 500}
                   ELSE {400}
<1>1. ConnTypeOK /\ BuffersBounded /\ Judged(c)
  BY AnsweredIsJudged DEF TrafficInv
<1>2. ~ m.endless /\ m.head \in Nat /\ m.head <= MaxHeaderBytes + ChunkBytes
  BY <1>1 DEF ConnTypeOK, Message, BuffersBounded, HeadComplete
<1>3. m.route \in {"infer", "health", "metrics", "other"}
  BY <1>1 DEF ConnTypeOK, Message
<1>4. LengthStatus(c) = 0 => Body(c) = declared
  <2>1. LengthStatus(c) = 0 => declared \in Int
    BY <1>1, LengthFacts, BoundsAssumption
  <2>2. BodyBytes(c) \in Int
    BY <1>1, <1>2 DEF ConnTypeOK, BodyBytes
  <2> QED
    BY <2>1, <2>2 DEF Body, Low
<1>5. LengthStatus(c) = 0 =>
        (Acceptable(c) <=> \/ declared = FeatureCount
                           \/ declared = FeatureCount * FloatBytes /\ m.sane)
  BY <1>4 DEF Acceptable
<1>6. status[c] \in rest
  BY <1>1, <1>3, <1>5 DEF Judged
<1>7. Specified(c) = IF m.endless \/ m.head > MaxHeaderBytes + ChunkBytes THEN {431}
                     ELSE IF m.head > MaxHeaderBytes THEN {431} \cup rest ELSE rest
  BY DEF Specified
<1> HIDE DEF rest, m
<1>8. MaxHeaderBytes \in Nat /\ ChunkBytes \in Nat
  BY BoundsAssumption
<1>9. ~ (m.head > MaxHeaderBytes + ChunkBytes)
  BY <1>2, <1>8
<1> QED
  BY <1>2, <1>6, <1>7, <1>9

(***************************************************************************)
(* handleClient: whatever the chunks and the other connections, a request  *)
(* gets the status that its head and its declared body call for, and the   *)
(* batcher's verdict on itself.                                            *)
(***************************************************************************)
THEOREM ResponsesAreAsSpecified == Spec => []AsSpecified
<1>1. IInv => AsSpecified
  <2> SUFFICES ASSUME IInv, NEW c \in Conn
               PROVE  /\ status[c] = 431 => 431 \in Specified(c)
                      /\ status[c] # 0 /\ HeadComplete(c, buffered[c])
                         /\ (LengthStatus(c) # 0 \/ BodyBytes(c) >= ContentLength(c))
                           => status[c] \in Specified(c)
                      /\ answer[c] \in {"logits", "error"} /\ status[c] # 0
                           => status[c] = IF answer[c] = "logits" THEN 200 ELSE 500
                      /\ answer[c] = "none" => status[c] # 500
    BY DEF AsSpecified
  <2>1. TrafficInv /\ ConnTypeOK
    BY DEF IInv, TrafficInv
  <2>2. status[c] # 0 => Judged(c)
    BY <2>1, AnsweredIsJudged
  <2>3. LengthStatus(c) \in {0, 400, 413}
    BY <2>1, LengthFacts
  <2>4. status[c] = 431 => 431 \in Specified(c)
    <3> SUFFICES ASSUME status[c] = 431 PROVE 431 \in Specified(c)
      OBVIOUS
    <3>1. ~ HeadComplete(c, buffered[c]) /\ buffered[c] > MaxHeaderBytes
      BY <2>2, <2>3 DEF Judged
    <3>2. message[c].head \in Nat /\ buffered[c] \in Nat /\ MaxHeaderBytes \in Nat
      BY <2>1, BoundsAssumption DEF ConnTypeOK, Message
    <3>3. message[c].endless \/ message[c].head > MaxHeaderBytes
      BY <3>1, <3>2 DEF HeadComplete
    <3> QED
      BY <3>3 DEF Specified
  <2>5. status[c] # 0 /\ HeadComplete(c, buffered[c])
        /\ (LengthStatus(c) # 0 \/ BodyBytes(c) >= ContentLength(c))
          => status[c] \in Specified(c)
    BY <2>1, JudgedAsSpecified
  <2>6. /\ answer[c] \in {"logits", "error"} /\ status[c] # 0
             => status[c] = IF answer[c] = "logits" THEN 200 ELSE 500
        /\ answer[c] = "none" => status[c] # 500
    BY <2>2, <2>3 DEF Judged
  <2> QED
    BY <2>4, <2>5, <2>6
<1> QED
  BY <1>1, Invariance, PTL

(***************************************************************************)
(* stats_: each inference with a response is counted once, as a request or *)
(* as an error, and nothing that the framing turned away.                  *)
(***************************************************************************)
THEOREM InferencesAreCounted == Spec => []EachInferenceCounted
<1>1. IInv => EachInferenceCounted
  BY DEF IInv, TrafficInv
<1> QED
  BY <1>1, Invariance, PTL

(***************************************************************************)
(* kMaxHeaderBytes and kMaxBodyBytes: what a connection may make the       *)
(* server keep is bounded, and a chunk is all that goes beyond.            *)
(***************************************************************************)
THEOREM BuffersStayBounded == Spec => []BuffersBounded
<1>1. IInv => BuffersBounded
  BY DEF IInv, TrafficInv
<1> QED
  BY <1>1, Invariance, PTL

(***************************************************************************)
(* IE_CLOSE_SOCKET: a connection is closed by its handler only, save by a  *)
(* run() that tested listenSocket_ while a stop() of another thread had    *)
(* closed and not yet forgotten it.                                        *)
(***************************************************************************)
THEOREM SocketsAreOwn == Spec => OwnSocket
  BY Invariance, NextOK, PTL DEF Spec, OwnSocket

--------------------------------------------------------------------------------

(***************************************************************************)
(* The command line and the model file.                                    *)
(***************************************************************************)
\* Induction, over a set of numbers.
LEMMA Induct ==
  ASSUME NEW S, 0 \in S, \A n \in Nat : n \in S => n + 1 \in S
  PROVE  Nat \subseteq S
<1> DEFINE Bad == Nat \ S
<1>1. SUFFICES ASSUME Bad # {} PROVE FALSE
  OBVIOUS
<1>2. IsWellFoundedOn(OpToRel(<, Nat), Nat)
  BY NatLessThanWellFounded
<1>3. PICK m \in Bad : \A k \in Bad : ~ (<<k, m>> \in OpToRel(<, Nat))
  <2>1. Bad \subseteq Nat
    OBVIOUS
  <2> HIDE DEF Bad
  <2> QED
    BY <1>1, <1>2, <2>1, WFMin
<1>4. m \in Nat /\ m # 0 /\ m - 1 \in Nat /\ m - 1 < m /\ (m - 1) + 1 = m
  OBVIOUS
<1>5. <<m - 1, m>> \in OpToRel(<, Nat)
  BY <1>4 DEF OpToRel
<1>6. m - 1 \in S
  BY <1>3, <1>4, <1>5
<1> QED
  BY <1>4, <1>6

\* Some sequence.
IsSequence(s) == \E S : s \in Seq(S)

\* A sequence is the function of its members.
LEMMA SequenceIs ==
  ASSUME NEW s, IsSequence(s)
  PROVE  Len(s) \in Nat /\ DOMAIN s = 1 .. Len(s) /\ s = [i \in 1 .. Len(s) |-> s[i]]
  BY DEF IsSequence

\* A function of the first n numbers is a sequence.
LEMMA Tabulated ==
  ASSUME NEW n \in Nat, NEW s, s = [i \in 1 .. n |-> s[i]]
  PROVE  IsSequence(s) /\ Len(s) = n
<1>1. PICK S : S = {s[i] : i \in 1 .. n}
  OBVIOUS
<1>2. s \in [1 .. n -> S]
  BY <1>1
<1>3. s \in Seq(S) /\ Len(s) = n
  BY <1>2
<1> QED
  BY <1>3 DEF IsSequence

\* Two sequences, one after the other.
LEMMA ConcatIs ==
  ASSUME NEW s, NEW t, IsSequence(s), IsSequence(t)
  PROVE  /\ IsSequence(s \o t) /\ Len(s \o t) = Len(s) + Len(t)
         /\ \A i \in 1 .. Len(s) : (s \o t)[i] = s[i]
         /\ \A i \in 1 .. Len(t) : (s \o t)[Len(s) + i] = t[i]
<1>1. PICK S, T : s \in Seq(S) /\ t \in Seq(T)
  BY DEF IsSequence
<1>2. PICK U : U = S \cup T
  OBVIOUS
<1>3. s \in Seq(U) /\ t \in Seq(U)
  BY <1>1, <1>2
<1>4. s \o t \in Seq(U)
  BY <1>3
<1> QED
  BY <1>3, <1>4 DEF IsSequence

\* The empty one, in front.
LEMMA EmptyConcat ==
  ASSUME NEW s, IsSequence(s)
  PROVE  IsSequence(<<>>) /\ Len(<<>>) = 0 /\ <<>> \o s = s
<1>1. PICK S : s \in Seq(S)
  BY DEF IsSequence
<1>2. <<>> \in Seq(S) /\ Len(<<>>) = 0 /\ <<>> \o s = s
  BY <1>1
<1> QED
  BY <1>2 DEF IsSequence

\* s stands at place p of c.
Stands(c, p, s) ==
  /\ p + Len(s) - 1 <= Len(c)
  /\ \A i \in 1 .. Len(s) : c[p + i - 1] = s[i]

\* What stands one after the other.
LEMMA StandsApart ==
  ASSUME NEW c, NEW p \in Nat, IsSequence(c), NEW s, NEW t, IsSequence(s), IsSequence(t),
         Stands(c, p, s \o t)
  PROVE  /\ Stands(c, p, s) /\ p + Len(s) \in Nat
         /\ Stands(c, p + Len(s), t)
         /\ p + Len(s \o t) = (p + Len(s)) + Len(t)
<1>1. PICK m, n, r, k : m = Len(s) /\ n = Len(t) /\ r = s \o t /\ k = Len(c)
  OBVIOUS
<1>2. m \in Nat /\ n \in Nat /\ k \in Nat
  BY <1>1, SequenceIs
<1>3. /\ Len(r) = m + n
      /\ \A i \in 1 .. m : r[i] = s[i]
      /\ \A i \in 1 .. n : r[m + i] = t[i]
  BY <1>1, ConcatIs
<1>4. p + (m + n) - 1 <= k /\ \A i \in 1 .. m + n : c[p + i - 1] = r[i]
  BY <1>1, <1>3 DEF Stands
<1>5. ASSUME NEW i \in 1 .. m
      PROVE  c[p + i - 1] = s[i]
  BY <1>2, <1>3, <1>4
<1>6. ASSUME NEW i \in 1 .. n
      PROVE  c[(p + m) + i - 1] = t[i]
  <2>1. m + i \in 1 .. m + n /\ p + (m + i) - 1 = (p + m) + i - 1
    BY <1>2
  <2> QED
    BY <1>3, <1>4, <2>1
<1>7. p + m - 1 <= k /\ (p + m) + n - 1 <= k /\ p + m \in Nat /\ p + (m + n) = (p + m) + n
  BY <1>2, <1>4
<1> QED
  BY <1>1, <1>3, <1>5, <1>6, <1>7 DEF Stands

\* One item in front.
LEMMA StandsFirst ==
  ASSUME NEW c, NEW p \in Nat, IsSequence(c), NEW x, NEW t, IsSequence(t), Stands(c, p, <<x>> \o t)
  PROVE  /\ c[p] = x /\ p <= Len(c)
         /\ Stands(c, p + 1, t)
         /\ p + Len(<<x>> \o t) = (p + 1) + Len(t)
<1>1. PICK s : s = <<x>>
  OBVIOUS
<1>2. IsSequence(s) /\ Len(s) = 1 /\ s[1] = x
  <2>1. s \in Seq({x})
    BY <1>1
  <2> QED
    BY <1>1, <2>1 DEF IsSequence
<1>3. Stands(c, p, s \o t)
  BY <1>1
<1>4. /\ Stands(c, p, s) /\ Stands(c, p + Len(s), t)
      /\ p + Len(s \o t) = (p + Len(s)) + Len(t)
  <2>1. IsSequence(s)
    BY <1>2
  <2> QED
    BY <2>1, <1>3, StandsApart
<1>5. c[p + 1 - 1] = x /\ p + 1 - 1 <= Len(c) /\ p + 1 - 1 = p
  BY <1>2, <1>4 DEF Stands
<1>6. Stands(c, p + 1, t) /\ p + Len(s \o t) = (p + 1) + Len(t)
  BY <1>2, <1>4
<1> QED
  BY <1>1, <1>5, <1>6

\* g is what the first k of the sequences make, one after the other.
Joined(s, g, k) == g = [i \in 1 .. k |-> IF i = 1 THEN s[i] ELSE g[i - 1] \o s[i]]

\* There is always such a g.
LEMMA JoinedExists ==
  ASSUME NEW s
  PROVE  \A k \in Nat : \E g : Joined(s, g, k)
<1> DEFINE Good == {k \in Nat : \E g : Joined(s, g, k)}
<1>1. 0 \in Good
  <2>1. PICK g : g = [i \in 1 .. 0 |-> s[i]]
    OBVIOUS
  <2>2. g = [i \in 1 .. 0 |-> IF i = 1 THEN s[i] ELSE g[i - 1] \o s[i]]
    BY <2>1
  <2> QED
    BY <2>2 DEF Joined
<1>2. ASSUME NEW k \in Nat, k \in Good
      PROVE  k + 1 \in Good
  <2>1. PICK g : Joined(s, g, k)
    BY <1>2
  <2>2. PICK h : h = [i \in 1 .. k + 1 |-> IF i <= k THEN g[i] ELSE IF i = 1 THEN s[i] ELSE g[k] \o s[i]]
    OBVIOUS
  <2>3. ASSUME NEW i \in 1 .. k + 1
        PROVE  h[i] = IF i = 1 THEN s[i] ELSE h[i - 1] \o s[i]
    <3>1. CASE i <= k
      <4>1. g[i] = IF i = 1 THEN s[i] ELSE g[i - 1] \o s[i]
        <5>1. i \in 1 .. k
          BY <3>1
        <5>2. g = [j \in 1 .. k |-> IF j = 1 THEN s[j] ELSE g[j - 1] \o s[j]]
          BY <2>1 DEF Joined
        <5> QED
          BY <5>1, <5>2, Zenon
      <4>2. i # 1 => h[i - 1] = g[i - 1]
        BY <2>2, <3>1
      <4> QED
        BY <2>2, <3>1, <4>1, <4>2
    <3>2. CASE i = k + 1
      <4>1. i # 1 => i - 1 = k /\ k \in 1 .. k + 1 /\ h[k] = g[k]
        BY <2>2, <3>2
      <4>2. h[i] = IF i = 1 THEN s[i] ELSE g[k] \o s[i]
        BY <2>2, <3>2
      <4> QED
        BY <4>1, <4>2
    <3> QED
      BY <3>1, <3>2
  <2>4. h = [i \in 1 .. k + 1 |-> IF i = 1 THEN s[i] ELSE h[i - 1] \o s[i]]
    <3>1. h = [i \in 1 .. k + 1 |-> h[i]]
      BY <2>2
    <3> QED
      BY <2>3, <3>1
  <2>5. Joined(s, h, k + 1)
    BY <2>4, Zenon DEF Joined
  <2> QED
    BY <2>5
<1> HIDE DEF Good
<1>3. Nat \subseteq Good
  BY <1>1, <1>2, Induct
<1> QED
  BY <1>3 DEF Good

\* FlattenSeq by way of g.
LEMMA FlattenIs ==
  ASSUME NEW n \in Nat \ {0}, NEW s, IsSequence(s), Len(s) = n
  PROVE  \E g : Joined(s, g, n) /\ FlattenSeq(s) = g[n]
<1> DEFINE G == CHOOSE g : Joined(s, g, n)
<1>1. Joined(s, G, n)
  BY JoinedExists
<1>2. FlattenSeq(s) = G[n]
  BY DEF FlattenSeq, Joined
<1> HIDE DEF G
<1> QED
  BY <1>1, <1>2

\* Sequences that stand one after the other start at places q.
SpreadOver(c, q, s, n, p, e) ==
  /\ q \in [1 .. n + 1 -> Nat \ {0}]
  /\ q[1] = p /\ q[n + 1] = e
  /\ \A i \in 1 .. n : Stands(c, q[i], s[i]) /\ q[i + 1] = q[i] + Len(s[i])

\* What is flattened is spread over the places it stands at.
LEMMA FlattenSpreads ==
  ASSUME NEW n \in Nat, NEW s, IsSequence(s), Len(s) = n, \A i \in 1 .. n : IsSequence(s[i])
  PROVE  /\ IsSequence(FlattenSeq(s))
         /\ \A c : \A p \in Nat \ {0} :
              IsSequence(c) /\ Stands(c, p, FlattenSeq(s))
                => \E q : SpreadOver(c, q, s, n, p, p + Len(FlattenSeq(s)))
<1>1. CASE n = 0
  <2>1. FlattenSeq(s) = s
    BY <1>1 DEF FlattenSeq
  <2>2. ASSUME NEW c, NEW p \in Nat \ {0}
        PROVE  \E q : SpreadOver(c, q, s, n, p, p + Len(FlattenSeq(s)))
    <3>1. PICK q : q = [i \in 1 .. 1 |-> p]
      OBVIOUS
    <3>2. q \in [1 .. n + 1 -> Nat \ {0}] /\ q[1] = p /\ q[n + 1] = p /\ p + Len(s) = p /\ 1 .. n = {}
      BY <1>1, <3>1
    <3> QED
      BY <2>1, <3>2 DEF SpreadOver
  <2> QED
    BY <2>1, <2>2
<1>2. CASE n # 0
  <2>1. PICK g : Joined(s, g, n) /\ FlattenSeq(s) = g[n]
    BY <1>2, FlattenIs
  <2>2. \A i \in 1 .. n : g[i] = IF i = 1 THEN s[i] ELSE g[i - 1] \o s[i]
    BY <2>1 DEF Joined
  <2>3. g[1] = s[1]
    BY <1>2, <2>2
  <2>4. \A k \in Nat : 0 < k /\ k < n => k \in 1 .. n /\ k + 1 \in 1 .. n /\ g[k + 1] = g[k] \o s[k + 1]
    <3> SUFFICES ASSUME NEW k \in Nat, 0 < k, k < n
                 PROVE  k \in 1 .. n /\ k + 1 \in 1 .. n /\ g[k + 1] = g[k] \o s[k + 1]
      OBVIOUS
    <3>1. k \in 1 .. n /\ k + 1 \in 1 .. n /\ k + 1 # 1 /\ (k + 1) - 1 = k
      OBVIOUS
    <3>2. g[k + 1] = g[(k + 1) - 1] \o s[k + 1]
      BY <2>2, <3>1, Zenon
    <3> QED
      BY <3>1, <3>2
  <2> DEFINE S == {k \in Nat : 0 < k /\ k <= n => IsSequence(g[k])}
  <2>5. ASSUME NEW k \in Nat, k \in S PROVE k + 1 \in S
    <3>1. CASE k = 0
      BY <1>2, <2>3, <3>1
    <3>2. CASE 0 < k /\ k < n
      <4>1. k \in 1 .. n /\ k + 1 \in 1 .. n /\ g[k + 1] = g[k] \o s[k + 1]
        BY <2>4, <3>2, Zenon
      <4>2. IsSequence(g[k]) /\ IsSequence(s[k + 1])
        BY <2>5, <3>2, <4>1
      <4>3. IsSequence(g[k] \o s[k + 1])
        BY <4>2, ConcatIs, Zenon
      <4>4. IsSequence(g[k + 1])
        BY <4>1, <4>3, Zenon
      <4> QED
        BY <4>4
    <3> QED
      BY <3>1, <3>2
  <2>6. 0 \in S
    OBVIOUS
  <2> HIDE DEF S
  <2>7. Nat \subseteq S
    BY <2>5, <2>6, Induct
  <2>8. \A k \in 1 .. n : IsSequence(g[k]) /\ Len(g[k]) \in Nat
    <3> TAKE k \in 1 .. n
    <3>1. IsSequence(g[k])
      BY <2>7 DEF S
    <3> QED
      BY <3>1, SequenceIs
  <2>9. ASSUME NEW c, IsSequence(c), NEW p \in Nat \ {0}, Stands(c, p, g[n])
        PROVE  \E q : SpreadOver(c, q, s, n, p, p + Len(g[n]))
    <3>1. PICK q : q = [i \in 1 .. n + 1 |-> IF i = 1 THEN p ELSE p + Len(g[i - 1])]
      OBVIOUS
    <3> DEFINE T == {k \in Nat : k <= n /\ (0 < k => Stands(c, p, g[k]))
                                   => \A i \in 1 .. k : Stands(c, q[i], s[i]) /\ q[i + 1] = q[i] + Len(s[i])}
    <3>2. q[1] = p /\ \A k \in 1 .. n : q[k + 1] = p + Len(g[k])
      <4>1. ASSUME NEW k \in 1 .. n PROVE q[k + 1] = p + Len(g[k])
        <5>1. k + 1 \in 1 .. n + 1 /\ k + 1 # 1 /\ (k + 1) - 1 = k
          OBVIOUS
        <5> QED
          BY <3>1, <5>1
      <4> QED
        BY <3>1, <4>1
    <3>3. ASSUME NEW k \in Nat, k \in T, k < n, Stands(c, p, g[k + 1])
          PROVE  \A i \in 1 .. k + 1 : Stands(c, q[i], s[i]) /\ q[i + 1] = q[i] + Len(s[i])
      <4>1. CASE k = 0
        <5>1. 1 \in 1 .. n /\ q[1] = p /\ q[1 + 1] = p + Len(g[1]) /\ 1 .. k + 1 = {1}
          BY <1>2, <3>2, <4>1
        <5>2. Stands(c, p, s[1]) /\ q[1 + 1] = p + Len(s[1])
          BY <2>3, <3>3, <4>1, <5>1
        <5> QED
          BY <5>1, <5>2
      <4>2. CASE 0 < k
        <5>1. k \in 1 .. n /\ k + 1 \in 1 .. n /\ g[k + 1] = g[k] \o s[k + 1]
          BY <2>4, <3>3, <4>2
        <5>2. PICK u, v : u = g[k] /\ v = s[k + 1]
          OBVIOUS
        <5>3. IsSequence(u) /\ IsSequence(v) /\ Stands(c, p, u \o v)
          BY <2>8, <3>3, <5>1, <5>2
        <5>4. Stands(c, p, u) /\ Stands(c, p + Len(u), v) /\ p + Len(u \o v) = (p + Len(u)) + Len(v)
          BY <2>9, <5>3, StandsApart
        <5>5. q[k + 1] = p + Len(u) /\ q[(k + 1) + 1] = p + Len(u \o v)
          BY <3>2, <5>1, <5>2
        <5>6. Stands(c, q[k + 1], v) /\ q[(k + 1) + 1] = q[k + 1] + Len(v)
          BY <5>4, <5>5
        <5>7. \A i \in 1 .. k : Stands(c, q[i], s[i]) /\ q[i + 1] = q[i] + Len(s[i])
          BY <3>3, <5>2, <5>4
        <5>8. ASSUME NEW i \in 1 .. k + 1
              PROVE  Stands(c, q[i], s[i]) /\ q[i + 1] = q[i] + Len(s[i])
          <6>1. i \in 1 .. k \/ i = k + 1
            OBVIOUS
          <6> QED
            BY <5>2, <5>6, <5>7, <6>1, Zenon
        <5> QED
          BY <5>8
      <4> QED
        BY <4>1, <4>2
    <3>4. 0 \in T
      OBVIOUS
    <3>5. ASSUME NEW k \in Nat, k \in T PROVE k + 1 \in T
      <4>1. ASSUME k + 1 <= n, 0 < k + 1 => Stands(c, p, g[k + 1])
            PROVE  \A i \in 1 .. k + 1 : Stands(c, q[i], s[i]) /\ q[i + 1] = q[i] + Len(s[i])
        <5>1. k < n /\ Stands(c, p, g[k + 1])
          BY <4>1
        <5> HIDE DEF T
        <5> QED
          BY <3>3, <3>5, <5>1
      <4> QED
        BY <4>1
    <3> HIDE DEF T
    <3>6. Nat \subseteq T
      BY <3>4, <3>5, Induct
    <3>7. \A i \in 1 .. n : Stands(c, q[i], s[i]) /\ q[i + 1] = q[i] + Len(s[i])
      BY <2>9, <3>6 DEF T
    <3>8. q \in [1 .. n + 1 -> Nat \ {0}]
      <4>1. ASSUME NEW i \in 1 .. n + 1, i # 1 PROVE p + Len(g[i - 1]) \in Nat \ {0}
        BY <2>8, <4>1
      <4> QED
        BY <3>1, <4>1
    <3>9. q[n + 1] = p + Len(g[n])
      BY <1>2, <3>2
    <3> QED
      BY <3>2, <3>7, <3>8, <3>9 DEF SpreadOver
  <2> QED
    BY <1>2, <2>1, <2>8, <2>9
<1> QED
  BY <1>1, <1>2

\* Two items in front.
LEMMA StandsSecond ==
  ASSUME NEW c, NEW p \in Nat, IsSequence(c), NEW x, NEW y, NEW t, IsSequence(t),
         Stands(c, p, <<x, y>> \o t)
  PROVE  /\ c[p] = x /\ c[p + 1] = y /\ p + 1 <= Len(c)
         /\ Stands(c, p + 2, t)
         /\ p + Len(<<x, y>> \o t) = (p + 2) + Len(t)
<1>1. PICK s : s = <<x, y>>
  OBVIOUS
<1>2. IsSequence(s) /\ Len(s) = 2 /\ s[1] = x /\ s[2] = y
  <2>1. s \in Seq({x, y})
    BY <1>1
  <2> QED
    BY <1>1, <2>1 DEF IsSequence
<1>3. Stands(c, p, s \o t)
  BY <1>1
<1>4. /\ Stands(c, p, s) /\ Stands(c, p + Len(s), t)
      /\ p + Len(s \o t) = (p + Len(s)) + Len(t)
  <2>1. IsSequence(s)
    BY <1>2
  <2> QED
    BY <2>1, <1>3, StandsApart
<1>5. c[p] = x /\ c[p + 1] = y /\ p + 1 <= Len(c)
  <2>1. p + 2 - 1 <= Len(c) /\ \A i \in 1 .. 2 : c[p + i - 1] = s[i]
    BY <1>2, <1>4 DEF Stands
  <2>2. c[p + 1 - 1] = s[1] /\ c[p + 2 - 1] = s[2]
    BY <2>1
  <2>3. p + 1 - 1 = p /\ p + 2 - 1 = p + 1
    OBVIOUS
  <2> QED
    BY <1>2, <2>1, <2>2, <2>3
<1>6. Stands(c, p + 2, t) /\ p + Len(s \o t) = (p + 2) + Len(t)
  BY <1>2, <1>4
<1> QED
  BY <1>1, <1>5, <1>6

\* A tuple of one, two or three is a sequence; and so is what follows it.
LEMMA TuplesAre ==
  ASSUME NEW x, NEW y, NEW z
  PROVE  /\ IsSequence(<<x>>) /\ Len(<<x>>) = 1
         /\ IsSequence(<<x, y>>) /\ Len(<<x, y>>) = 2
         /\ IsSequence(<<x, y, z>>) /\ Len(<<x, y, z>>) = 3
         /\ <<x, y, z>>[1] = x /\ <<x, y, z>>[2] = y /\ <<x, y, z>>[3] = z
<1>1. <<x>> \in Seq({x, y, z}) /\ <<x, y>> \in Seq({x, y, z}) /\ <<x, y, z>> \in Seq({x, y, z})
  OBVIOUS
<1> QED
  BY <1>1 DEF IsSequence

\* A count and as many items stand at p of c.
NamesIn(c, p, list) ==
  /\ p + Len(list) <= Len(c) /\ c[p] = Len(list)
  /\ \A i \in 1 .. Len(list) : c[p + i] = list[i]

\* A list with its length in front.
LEMMA NamesStand ==
  ASSUME NEW list, IsSequence(list)
  PROVE  /\ IsSequence(Names(list))
         /\ \A c : \A p \in Nat :
              IsSequence(c) /\ Stands(c, p, Names(list))
                => NamesIn(c, p, list) /\ p + Len(Names(list)) = (p + 1) + Len(list)
<1>1. Names(list) = <<Len(list)>> \o list
  BY DEF Names
<1>2. IsSequence(<<Len(list)>>) /\ IsSequence(<<Len(list)>> \o list)
  BY TuplesAre, ConcatIs, Zenon
<1>3. ASSUME NEW c, NEW p \in Nat, IsSequence(c), Stands(c, p, <<Len(list)>> \o list)
      PROVE  NamesIn(c, p, list) /\ p + Len(<<Len(list)>> \o list) = (p + 1) + Len(list)
  <2>1. PICK x : x = Len(list)
    OBVIOUS
  <2>2. c[p] = x /\ p <= Len(c) /\ Stands(c, p + 1, list) /\ p + Len(<<x>> \o list) = (p + 1) + Len(list)
    BY <1>3, <2>1, StandsFirst
  <2>3. x \in Nat
    BY <2>1, SequenceIs
  <2>4. (p + 1) + x - 1 <= Len(c) /\ \A i \in 1 .. x : c[(p + 1) + i - 1] = list[i]
    BY <2>1, <2>2 DEF Stands
  <2>5. (p + 1) + x - 1 = p + x
    BY <2>3
  <2>6. ASSUME NEW i \in 1 .. x PROVE c[p + i] = list[i]
    <3>1. (p + 1) + i - 1 = p + i
      OBVIOUS
    <3> QED
      BY <2>4, <3>1
  <2> QED
    BY <2>1, <2>2, <2>4, <2>5, <2>6 DEF NamesIn
<1> QED
  BY <1>1, <1>2, <1>3, Zenon

\* A tensor and its name stand from p to e.
InitializerIn(c, p, name, t, e) ==
  /\ c[p] = name
  /\ NamesIn(c, p + 1, t.dims)
  /\ \A i \in 1 .. Len(t.data) : c[p + 1 + Len(t.dims) + i] = t.data[i]
  /\ e = p + 2 + Len(t.dims) + Len(t.data) /\ e <= Len(c) + 1

\* What is written for a tensor.
LEMMA InitializerStands ==
  ASSUME NEW name, NEW t, IsTensor(t)
  PROVE  /\ IsSequence(EncodeInitializer(name, t))
         /\ \A c : \A p \in Nat :
              IsSequence(c) /\ Stands(c, p, EncodeInitializer(name, t))
                => InitializerIn(c, p, name, t, p + Len(EncodeInitializer(name, t)))
<1>1. PICK dims, data : dims = t.dims /\ data = t.data
  OBVIOUS
<1>2. IsSequence(dims) /\ IsSequence(data)
  BY <1>1 DEF IsTensor, IsSequence
<1>3. PICK names : names = Names(dims)
  OBVIOUS
<1>4. IsSequence(names)
  BY <1>2, <1>3, NamesStand, Zenon
<1>5. PICK u : u = <<name>> \o names
  OBVIOUS
<1>6. IsSequence(u) /\ IsSequence(u \o data)
  <2>1. IsSequence(<<name>>)
    BY TuplesAre, Zenon
  <2>2. IsSequence(u)
    BY <1>4, <1>5, <2>1, ConcatIs, Zenon
  <2> QED
    BY <1>2, <2>2, ConcatIs, Zenon
<1>7. EncodeInitializer(name, t) = u \o data
  BY <1>1, <1>3, <1>5 DEF EncodeInitializer
<1>8. ASSUME NEW c, NEW p \in Nat, IsSequence(c), Stands(c, p, u \o data)
      PROVE  InitializerIn(c, p, name, t, p + Len(u \o data))
  <2>1. /\ Stands(c, p, u) /\ Stands(c, p + Len(u), data) /\ p + Len(u) \in Nat
        /\ p + Len(u \o data) = (p + Len(u)) + Len(data)
    BY <1>2, <1>6, <1>8, StandsApart
  <2>2. Stands(c, p, <<name>> \o names)
    BY <1>5, <2>1
  <2>3. c[p] = name /\ Stands(c, p + 1, names) /\ p + Len(<<name>> \o names) = (p + 1) + Len(names)
    BY <1>4, <1>8, <2>2, StandsFirst
  <2>4. p + 1 \in Nat
    OBVIOUS
  <2>5. NamesIn(c, p + 1, dims) /\ (p + 1) + Len(names) = ((p + 1) + 1) + Len(dims)
    BY <1>2, <1>3, <1>8, <2>3, <2>4, NamesStand
  <2>6. PICK m, n, k : m = Len(dims) /\ n = Len(data) /\ k = Len(c)
    OBVIOUS
  <2>7. m \in Nat /\ n \in Nat /\ k \in Nat
    BY <1>2, <1>8, <2>6, SequenceIs
  <2>8. p + Len(u) = p + 2 + m
    BY <1>5, <2>3, <2>5, <2>6, <2>7
  <2>9. (p + 2 + m) + n - 1 <= k /\ \A i \in 1 .. n : c[(p + 2 + m) + i - 1] = data[i]
    BY <2>1, <2>6, <2>8 DEF Stands
  <2>10. ASSUME NEW i \in 1 .. n PROVE c[p + 1 + m + i] = data[i]
    <3>1. (p + 2 + m) + i - 1 = p + 1 + m + i
      BY <2>7
    <3> QED
      BY <2>9, <3>1
  <2>11. p + 2 + m + n <= k + 1 /\ p + Len(u \o data) = p + 2 + m + n
    <3>1. p + 2 + m + n <= k + 1
      BY <2>7, <2>9
    <3>2. p + Len(u \o data) = (p + 2 + m) + n
      BY <2>1, <2>6, <2>8, Zenon
    <3> QED
      BY <2>7, <3>1, <3>2
  <2> QED
    BY <1>1, <2>3, <2>5, <2>6, <2>10, <2>11 DEF InitializerIn
<1> QED
  BY <1>6, <1>7, <1>8

\* An attribute stands from p to e.
AttributeIn(c, p, name, attr, e) ==
  /\ p + 1 <= Len(c) /\ c[p] = name /\ c[p + 1] = attr.tag
  /\ attr.tag = "ints" => NamesIn(c, p + 2, attr.value) /\ e = p + 3 + Len(attr.value)
  /\ attr.tag # "ints" => p + 2 <= Len(c) /\ c[p + 2] = attr.value /\ e = p + 3

\* What is written for an attribute.
LEMMA AttributeStands ==
  ASSUME NEW name, NEW attr, IsAttribute(attr)
  PROVE  /\ IsSequence(EncodeAttribute(name, attr))
         /\ \A c : \A p \in Nat :
              IsSequence(c) /\ Stands(c, p, EncodeAttribute(name, attr))
                => AttributeIn(c, p, name, attr, p + Len(EncodeAttribute(name, attr)))
<1>1. PICK tag, value : tag = attr.tag /\ value = attr.value
  OBVIOUS
<1>2. PICK rest : rest = IF tag = "ints" THEN Names(value) ELSE <<value>>
  OBVIOUS
<1>3. tag = "ints" => IsSequence(value) /\ rest = Names(value)
  BY <1>1, <1>2 DEF IsAttribute, IsSequence
<1>4. tag # "ints" => rest = <<value>> /\ IsSequence(<<value>>)
  BY <1>2, TuplesAre
<1>5. IsSequence(rest)
  BY <1>3, <1>4, NamesStand, Zenon
<1>6. IsSequence(<<name, tag>> \o rest)
  <2>1. IsSequence(<<name, tag>>)
    BY TuplesAre, Zenon
  <2> QED
    BY <1>5, <2>1, ConcatIs, Zenon
<1>7. EncodeAttribute(name, attr) = <<name, tag>> \o rest
  BY <1>1, <1>2 DEF EncodeAttribute
<1>8. ASSUME NEW c, NEW p \in Nat, IsSequence(c), Stands(c, p, <<name, tag>> \o rest)
      PROVE  AttributeIn(c, p, name, attr, p + Len(<<name, tag>> \o rest))
  <2>1. PICK e : e = p + Len(<<name, tag>> \o rest)
    OBVIOUS
  <2>2. /\ c[p] = name /\ c[p + 1] = tag /\ p + 1 <= Len(c) /\ Stands(c, p + 2, rest)
        /\ e = (p + 2) + Len(rest)
    BY <1>5, <1>8, <2>1, StandsSecond
  <2>3. p + 2 \in Nat
    OBVIOUS
  <2>4. ASSUME tag = "ints"
        PROVE  NamesIn(c, p + 2, value) /\ e = p + 3 + Len(value)
    <3>1. NamesIn(c, p + 2, value) /\ (p + 2) + Len(rest) = ((p + 2) + 1) + Len(value)
      BY <1>3, <1>8, <2>2, <2>3, <2>4, NamesStand
    <3>2. Len(value) \in Nat
      BY <1>3, <2>4, SequenceIs
    <3> QED
      BY <2>2, <3>1, <3>2
  <2>5. ASSUME tag # "ints"
        PROVE  p + 2 <= Len(c) /\ c[p + 2] = value /\ e = p + 3
    <3>1. rest = <<value>> /\ Len(rest) = 1 /\ rest[1] = value
      BY <1>4, <2>5
    <3>2. (p + 2) + 1 - 1 <= Len(c) /\ c[(p + 2) + 1 - 1] = rest[1]
      BY <2>2, <3>1 DEF Stands
    <3>3. (p + 2) + 1 - 1 = p + 2 /\ (p + 2) + 1 = p + 3
      OBVIOUS
    <3> QED
      BY <2>2, <3>1, <3>2, <3>3
  <2>6. AttributeIn(c, p, name, attr, e)
    BY <1>1, <2>2, <2>4, <2>5 DEF AttributeIn
  <2> QED
    BY <2>1, <2>6
<1> QED
  BY <1>6, <1>7, <1>8

\* The members of a set, each at one place.
Listing(s, S) ==
  /\ s \in Seq(S)
  /\ \A x \in S : \E i \in 1 .. Len(s) : s[i] = x
  /\ \A i, j \in 1 .. Len(s) : s[i] = s[j] => i = j

\* Attributes in the order o stand from p to e, at the places b.
AttributesIn(c, p, attrs, o, b, e) ==
  /\ p <= Len(c) /\ c[p] = Len(o)
  /\ b \in [1 .. Len(o) + 1 -> Nat \ {0}] /\ b[1] = p + 1 /\ b[Len(o) + 1] = e
  /\ \A j \in 1 .. Len(o) : AttributeIn(c, b[j], o[j], attrs[o[j]], b[j + 1])

\* What is written for the attributes of a node.
LEMMA AttributesStand ==
  ASSUME NEW attrs, NEW o, Listing(o, DOMAIN attrs), \A x \in DOMAIN attrs : IsAttribute(attrs[x])
  PROVE  /\ IsSequence(EncodeAttributes(attrs, o))
         /\ \A c : \A p \in Nat :
              IsSequence(c) /\ Stands(c, p, EncodeAttributes(attrs, o))
                => \E b : AttributesIn(c, p, attrs, o, b, p + Len(EncodeAttributes(attrs, o)))
<1>1. PICK s, n : s = [i \in DOMAIN o |-> EncodeAttribute(o[i], attrs[o[i]])] /\ n = Len(o)
  OBVIOUS
<1>2. n \in Nat /\ DOMAIN o = 1 .. n /\ \A i \in 1 .. n : o[i] \in DOMAIN attrs
  BY <1>1 DEF Listing
<1>3. \A i \in 1 .. n : s[i] = EncodeAttribute(o[i], attrs[o[i]]) /\ IsSequence(s[i])
  BY <1>1, <1>2, AttributeStands
<1>4. IsSequence(s) /\ Len(s) = n
  <2>1. s = [i \in 1 .. n |-> s[i]]
    BY <1>1, <1>2
  <2> QED
    BY <1>2, <2>1, Tabulated
<1>5. PICK flat : flat = FlattenSeq(s)
  OBVIOUS
<1>6. /\ IsSequence(flat)
      /\ \A c : \A p \in Nat \ {0} : IsSequence(c) /\ Stands(c, p, flat)
                                       => \E q : SpreadOver(c, q, s, n, p, p + Len(flat))
  BY <1>2, <1>3, <1>4, <1>5, FlattenSpreads
<1>7. EncodeAttributes(attrs, o) = <<n>> \o flat
  BY <1>1, <1>5 DEF EncodeAttributes
<1>8. IsSequence(<<n>> \o flat)
  <2>1. IsSequence(<<n>>)
    BY TuplesAre, Zenon
  <2> QED
    BY <1>6, <2>1, ConcatIs, Zenon
<1>9. ASSUME NEW c, NEW p \in Nat, IsSequence(c), Stands(c, p, <<n>> \o flat)
      PROVE  \E b : AttributesIn(c, p, attrs, o, b, p + Len(<<n>> \o flat))
  <2>1. PICK e : e = p + Len(<<n>> \o flat)
    OBVIOUS
  <2>2. c[p] = n /\ p <= Len(c) /\ Stands(c, p + 1, flat) /\ e = (p + 1) + Len(flat)
    BY <1>6, <1>9, <2>1, StandsFirst
  <2>3. p + 1 \in Nat \ {0}
    OBVIOUS
  <2>4. PICK b : SpreadOver(c, b, s, n, p + 1, e)
    BY <1>6, <1>9, <2>2, <2>3
  <2>5. ASSUME NEW j \in 1 .. n
        PROVE  AttributeIn(c, b[j], o[j], attrs[o[j]], b[j + 1])
    <3>1. b[j] \in Nat /\ Stands(c, b[j], s[j]) /\ b[j + 1] = b[j] + Len(s[j])
      BY <1>2, <2>4 DEF SpreadOver
    <3>2. PICK v, x : v = o[j] /\ x = attrs[v]
      OBVIOUS
    <3>3. IsAttribute(x) /\ s[j] = EncodeAttribute(v, x)
      BY <1>2, <1>3, <3>2
    <3>4. AttributeIn(c, b[j], v, x, b[j] + Len(EncodeAttribute(v, x)))
      BY <1>9, <3>1, <3>3, AttributeStands
    <3> QED
      BY <3>1, <3>2, <3>3, <3>4
  <2>6. AttributesIn(c, p, attrs, o, b, e)
    BY <1>1, <2>2, <2>4, <2>5 DEF AttributesIn, SpreadOver
  <2> QED
    BY <2>1, <2>6
<1> QED
  BY <1>7, <1>8, <1>9

\* Where the attributes of a node start, when the node starts at p.
AttributesFrom(p, n) == p + 4 + Len(n.inputs) + Len(n.outputs)

\* A node stands from p to e, its attributes in the order o and at the places b.
NodeIn(c, p, name, n, o, b, e) ==
  /\ p + 1 <= Len(c) /\ c[p] = name /\ c[p + 1] = n.op
  /\ NamesIn(c, p + 2, n.inputs) /\ NamesIn(c, p + 3 + Len(n.inputs), n.outputs)
  /\ AttributesIn(c, AttributesFrom(p, n), n.attrs, o, b, e)

\* What is written for a node.
LEMMA NodeStands ==
  ASSUME NEW name, NEW n, IsNode(n), NEW o, Listing(o, DOMAIN n.attrs)
  PROVE  /\ IsSequence(EncodeNode(name, n, o))
         /\ \A c : \A p \in Nat :
              IsSequence(c) /\ Stands(c, p, EncodeNode(name, n, o))
                => \E b : NodeIn(c, p, name, n, o, b, p + Len(EncodeNode(name, n, o)))
<1>1. PICK ins, outs, attrs : ins = n.inputs /\ outs = n.outputs /\ attrs = n.attrs
  OBVIOUS
<1>2. /\ IsSequence(ins) /\ IsSequence(outs) /\ Listing(o, DOMAIN attrs)
      /\ \A x \in DOMAIN attrs : IsAttribute(attrs[x])
  BY <1>1 DEF IsNode, IsSequence
<1>3. PICK s, t, u : s = Names(ins) /\ t = Names(outs) /\ u = EncodeAttributes(attrs, o)
  OBVIOUS
<1>4. IsSequence(s) /\ IsSequence(t) /\ IsSequence(u)
  <2>1. IsSequence(s) /\ IsSequence(t)
    BY <1>2, <1>3, NamesStand, Zenon
  <2>2. IsSequence(u)
    BY <1>2, <1>3, AttributesStand, Zenon
  <2> QED
    BY <2>1, <2>2
<1>5. PICK v, w : v = <<name, n.op>> \o s /\ w = v \o t
  OBVIOUS
<1>6. IsSequence(v) /\ IsSequence(w) /\ IsSequence(w \o u)
  <2>1. IsSequence(<<name, n.op>>)
    BY TuplesAre, Zenon
  <2>2. IsSequence(v)
    BY <1>4, <1>5, <2>1, ConcatIs, Zenon
  <2>3. IsSequence(w)
    BY <1>4, <1>5, <2>2, ConcatIs, Zenon
  <2> QED
    BY <1>4, <2>2, <2>3, ConcatIs, Zenon
<1>7. EncodeNode(name, n, o) = w \o u
  BY <1>1, <1>3, <1>5, Zenon DEF EncodeNode
<1>8. ASSUME NEW c, NEW p \in Nat, IsSequence(c), Stands(c, p, w \o u)
      PROVE  \E b : NodeIn(c, p, name, n, o, b, p + Len(w \o u))
  <2>1. PICK e, d, f : e = p + Len(w \o u) /\ d = p + Len(w) /\ f = p + Len(v)
    OBVIOUS
  <2>2. Stands(c, p, w) /\ Stands(c, d, u) /\ d \in Nat /\ e = d + Len(u)
    BY <1>4, <1>6, <1>8, <2>1, StandsApart
  <2>3. Stands(c, p, v \o t)
    BY <1>5, <2>2
  <2>4. Stands(c, p, v) /\ Stands(c, f, t) /\ f \in Nat /\ d = f + Len(t)
    <3>1. /\ Stands(c, p, v) /\ Stands(c, p + Len(v), t) /\ p + Len(v) \in Nat
          /\ p + Len(v \o t) = (p + Len(v)) + Len(t)
      BY <1>4, <1>6, <1>8, <2>3, StandsApart
    <3> QED
      BY <1>5, <2>1, <3>1
  <2>5. Stands(c, p, <<name, n.op>> \o s)
    BY <1>5, <2>4
  <2>6. /\ c[p] = name /\ c[p + 1] = n.op /\ p + 1 <= Len(c)
        /\ Stands(c, p + 2, s) /\ f = (p + 2) + Len(s)
    <3>1. /\ c[p] = name /\ c[p + 1] = n.op /\ p + 1 <= Len(c) /\ Stands(c, p + 2, s)
          /\ p + Len(<<name, n.op>> \o s) = (p + 2) + Len(s)
      <4>1. PICK x : x = n.op
        OBVIOUS
      <4>2. Stands(c, p, <<name, x>> \o s)
        BY <2>5, <4>1
      <4>3. /\ c[p] = name /\ c[p + 1] = x /\ p + 1 <= Len(c) /\ Stands(c, p + 2, s)
            /\ p + Len(<<name, x>> \o s) = (p + 2) + Len(s)
        BY <1>4, <1>8, <4>2, StandsSecond
      <4> QED
        BY <4>1, <4>3
    <3> QED
      BY <1>5, <2>1, <3>1
  <2>7. p + 2 \in Nat
    OBVIOUS
  <2>8. NamesIn(c, p + 2, ins) /\ f = (p + 2) + 1 + Len(ins)
    <3>1. NamesIn(c, p + 2, ins) /\ (p + 2) + Len(s) = ((p + 2) + 1) + Len(ins)
      BY <1>2, <1>3, <1>8, <2>6, <2>7, NamesStand
    <3> QED
      BY <2>6, <3>1
  <2>9. NamesIn(c, f, outs) /\ d = f + 1 + Len(outs)
    <3>1. NamesIn(c, f, outs) /\ f + Len(t) = (f + 1) + Len(outs)
      BY <1>2, <1>3, <1>8, <2>4, NamesStand
    <3> QED
      BY <2>4, <3>1
  <2>10. f = p + 3 + Len(ins) /\ d = p + 4 + Len(ins) + Len(outs)
    <3>1. Len(ins) \in Nat /\ Len(outs) \in Nat
      BY <1>2, SequenceIs
    <3> QED
      BY <2>8, <2>9, <3>1
  <2>11. PICK b : AttributesIn(c, d, attrs, o, b, e)
    <3>1. \E b : AttributesIn(c, d, attrs, o, b, d + Len(u))
      BY <1>2, <1>3, <1>8, <2>2, AttributesStand
    <3> QED
      BY <2>2, <3>1
  <2>12. NodeIn(c, p, name, n, o, b, e)
    BY <1>1, <2>6, <2>8, <2>9, <2>10, <2>11 DEF NodeIn, AttributesFrom
  <2> QED
    BY <2>1, <2>12
<1> QED
  BY <1>6, <1>7, <1>8

\* What the file holds when m was saved: the content, the orders of the
\* initializers and of each node's attributes, and where the initializers, the
\* nodes and each node's attributes start.
Layout(m, L) ==
  /\ IsSequence(L.c) /\ Listing(L.order, DOMAIN m.initializers)
  /\ \A x \in DOMAIN m.node : Listing(L.attrOrder[x], DOMAIN m.node[x].attrs)
  /\ 3 <= Len(L.c) /\ L.c[1] = Magic /\ L.c[2] = Version /\ L.c[3] = Len(L.order)
  /\ L.q \in [1 .. Len(L.order) + 1 -> Nat \ {0}] /\ L.q[1] = 4
  /\ \A i \in 1 .. Len(L.order) :
       InitializerIn(L.c, L.q[i], L.order[i], m.initializers[L.order[i]], L.q[i + 1])
  /\ L.q[Len(L.order) + 1] <= Len(L.c) /\ L.c[L.q[Len(L.order) + 1]] = Len(m.order)
  /\ L.r \in [1 .. Len(m.order) + 1 -> Nat \ {0}] /\ L.r[1] = L.q[Len(L.order) + 1] + 1
  /\ \A k \in 1 .. Len(m.order) :
       NodeIn(L.c, L.r[k], m.order[k], m.node[m.order[k]], L.attrOrder[m.order[k]], L.a[k], L.r[k + 1])
  /\ NamesIn(L.c, L.r[Len(m.order) + 1], m.inputs)
  /\ NamesIn(L.c, L.r[Len(m.order) + 1] + 1 + Len(m.inputs), m.outputs)
  /\ Len(L.c) = L.r[Len(m.order) + 1] + 1 + Len(m.inputs) + Len(m.outputs)

\* An injection of a finite set's size into it lists it.
LEMMA SetToSeqsLists ==
  ASSUME NEW S, IsFiniteSet(S), NEW s \in SetToSeqs(S)
  PROVE  Listing(s, S)
<1>1. PICK n : n = Cardinality(S) /\ n \in Nat
  BY FS_CardinalityType
<1>2. s \in [1 .. n -> S] /\ \A i, j \in 1 .. n : i # j => s[i] # s[j]
  <2>1. s \in {f \in [1 .. n -> S] : \A i, j \in 1 .. n : i # j => f[i] # f[j]}
    BY <1>1, Zenon DEF SetToSeqs
  <2> QED
    BY <2>1
<1>3. s \in Seq(S) /\ Len(s) = n
  BY <1>1, <1>2
<1>4. \A x \in S : \E i \in 1 .. n : s[i] = x
  <2>1. IsFiniteSet(1 .. n) /\ Cardinality(1 .. n) = Cardinality(S)
    BY <1>1, FS_Interval
  <2>2. s \in Injection(1 .. n, S)
    BY <1>2 DEF Injection, IsInjective
  <2>3. s \in Surjection(1 .. n, S)
    BY <2>1, <2>2, FS_Injection
  <2> QED
    BY <2>3 DEF Surjection
<1> QED
  BY <1>2, <1>3, <1>4 DEF Listing

\* What a saved file holds is laid out.
LEMMA LayoutExists ==
  ASSUME NEW m, IsModel(m), NEW order \in SetToSeqs(DOMAIN m.initializers),
         NEW attrOrder \in AttrOrders(m)
  PROVE  \E L : Layout(m, L) /\ L.c = Encoded(m, order, attrOrder)
<1>1. PICK N, M : N = Len(order) /\ M = Len(m.order)
  OBVIOUS
<1>2. Listing(order, DOMAIN m.initializers)
  BY SetToSeqsLists DEF IsModel
<1>3. \A x \in DOMAIN m.node : Listing(attrOrder[x], DOMAIN m.node[x].attrs)
  <2> TAKE x \in DOMAIN m.node
  <2>1. PICK S : S = DOMAIN m.node[x].attrs
    OBVIOUS
  <2>2. attrOrder[x] \in SetToSeqs(S)
    BY <2>1 DEF AttrOrders
  <2>3. IsNode(m.node[x])
    BY DEF IsModel
  <2>4. IsFiniteSet(S)
    BY <2>1, <2>3 DEF IsNode
  <2> QED
    BY <2>1, <2>2, <2>4, SetToSeqsLists
<1>4. /\ N \in Nat /\ DOMAIN order = 1 .. N /\ \A i \in 1 .. N : order[i] \in DOMAIN m.initializers
      /\ M \in Nat /\ DOMAIN m.order = 1 .. M /\ \A k \in 1 .. M : m.order[k] \in DOMAIN m.node
  BY <1>1, <1>2 DEF Listing, IsModel
<1>5. /\ \A x \in DOMAIN m.initializers : IsTensor(m.initializers[x])
      /\ \A x \in DOMAIN m.node : IsNode(m.node[x])
  BY DEF IsModel
<1>6. PICK s, t : /\ s = [i \in DOMAIN order |-> EncodeInitializer(order[i], m.initializers[order[i]])]
                  /\ t = [i \in DOMAIN m.order |->
                            EncodeNode(m.order[i], m.node[m.order[i]], attrOrder[m.order[i]])]
  OBVIOUS
<1>7. \A i \in 1 .. N : IsSequence(s[i]) /\ s[i] = EncodeInitializer(order[i], m.initializers[order[i]])
  BY <1>4, <1>5, <1>6, InitializerStands
<1>8. \A i \in 1 .. M : /\ IsSequence(t[i])
                        /\ t[i] = EncodeNode(m.order[i], m.node[m.order[i]], attrOrder[m.order[i]])
  <2> TAKE i \in 1 .. M
  <2>1. PICK v, n, o : v = m.order[i] /\ n = m.node[v] /\ o = attrOrder[v]
    OBVIOUS
  <2>2. v \in DOMAIN m.node /\ IsNode(n) /\ Listing(o, DOMAIN n.attrs)
    BY <1>3, <1>4, <1>5, <2>1
  <2>3. t[i] = EncodeNode(v, n, o)
    BY <1>4, <1>6, <2>1
  <2>4. IsSequence(EncodeNode(v, n, o))
    BY <2>2, NodeStands, Zenon
  <2> QED
    BY <2>1, <2>3, <2>4
<1>9. IsSequence(s) /\ Len(s) = N /\ IsSequence(t) /\ Len(t) = M
  <2>1. s = [i \in 1 .. N |-> s[i]] /\ t = [i \in 1 .. M |-> t[i]]
    BY <1>4, <1>6
  <2> QED
    BY <1>4, <2>1, Tabulated
<1>10. PICK f, g : f = FlattenSeq(s) /\ g = FlattenSeq(t)
  OBVIOUS
<1>11. /\ IsSequence(f) /\ IsSequence(g)
       /\ \A c : \A p \in Nat \ {0} :
            /\ IsSequence(c) /\ Stands(c, p, f) => \E q : SpreadOver(c, q, s, N, p, p + Len(f))
            /\ IsSequence(c) /\ Stands(c, p, g) => \E q : SpreadOver(c, q, t, M, p, p + Len(g))
  <2>1. /\ IsSequence(f)
        /\ \A c : \A p \in Nat \ {0} :
            IsSequence(c) /\ Stands(c, p, f) => \E q : SpreadOver(c, q, s, N, p, p + Len(f))
    BY <1>4, <1>7, <1>9, <1>10, FlattenSpreads
  <2>2. /\ IsSequence(g)
        /\ \A c : \A p \in Nat \ {0} :
            IsSequence(c) /\ Stands(c, p, g) => \E q : SpreadOver(c, q, t, M, p, p + Len(g))
    BY <1>4, <1>8, <1>9, <1>10, FlattenSpreads
  <2> QED
    BY <2>1, <2>2, Zenon
<1>12. PICK ins, outs : ins = Names(m.inputs) /\ outs = Names(m.outputs)
  OBVIOUS
<1>13. IsSequence(m.inputs) /\ IsSequence(m.outputs) /\ IsSequence(ins) /\ IsSequence(outs)
  <2>1. IsSequence(m.inputs) /\ IsSequence(m.outputs)
    BY DEF IsModel, IsSequence
  <2> QED
    BY <1>12, <2>1, NamesStand, Zenon
<1>14. PICK c1, c2, c3, c4, c : /\ c1 = <<Magic, Version, N>> \o f /\ c2 = c1 \o <<M>> /\ c3 = c2 \o g
                                /\ c4 = c3 \o ins /\ c = c4 \o outs
  OBVIOUS
<1>15. c = Encoded(m, order, attrOrder)
  BY <1>1, <1>6, <1>10, <1>12, <1>14, Zenon DEF Encoded
<1>16. /\ IsSequence(<<Magic, Version, N>>) /\ IsSequence(<<M>>) /\ IsSequence(c1) /\ IsSequence(c2)
       /\ IsSequence(c3) /\ IsSequence(c4) /\ IsSequence(c)
  <2>1. IsSequence(<<Magic, Version, N>>) /\ IsSequence(<<M>>)
    BY TuplesAre, Zenon
  <2>2. IsSequence(c1)
    BY <1>11, <1>14, <2>1, ConcatIs, Zenon
  <2>3. IsSequence(c2)
    BY <1>14, <2>1, <2>2, ConcatIs, Zenon
  <2>4. IsSequence(c3)
    BY <1>11, <1>14, <2>3, ConcatIs, Zenon
  <2>5. IsSequence(c4)
    BY <1>13, <1>14, <2>4, ConcatIs, Zenon
  <2>6. IsSequence(c)
    BY <1>13, <1>14, <2>5, ConcatIs, Zenon
  <2> QED
    BY <2>1, <2>2, <2>3, <2>4, <2>5, <2>6
<1>17. Stands(c, 1, c)
  <2>1. Len(c) \in Nat
    BY <1>16, SequenceIs
  <2>2. 1 + Len(c) - 1 <= Len(c) /\ \A i \in 1 .. Len(c) : c[1 + i - 1] = c[i]
    BY <2>1
  <2> QED
    BY <2>2 DEF Stands
<1>18. PICK p1, p2, p3, p4, p5 :
         p1 = 1 + Len(c1) /\ p2 = 1 + Len(c2) /\ p3 = 1 + Len(c3) /\ p4 = 1 + Len(c4) /\ p5 = 1 + Len(c)
  OBVIOUS
<1>19. 1 \in Nat
  OBVIOUS
<1>20. Stands(c, 1, c4) /\ Stands(c, p4, outs) /\ p4 \in Nat /\ p5 = p4 + Len(outs)
  <2>1. Stands(c, 1, c4 \o outs)
    BY <1>14, <1>17
  <2>2. /\ Stands(c, 1, c4) /\ Stands(c, 1 + Len(c4), outs) /\ 1 + Len(c4) \in Nat
        /\ 1 + Len(c4 \o outs) = (1 + Len(c4)) + Len(outs)
    <3>1. /\ IsSequence(c) /\ IsSequence(c4) /\ IsSequence(outs) /\ 1 \in Nat
          /\ Stands(c, 1, c4 \o outs)
      BY <1>13, <1>16, <2>1
    <3> QED
      BY <3>1, StandsApart
  <2> QED
    BY <1>14, <1>18, <2>2
<1>21. Stands(c, 1, c3) /\ Stands(c, p3, ins) /\ p3 \in Nat /\ p4 = p3 + Len(ins)
  <2>1. Stands(c, 1, c3 \o ins)
    BY <1>14, <1>20
  <2>2. /\ Stands(c, 1, c3) /\ Stands(c, 1 + Len(c3), ins) /\ 1 + Len(c3) \in Nat
        /\ 1 + Len(c3 \o ins) = (1 + Len(c3)) + Len(ins)
    <3>1. /\ IsSequence(c) /\ IsSequence(c3) /\ IsSequence(ins) /\ 1 \in Nat
          /\ Stands(c, 1, c3 \o ins)
      BY <1>13, <1>16, <2>1
    <3> QED
      BY <3>1, StandsApart
  <2> QED
    BY <1>14, <1>18, <2>2
<1>22. Stands(c, 1, c2) /\ Stands(c, p2, g) /\ p2 \in Nat /\ p3 = p2 + Len(g)
  <2>1. Stands(c, 1, c2 \o g)
    BY <1>14, <1>21
  <2>2. /\ Stands(c, 1, c2) /\ Stands(c, 1 + Len(c2), g) /\ 1 + Len(c2) \in Nat
        /\ 1 + Len(c2 \o g) = (1 + Len(c2)) + Len(g)
    <3>1. /\ IsSequence(c) /\ IsSequence(c2) /\ IsSequence(g) /\ 1 \in Nat
          /\ Stands(c, 1, c2 \o g)
      BY <1>11, <1>16, <2>1
    <3> QED
      BY <3>1, StandsApart
  <2> QED
    BY <1>14, <1>18, <2>2
<1>23. Stands(c, 1, c1) /\ p1 \in Nat /\ p2 = p1 + 1 /\ c[p1] = M /\ p1 <= Len(c)
  <2>1. PICK one : one = <<M>>
    OBVIOUS
  <2>2. IsSequence(one) /\ Len(one) = 1 /\ one[1] = M
    BY <2>1, TuplesAre
  <2>3. Stands(c, 1, c1 \o one)
    BY <1>14, <1>22, <2>1
  <2>4. /\ Stands(c, 1, c1) /\ Stands(c, 1 + Len(c1), one) /\ 1 + Len(c1) \in Nat
        /\ 1 + Len(c1 \o one) = (1 + Len(c1)) + Len(one)
    <3>1. IsSequence(c1) /\ IsSequence(one) /\ IsSequence(c)
      BY <1>16, <2>2
    <3> QED
      BY <1>19, <2>3, <3>1, StandsApart
  <2>5. p1 + 1 - 1 <= Len(c) /\ c[p1 + 1 - 1] = M
    BY <1>18, <2>2, <2>4 DEF Stands
  <2>6. p1 + 1 - 1 = p1
    BY <1>18, <2>4
  <2> QED
    BY <1>14, <1>18, <2>1, <2>2, <2>4, <2>5, <2>6
<1>24. /\ 3 <= Len(c) /\ c[1] = Magic /\ c[2] = Version /\ c[3] = N
       /\ Stands(c, 4, f) /\ p1 = 4 + Len(f)
  <2>1. PICK three : three = <<Magic, Version, N>>
    OBVIOUS
  <2>2. IsSequence(three) /\ Len(three) = 3 /\ three[1] = Magic /\ three[2] = Version /\ three[3] = N
    BY <2>1, TuplesAre
  <2>3. Stands(c, 1, three \o f)
    BY <1>14, <1>23, <2>1
  <2>4. /\ Stands(c, 1, three) /\ Stands(c, 1 + Len(three), f)
        /\ 1 + Len(three \o f) = (1 + Len(three)) + Len(f)
    <3>1. IsSequence(three) /\ IsSequence(f) /\ IsSequence(c)
      BY <1>11, <1>16, <2>2
    <3> QED
      BY <1>19, <2>3, <3>1, StandsApart
  <2>5. 3 <= Len(c) /\ \A i \in 1 .. 3 : c[1 + i - 1] = three[i]
    BY <2>2, <2>4 DEF Stands
  <2>6. c[1 + 1 - 1] = three[1] /\ c[1 + 2 - 1] = three[2] /\ c[1 + 3 - 1] = three[3]
    BY <2>5
  <2>7. /\ 3 <= Len(c) /\ c[1] = Magic /\ c[2] = Version /\ c[3] = N
    BY <2>2, <2>5, <2>6
  <2>8. Len(f) \in Nat
    BY <1>16
  <2>9. Stands(c, 4, f) /\ p1 = 4 + Len(f)
    BY <1>14, <1>18, <2>1, <2>2, <2>4, <2>8
  <2> QED
    BY <2>7, <2>9
<1>25. PICK q : SpreadOver(c, q, s, N, 4, p1)
  <2>1. 4 \in Nat \ {0}
    OBVIOUS
  <2> QED
    BY <1>11, <1>16, <1>24, <2>1
<1>26. PICK r : SpreadOver(c, r, t, M, p2, p3)
  <2>1. p2 \in Nat \ {0}
    BY <1>23
  <2> QED
    BY <1>11, <1>16, <1>22, <2>1
<1>27. PICK a : a = [k \in 1 .. M |-> CHOOSE b :
                       NodeIn(c, r[k], m.order[k], m.node[m.order[k]], attrOrder[m.order[k]], b, r[k + 1])]
  OBVIOUS
<1>28. ASSUME NEW k \in 1 .. M
       PROVE  NodeIn(c, r[k], m.order[k], m.node[m.order[k]], attrOrder[m.order[k]], a[k], r[k + 1])
  <2>1. PICK v, n, o, p, e : v = m.order[k] /\ n = m.node[v] /\ o = attrOrder[v] /\ p = r[k] /\ e = r[k + 1]
    OBVIOUS
  <2>2. v \in DOMAIN m.node /\ IsNode(n) /\ Listing(o, DOMAIN n.attrs) /\ t[k] = EncodeNode(v, n, o)
    BY <1>3, <1>4, <1>5, <1>8, <2>1
  <2>3. p \in Nat /\ Stands(c, p, EncodeNode(v, n, o)) /\ e = p + Len(EncodeNode(v, n, o))
    BY <1>4, <1>26, <2>1, <2>2, SMTT(30) DEF SpreadOver
  <2>4. \E b : NodeIn(c, p, v, n, o, b, e)
    <3>1. \E b : NodeIn(c, p, v, n, o, b, p + Len(EncodeNode(v, n, o)))
      BY <1>16, <2>2, <2>3, NodeStands
    <3> QED
      BY <2>3, <3>1
  <2>5. NodeIn(c, p, v, n, o, CHOOSE b : NodeIn(c, p, v, n, o, b, e), e)
    BY <2>4, Zenon
  <2>6. a[k] = CHOOSE b : NodeIn(c, p, v, n, o, b, e)
    BY <1>27, <2>1
  <2> QED
    BY <2>1, <2>5, <2>6, Zenon
<1>29. ASSUME NEW i \in 1 .. N
       PROVE  InitializerIn(c, q[i], order[i], m.initializers[order[i]], q[i + 1])
  <2>1. PICK v, x, p, e : v = order[i] /\ x = m.initializers[v] /\ p = q[i] /\ e = q[i + 1]
    OBVIOUS
  <2>2. IsTensor(x) /\ s[i] = EncodeInitializer(v, x)
    BY <1>4, <1>5, <1>7, <2>1
  <2>3. p \in Nat /\ Stands(c, p, EncodeInitializer(v, x)) /\ e = p + Len(EncodeInitializer(v, x))
    BY <1>4, <1>25, <2>1, <2>2, SMTT(30) DEF SpreadOver
  <2>4. InitializerIn(c, p, v, x, p + Len(EncodeInitializer(v, x)))
    BY <1>16, <2>2, <2>3, InitializerStands
  <2> QED
    BY <2>1, <2>3, <2>4, Zenon
<1>30. /\ q \in [1 .. N + 1 -> Nat \ {0}] /\ q[1] = 4 /\ q[N + 1] = p1
       /\ r \in [1 .. M + 1 -> Nat \ {0}] /\ r[1] = p1 + 1 /\ r[M + 1] = p3
  BY <1>23, <1>25, <1>26 DEF SpreadOver
<1>31. NamesIn(c, p3, m.inputs) /\ p4 = (p3 + 1) + Len(m.inputs)
  BY <1>12, <1>13, <1>16, <1>21, NamesStand
<1>32. NamesIn(c, p4, m.outputs) /\ p5 = (p4 + 1) + Len(m.outputs)
  BY <1>12, <1>13, <1>16, <1>20, NamesStand
<1>33. p3 + 1 + Len(m.inputs) = p4 /\ Len(c) = p3 + 1 + Len(m.inputs) + Len(m.outputs)
  <2>1. PICK i, o, k : i = Len(m.inputs) /\ o = Len(m.outputs) /\ k = Len(c)
    OBVIOUS
  <2>2. i \in Nat /\ o \in Nat /\ k \in Nat
    BY <1>13, <1>16, <2>1, SequenceIs
  <2>3. p5 = 1 + k /\ p4 = (p3 + 1) + i /\ p5 = (p4 + 1) + o
    BY <1>18, <1>31, <1>32, <2>1
  <2>4. p3 + 1 + i = p4 /\ k = p3 + 1 + i + o
    BY <1>21, <2>2, <2>3
  <2> QED
    BY <2>1, <2>4
<1>34. PICK L : L = [c |-> c, order |-> order, attrOrder |-> attrOrder, q |-> q, r |-> r, a |-> a]
  OBVIOUS
<1>35. L.c = c /\ L.order = order /\ L.attrOrder = attrOrder /\ L.q = q /\ L.r = r /\ L.a = a
  BY <1>34
<1>36. Layout(m, L)
  <2>1. IsSequence(L.c) /\ Listing(L.order, DOMAIN m.initializers)
    BY <1>2, <1>16, <1>35
  <2>2. \A x \in DOMAIN m.node : Listing(L.attrOrder[x], DOMAIN m.node[x].attrs)
    BY <1>3, <1>35
  <2>3. 3 <= Len(L.c) /\ L.c[1] = Magic /\ L.c[2] = Version /\ L.c[3] = Len(L.order)
    BY <1>1, <1>24, <1>35
  <2>4. /\ L.q \in [1 .. Len(L.order) + 1 -> Nat \ {0}] /\ L.q[1] = 4
        /\ L.q[Len(L.order) + 1] <= Len(L.c) /\ L.c[L.q[Len(L.order) + 1]] = Len(m.order)
        /\ L.r \in [1 .. Len(m.order) + 1 -> Nat \ {0}] /\ L.r[1] = L.q[Len(L.order) + 1] + 1
    BY <1>1, <1>23, <1>30, <1>35
  <2>5. \A i \in 1 .. Len(L.order) :
          InitializerIn(L.c, L.q[i], L.order[i], m.initializers[L.order[i]], L.q[i + 1])
    BY <1>1, <1>29, <1>35
  <2>6. \A k \in 1 .. Len(m.order) :
          NodeIn(L.c, L.r[k], m.order[k], m.node[m.order[k]], L.attrOrder[m.order[k]], L.a[k], L.r[k + 1])
    BY <1>1, <1>28, <1>35
  <2>7. /\ NamesIn(L.c, L.r[Len(m.order) + 1], m.inputs)
        /\ NamesIn(L.c, L.r[Len(m.order) + 1] + 1 + Len(m.inputs), m.outputs)
        /\ Len(L.c) = L.r[Len(m.order) + 1] + 1 + Len(m.inputs) + Len(m.outputs)
    BY <1>1, <1>30, <1>31, <1>32, <1>33, <1>35
  <2> QED
    BY <2>1, <2>2, <2>3, <2>4, <2>5, <2>6, <2>7, Zenon DEF Layout
<1> QED
  BY <1>15, <1>35, <1>36

\* The file holds the beginning of c.
PrefixOf(f, c) ==
  /\ IsSequence(f) /\ IsSequence(c) /\ Len(f) <= Len(c)
  /\ \A p \in 1 .. Len(f) : f[p] = c[p]

\* A count and its items, as load reads them: what was written, if it is there.
LEMMA NamesRead ==
  ASSUME NEW c, PrefixOf(file, c), NEW p \in Nat \ {0}, NEW list, IsSequence(list), NamesIn(c, p, list)
  PROVE  /\ HasNames(p) <=> p + Len(list) <= Len(file)
         /\ HasNames(p) => /\ NamesAt(p) = list
                               /\ AfterNames(p) = p + 1 + Len(list)
<1>1. PICK f, n, m, k : f = file /\ n = Len(list) /\ m = Len(f) /\ k = Len(c)
  OBVIOUS
<1>2. n \in Nat /\ m \in Nat /\ k \in Nat
  BY <1>1, SequenceIs DEF PrefixOf
<1>3. \A i \in 1 .. m : f[i] = c[i]
  BY <1>1 DEF PrefixOf
<1>4. p + n <= k /\ c[p] = n /\ \A i \in 1 .. n : c[p + i] = list[i]
  BY <1>1 DEF NamesIn
<1>5. HasNames(p) <=> p <= m /\ p + f[p] <= m
  BY <1>1 DEF HasNames, Has
<1>6. p <= m => f[p] = n
  BY <1>2, <1>3, <1>4
<1>7. HasNames(p) <=> p + n <= m
  BY <1>2, <1>5, <1>6
<1>8. ASSUME HasNames(p)
      PROVE  NamesAt(p) = list /\ AfterNames(p) = p + 1 + n
  <2>1. f[p] = n /\ p + n <= m
    BY <1>2, <1>5, <1>6, <1>7, <1>8
  <2>2. NamesAt(p) = SubSeq(f, p + 1, p + n) /\ AfterNames(p) = p + 1 + n
    BY <1>1, <2>1 DEF NamesAt, AfterNames
  <2>3. PICK S : f \in Seq(S)
    BY <1>1 DEF PrefixOf, IsSequence
  <2>4. PICK g : g = SubSeq(f, p + 1, p + n)
    OBVIOUS
  <2>5. g \in Seq(S) /\ Len(g) = n /\ \A i \in 1 .. n : g[i] = f[p + i]
    BY <1>1, <1>2, <2>1, <2>3, <2>4
  <2>6. \A i \in 1 .. n : g[i] = list[i]
    BY <1>2, <1>3, <1>4, <2>1, <2>5
  <2>7. g = [i \in 1 .. n |-> g[i]] /\ list = [i \in 1 .. n |-> list[i]]
    BY <1>1, <2>5, SequenceIs
  <2>8. g = list
    BY <2>6, <2>7
  <2> QED
    BY <2>2, <2>4, <2>8
<1> QED
  BY <1>1, <1>7, <1>8

\* As many items as are asked for.
LEMMA ItemsRead ==
  ASSUME NEW c, PrefixOf(file, c), NEW p \in Nat \ {0}, NEW items, IsSequence(items),
         \A i \in 1 .. Len(items) : c[p - 1 + i] = items[i],
         p + Len(items) - 1 <= Len(file)
  PROVE  SubSeq(file, p, p + Len(items) - 1) = items
<1>1. PICK f, n, m : f = file /\ n = Len(items) /\ m = Len(f)
  OBVIOUS
<1>2. n \in Nat /\ m \in Nat
  BY <1>1, SequenceIs DEF PrefixOf
<1>3. \A i \in 1 .. m : f[i] = c[i]
  BY <1>1 DEF PrefixOf
<1>4. PICK S : f \in Seq(S)
  BY <1>1 DEF PrefixOf, IsSequence
<1>5. PICK g : g = SubSeq(f, p, p + n - 1)
  OBVIOUS
<1>6. p + n - 1 <= m /\ \A i \in 1 .. n : c[p - 1 + i] = items[i]
  BY <1>1
<1>7. g \in Seq(S) /\ Len(g) = n /\ \A i \in 1 .. n : g[i] = f[p - 1 + i]
  <2>1. g \in Seq(S) /\ Len(g) = IF p <= p + n - 1 THEN (p + n - 1) - p + 1 ELSE 0
    BY <1>1, <1>2, <1>4, <1>5, <1>6
  <2>2. Len(g) = n
    BY <1>2, <2>1
  <2>3. ASSUME NEW i \in 1 .. n PROVE g[i] = f[p - 1 + i]
    BY <1>1, <1>2, <1>4, <1>5, <1>6
  <2> QED
    BY <2>1, <2>2, <2>3
<1>8. \A i \in 1 .. n : g[i] = items[i]
  <2> TAKE i \in 1 .. n
  <2>1. p - 1 + i \in 1 .. m
    BY <1>2, <1>6
  <2> QED
    BY <1>3, <1>6, <1>7, <2>1
<1>9. g = [i \in 1 .. n |-> g[i]] /\ items = [i \in 1 .. n |-> items[i]]
  BY <1>1, <1>7, SequenceIs
<1>10. g = items
  BY <1>8, <1>9
<1> QED
  BY <1>1, <1>5, <1>10

\* The test of LoadInitializer.
ReadsInitializer(p) ==
  LET dims == NamesAt(p + 1)  first == AfterNames(p + 1) IN
  Has(p) /\ HasNames(p + 1) /\ Has(first + Elements(dims) - 1) /\ dims # <<>>

\* LoadInitializer reads the tensor that was written, unless it is cut or has no
\* dimensions.
LEMMA InitializerRead ==
  ASSUME NEW c, PrefixOf(file, c), NEW p \in Nat \ {0}, NEW name, NEW t, IsTensor(t), NEW e,
         InitializerIn(c, p, name, t, e)
  PROVE  LET dims == NamesAt(p + 1)  first == AfterNames(p + 1)  total == Elements(dims) IN
         /\ ReadsInitializer(p) =>
              /\ file[p] = name /\ first + total = e /\ t.dims # <<>>
              /\ [dims |-> dims, data |-> SubSeq(file, first, first + total - 1)] = t
         /\ Len(file) = Len(c) /\ t.dims # <<>> => ReadsInitializer(p)
<1>1. PICK dims, data : dims = t.dims /\ data = t.data
  OBVIOUS
<1>2. /\ IsSequence(dims) /\ IsSequence(data) /\ t = [dims |-> dims, data |-> data]
      /\ dims # <<>> => Len(data) = Elements(dims)
  BY <1>1 DEF IsTensor, IsSequence
<1>3. PICK m, n, k, l : m = Len(dims) /\ n = Len(data) /\ k = Len(c) /\ l = Len(file)
  OBVIOUS
<1>4. m \in Nat /\ n \in Nat /\ k \in Nat /\ l \in Nat /\ l <= k
  BY <1>2, <1>3, SequenceIs DEF PrefixOf
<1>5. /\ c[p] = name /\ NamesIn(c, p + 1, dims) /\ \A i \in 1 .. n : c[p + 1 + m + i] = data[i]
      /\ e = p + 2 + m + n /\ e <= k + 1
  BY <1>1, <1>3 DEF InitializerIn
<1>6. /\ HasNames(p + 1) <=> p + 1 + m <= l
      /\ HasNames(p + 1) => NamesAt(p + 1) = dims /\ AfterNames(p + 1) = p + 1 + 1 + m
  <2>1. p + 1 \in Nat \ {0}
    OBVIOUS
  <2> QED
    BY <1>2, <1>3, <1>5, <2>1, NamesRead
<1>7. ASSUME ReadsInitializer(p)
      PROVE  LET first == AfterNames(p + 1)  total == Elements(NamesAt(p + 1)) IN
             /\ file[p] = name /\ first + total = e /\ dims # <<>>
             /\ [dims |-> NamesAt(p + 1), data |-> SubSeq(file, first, first + total - 1)] = t
  <2>1. HasNames(p + 1)
    BY <1>7 DEF ReadsInitializer
  <2>2. NamesAt(p + 1) = dims /\ AfterNames(p + 1) = p + 2 + m
    BY <1>4, <1>6, <2>1
  <2>3. p <= l /\ dims # <<>> /\ p + 2 + m + Elements(dims) - 1 <= l
    BY <1>3, <1>7, <2>2 DEF ReadsInitializer, Has
  <2>4. Elements(dims) = n
    BY <1>2, <1>3, <2>3
  <2>5. file[p] = c[p]
    BY <1>3, <1>4, <2>3 DEF PrefixOf
  <2>6. PICK v : v = p + 2 + m
    OBVIOUS
  <2>7. /\ v \in Nat \ {0} /\ v + n - 1 <= l /\ v + n = e
        /\ \A i \in 1 .. n : c[v - 1 + i] = data[i]
    <3>1. v \in Nat \ {0} /\ v + n - 1 <= l /\ v + n = e
      BY <1>4, <1>5, <2>3, <2>4, <2>6
    <3>2. ASSUME NEW i \in 1 .. n PROVE c[v - 1 + i] = data[i]
      <4>1. v - 1 + i = p + 1 + m + i
        BY <1>4, <2>6
      <4> QED
        BY <1>5, <4>1
    <3> QED
      BY <3>1, <3>2
  <2>8. SubSeq(file, v, v + n - 1) = data
    BY <1>2, <1>3, <2>7, ItemsRead
  <2> QED
    BY <1>2, <1>5, <2>2, <2>3, <2>4, <2>5, <2>6, <2>7, <2>8
<1>8. ASSUME l = k, dims # <<>>
      PROVE  ReadsInitializer(p)
  <2>1. HasNames(p + 1)
    BY <1>4, <1>5, <1>6, <1>8
  <2>2. NamesAt(p + 1) = dims /\ AfterNames(p + 1) = p + 2 + m
    BY <1>4, <1>6, <2>1
  <2>3. Elements(dims) = n
    BY <1>2, <1>3, <1>8
  <2>4. p <= l /\ p + 2 + m + n - 1 <= l
    BY <1>4, <1>5, <1>8
  <2> QED
    BY <1>3, <1>8, <2>1, <2>2, <2>3, <2>4 DEF ReadsInitializer, Has
<1> QED
  BY <1>1, <1>3, <1>7, <1>8

\* LoadAttribute reads the attribute that was written, unless it is cut.
LEMMA AttributeRead ==
  ASSUME NEW c, PrefixOf(file, c), NEW p \in Nat \ {0}, NEW name, NEW attr, IsAttribute(attr), NEW e,
         AttributeIn(c, p, name, attr, e)
  PROVE  /\ Has(p + 1) => file[p] = name /\ file[p + 1] = attr.tag
         /\ attr.tag = "ints" /\ HasNames(p + 2) =>
              NamesAt(p + 2) = attr.value /\ AfterNames(p + 2) = e
         /\ attr.tag # "ints" /\ Has(p + 2) => file[p + 2] = attr.value /\ p + 3 = e
         /\ Len(file) = Len(c) =>
              /\ Has(p + 1)
              /\ attr.tag = "ints" => HasNames(p + 2)
              /\ attr.tag # "ints" => Has(p + 2)
<1>1. PICK tag, value, k, l : tag = attr.tag /\ value = attr.value /\ k = Len(c) /\ l = Len(file)
  OBVIOUS
<1>2. k \in Nat /\ l \in Nat /\ l <= k /\ \A i \in 1 .. l : file[i] = c[i]
  BY <1>1, SequenceIs DEF PrefixOf
<1>3. /\ p + 1 <= k /\ c[p] = name /\ c[p + 1] = tag
      /\ tag = "ints" => NamesIn(c, p + 2, value) /\ e = p + 3 + Len(value)
      /\ tag # "ints" => p + 2 <= k /\ c[p + 2] = value /\ e = p + 3
  BY <1>1 DEF AttributeIn
<1>4. Has(p + 1) => file[p] = name /\ file[p + 1] = tag
  BY <1>1, <1>2, <1>3 DEF Has
<1>5. ASSUME tag = "ints"
      PROVE  /\ HasNames(p + 2) => NamesAt(p + 2) = value /\ AfterNames(p + 2) = e
             /\ l = k => HasNames(p + 2)
  <2>1. IsSequence(value)
    BY <1>1, <1>5 DEF IsAttribute, IsSequence
  <2>2. PICK m : m = Len(value) /\ m \in Nat
    BY <2>1, SequenceIs
  <2>3. p + 2 \in Nat \ {0} /\ NamesIn(c, p + 2, value)
    BY <1>3, <1>5
  <2>4. /\ HasNames(p + 2) <=> p + 2 + m <= l
        /\ HasNames(p + 2) => NamesAt(p + 2) = value /\ AfterNames(p + 2) = p + 2 + 1 + m
    BY <1>1, <2>1, <2>2, <2>3, NamesRead
  <2>5. p + 2 + m <= k
    BY <1>1, <2>2, <2>3 DEF NamesIn
  <2>6. e = p + 2 + 1 + m
    BY <1>3, <1>5, <2>2
  <2> QED
    BY <2>4, <2>5, <2>6
<1>6. ASSUME tag # "ints"
      PROVE  /\ Has(p + 2) => file[p + 2] = value /\ p + 3 = e
             /\ l = k => Has(p + 2)
  BY <1>1, <1>2, <1>3, <1>6 DEF Has
<1>7. l = k => Has(p + 1)
  BY <1>1, <1>3 DEF Has
<1> QED
  BY <1>1, <1>4, <1>5, <1>6, <1>7

\* The test of LoadNode.
ReadsNode(p) ==
  LET outs == AfterNames(p + 2)  attrs == AfterNames(outs) IN
  Has(p + 1) /\ HasNames(p + 2) /\ HasNames(outs) /\ Has(attrs)

\* LoadNode reads the node that was written, as far as its attributes, unless it
\* is cut.
LEMMA NodeRead ==
  ASSUME NEW c, PrefixOf(file, c), NEW p \in Nat \ {0}, NEW name, NEW n, IsNode(n), NEW o, NEW b, NEW e,
         Len(o) \in Nat, NodeIn(c, p, name, n, o, b, e)
  PROVE  LET outs == AfterNames(p + 2)  attrs == AfterNames(outs) IN
         /\ ReadsNode(p) =>
              /\ file[p] = name /\ file[p + 1] = n.op
              /\ NamesAt(p + 2) = n.inputs /\ NamesAt(outs) = n.outputs
              /\ file[attrs] = Len(o) /\ attrs + 1 = b[1]
         /\ Len(file) = Len(c) => ReadsNode(p)
<1>1. PICK ins, outs, k, l : ins = n.inputs /\ outs = n.outputs /\ k = Len(c) /\ l = Len(file)
  OBVIOUS
<1>2. k \in Nat /\ l \in Nat /\ l <= k /\ \A i \in 1 .. l : file[i] = c[i]
  BY <1>1, SequenceIs DEF PrefixOf
<1>3. IsSequence(ins) /\ IsSequence(outs)
  BY <1>1 DEF IsNode, IsSequence
<1>4. PICK x, y : x = Len(ins) /\ y = Len(outs) /\ x \in Nat /\ y \in Nat
  BY <1>3, SequenceIs
<1>5. PICK u, v : u = p + 3 + x /\ v = p + 4 + x + y
  OBVIOUS
<1>6. /\ p + 1 <= k /\ c[p] = name /\ c[p + 1] = n.op
      /\ NamesIn(c, p + 2, ins) /\ NamesIn(c, u, outs)
      /\ v <= k /\ c[v] = Len(o) /\ b[1] = v + 1
  BY <1>1, <1>4, <1>5 DEF NodeIn, AttributesFrom, AttributesIn
<1>7. p + 2 \in Nat \ {0} /\ u \in Nat \ {0} /\ v \in Nat \ {0} /\ p + 2 + 1 + x = u /\ u + 1 + y = v
  BY <1>4, <1>5
<1>8. /\ HasNames(p + 2) <=> p + 2 + x <= l
      /\ HasNames(p + 2) => NamesAt(p + 2) = ins /\ AfterNames(p + 2) = p + 2 + 1 + x
  <2>1. IsSequence(ins) /\ p + 2 \in Nat \ {0} /\ NamesIn(c, p + 2, ins)
    BY <1>3, <1>6, <1>7
  <2>2. /\ HasNames(p + 2) <=> p + 2 + Len(ins) <= Len(file)
        /\ HasNames(p + 2) => NamesAt(p + 2) = ins /\ AfterNames(p + 2) = p + 2 + 1 + Len(ins)
    BY <2>1, NamesRead
  <2> QED
    BY <1>1, <1>4, <2>2
<1>9. /\ HasNames(u) <=> u + y <= l
      /\ HasNames(u) => NamesAt(u) = outs /\ AfterNames(u) = u + 1 + y
  <2>1. IsSequence(outs) /\ u \in Nat \ {0} /\ NamesIn(c, u, outs)
    BY <1>3, <1>6, <1>7
  <2>2. /\ HasNames(u) <=> u + Len(outs) <= Len(file)
        /\ HasNames(u) => NamesAt(u) = outs /\ AfterNames(u) = u + 1 + Len(outs)
    BY <2>1, NamesRead
  <2> QED
    BY <1>1, <1>4, <2>2
<1>10. ASSUME ReadsNode(p)
       PROVE  /\ AfterNames(p + 2) = u /\ AfterNames(u) = v
              /\ file[p] = name /\ file[p + 1] = n.op
              /\ NamesAt(p + 2) = ins /\ NamesAt(u) = outs
              /\ file[v] = Len(o)
  <2>1. p + 1 <= l /\ HasNames(p + 2)
    BY <1>1, <1>10 DEF ReadsNode, Has
  <2>2. NamesAt(p + 2) = ins /\ AfterNames(p + 2) = u
    BY <1>7, <1>8, <2>1
  <2>3. HasNames(u)
    BY <1>10, <2>2 DEF ReadsNode
  <2>4. NamesAt(u) = outs /\ AfterNames(u) = v
    BY <1>7, <1>9, <2>3
  <2>5. v <= l
    BY <1>1, <1>10, <2>2, <2>4 DEF ReadsNode, Has
  <2>6. file[p] = c[p] /\ file[p + 1] = c[p + 1] /\ file[v] = c[v]
    BY <1>2, <1>7, <2>1, <2>5
  <2> QED
    BY <1>6, <2>2, <2>4, <2>6
<1>11. ASSUME l = k
       PROVE  ReadsNode(p)
  <2>1. HasNames(p + 2)
    <3>1. p + 2 + x <= k
      BY <1>1, <1>4, <1>6 DEF NamesIn
    <3> QED
      BY <1>8, <1>11, <3>1
  <2>2. AfterNames(p + 2) = u
    BY <1>7, <1>8, <2>1
  <2>3. HasNames(u)
    <3>1. u + y <= k
      BY <1>1, <1>4, <1>6 DEF NamesIn
    <3> QED
      BY <1>9, <1>11, <3>1
  <2>4. AfterNames(u) = v
    BY <1>7, <1>9, <2>3
  <2> QED
    BY <1>1, <1>6, <1>11, <2>1, <2>2, <2>3, <2>4 DEF ReadsNode, Has
<1> QED
  BY <1>1, <1>6, <1>10, <1>11

\* What the first i - 1 names of s take out of a map.
Part(map, s, i) == [x \in {s[j] : j \in 1 .. i - 1} |-> map[x]]

\* At first, nothing.
LEMMA PartNone ==
  ASSUME NEW map, NEW s
  PROVE  Part(map, s, 1) = << >>
<1>1. {s[j] : j \in 1 .. 1 - 1} = {}
  OBVIOUS
<1>2. PICK f : f = Part(map, s, 1)
  OBVIOUS
<1>3. f = [x \in 1 .. 0 |-> f[x]]
  BY <1>1, <1>2 DEF Part
<1>4. f \in [1 .. 0 -> {}]
  BY <1>3
<1>5. f \in Seq({}) /\ Len(f) = 0
  BY <1>4
<1>6. f = << >>
  BY <1>5
<1> QED
  BY <1>2, <1>6

\* One name more, whether what is there stays or not.
LEMMA PartMore ==
  ASSUME NEW map, NEW s, NEW i \in Nat \ {0}
  PROVE  /\ Assign(Part(map, s, i), s[i], map[s[i]]) = Part(map, s, i + 1)
         /\ Emplace(Part(map, s, i), s[i], map[s[i]]) = Part(map, s, i + 1)
<1>1. {s[j] : j \in 1 .. (i + 1) - 1} = {s[j] : j \in 1 .. i - 1} \cup {s[i]}
  OBVIOUS
<1>2. DOMAIN Part(map, s, i) = {s[j] : j \in 1 .. i - 1}
  BY DEF Part
<1>3. \A x \in {s[j] : j \in 1 .. i - 1} : Part(map, s, i)[x] = map[x]
  BY DEF Part
<1>4. Assign(Part(map, s, i), s[i], map[s[i]]) = Part(map, s, i + 1)
  <2>1. PICK S, f, y : S = {s[j] : j \in 1 .. i - 1} /\ f = Part(map, s, i) /\ y = s[i]
    OBVIOUS
  <2>2. DOMAIN f = S /\ \A x \in S : f[x] = map[x]
    BY <1>2, <1>3, <2>1
  <2>3. Assign(f, y, map[y]) = [x \in S \cup {y} |-> IF x = y THEN map[y] ELSE f[x]]
    BY <2>2 DEF Assign
  <2>4. [x \in S \cup {y} |-> IF x = y THEN map[y] ELSE f[x]] = [x \in S \cup {y} |-> map[x]]
    BY <2>2
  <2>5. Part(map, s, i + 1) = [x \in S \cup {y} |-> map[x]]
    BY <1>1, <2>1 DEF Part
  <2> QED
    BY <2>1, <2>3, <2>4, <2>5
<1>5. s[i] \in DOMAIN Part(map, s, i) => Part(map, s, i) = Part(map, s, i + 1)
  BY <1>1, <1>2 DEF Part
<1> QED
  BY <1>4, <1>5 DEF Emplace

\* At the end, everything.
LEMMA PartAll ==
  ASSUME NEW map, map = [x \in DOMAIN map |-> map[x]], NEW s, Listing(s, DOMAIN map)
  PROVE  Part(map, s, Len(s) + 1) = map
<1>1. PICK n : n = Len(s) /\ n \in Nat /\ \A i \in 1 .. n : s[i] \in DOMAIN map
  BY DEF Listing
<1>2. \A x \in DOMAIN map : \E i \in 1 .. n : s[i] = x
  BY <1>1 DEF Listing
<1>3. {s[j] : j \in 1 .. (n + 1) - 1} = DOMAIN map
  <2>1. (n + 1) - 1 = n
    BY <1>1
  <2> QED
    BY <1>1, <1>2, <2>1
<1> QED
  BY <1>1, <1>3 DEF Part

\* The model under construction.
Built(initializers, node, order) ==
  [initializers |-> initializers, node |-> node, order |-> order, inputs |-> << >>, outputs |-> << >>]

\* load is at the i-th initializer.
AtInitializer(L, m, ld, md, i) ==
  /\ i \in 1 .. Len(L.order) + 1
  /\ ld.pos = L.q[i] /\ ld.left = Len(L.order) + 1 - i
  /\ md = Built(Part(m.initializers, L.order, i), << >>, << >>)

\* What is built before the k-th node.
BuiltBefore(m, k) == Built(m.initializers, Part(m.node, m.order, k), SubSeq(m.order, 1, k - 1))

\* load is at the k-th node.
AtNode(L, m, ld, md, k) ==
  /\ k \in 1 .. Len(m.order) + 1
  /\ ld.pos = L.r[k] /\ ld.left = Len(m.order) + 1 - k
  /\ md = BuiltBefore(m, k)

\* load is at the j-th attribute of a node v.
AtAttribute(o, b, v, n, ld, j) ==
  /\ j \in 1 .. Len(o) + 1
  /\ ld.pos = b[j] /\ ld.attrs = Len(o) + 1 - j
  /\ ld.node = [name |-> v, op |-> n.op, inputs |-> n.inputs, outputs |-> n.outputs,
                attrs |-> Part(n.attrs, o, j)]

\* load is at an attribute of the k-th node.
InNode(L, m, ld, md, k) ==
  /\ k \in 1 .. Len(m.order)
  /\ ld.left = Len(m.order) + 1 - k /\ md = BuiltBefore(m, k)
  /\ \E j : AtAttribute(L.attrOrder[m.order[k]], L.a[k], m.order[k], m.node[m.order[k]], ld, j)

\* Some tensor of m has no dimensions.
Scalar(m) == \E x \in DOMAIN m.initializers : m.initializers[x].dims = << >>

\* How far load has come in a file of m that is whole or cut.
Loading(L, m, w, ld, md) ==
  /\ ld = [at |-> ld.at, pos |-> ld.pos, left |-> ld.left, attrs |-> ld.attrs, node |-> ld.node]
  /\ ld.at \in {"closed", "initializers", "nodes", "attributes", "loaded", "failed"}
  /\ ld.at = "initializers" => \E i : AtInitializer(L, m, ld, md, i)
  /\ ld.at = "nodes" => \E k : AtNode(L, m, ld, md, k)
  /\ ld.at = "attributes" => \E k : InNode(L, m, ld, md, k)
  /\ ld.at = "loaded" => w = "whole" /\ md = m
  /\ ld.at = "failed" /\ w = "whole" => Scalar(m)

\* The file and what it was written from.
FileIs(L) ==
  /\ IsModel(saved) /\ Layout(saved, L) /\ PrefixOf(file, L.c)
  /\ written = "whole" <=> Len(file) = Len(L.c)

\* load fails.
LEMMA FailLeads ==
  ASSUME NEW L, Loading(L, saved, written, load, model), Fail, written = "whole" => Scalar(saved)
  PROVE  Loading(L, saved, written, load', model')
<1>1. load' = [load EXCEPT !.at = "failed"]
  BY DEF Fail
<1>2. load = [at |-> load.at, pos |-> load.pos, left |-> load.left, attrs |-> load.attrs, node |-> load.node]
  BY DEF Loading
<1>3. load' = [at |-> "failed", pos |-> load.pos, left |-> load.left, attrs |-> load.attrs, node |-> load.node]
  BY <1>1, <1>2
<1>4. /\ load'.at = "failed" /\ load'.pos = load.pos /\ load'.left = load.left
      /\ load'.attrs = load.attrs /\ load'.node = load.node
  BY <1>3
<1> QED
  BY <1>3, <1>4 DEF Loading

\* What a model is made of.
LEMMA ModelIs ==
  ASSUME NEW m, IsModel(m)
  PROVE  /\ m.initializers = [x \in DOMAIN m.initializers |-> m.initializers[x]]
         /\ m.node = [x \in DOMAIN m.node |-> m.node[x]]
         /\ Listing(m.order, DOMAIN m.node)
         /\ IsSequence(m.inputs) /\ IsSequence(m.outputs)
<1>1. /\ m.initializers = [x \in DOMAIN m.initializers |-> m.initializers[x]]
      /\ m.node = [x \in DOMAIN m.node |-> m.node[x]]
  BY DEF IsModel
<1>2. IsSequence(m.inputs) /\ IsSequence(m.outputs)
  BY DEF IsModel, IsSequence
<1>3. PICK s, S : s = m.order /\ S = DOMAIN m.node
  OBVIOUS
<1>4. s \in Seq(S) /\ {s[i] : i \in DOMAIN s} = S /\ \A i, j \in DOMAIN s : s[i] = s[j] => i = j
  BY <1>3 DEF IsModel, ToSet, IsInjective
<1>5. DOMAIN s = 1 .. Len(s)
  BY <1>4
<1>6. Listing(s, S)
  <2>1. \A x \in S : \E i \in 1 .. Len(s) : s[i] = x
    BY <1>4, <1>5
  <2>2. \A i, j \in 1 .. Len(s) : s[i] = s[j] => i = j
    BY <1>4, <1>5
  <2> QED
    BY <1>4, <2>1, <2>2 DEF Listing
<1> QED
  BY <1>1, <1>2, <1>3, <1>6

\* The header of a file that save has begun.
LEMMA HeaderStep ==
  ASSUME NEW L, FileIs(L), Loading(L, saved, written, load, model), LoadHeader
  PROVE  Loading(L, saved, written, load', model')
<1>1. load = [at |-> load.at, pos |-> load.pos, left |-> load.left, attrs |-> load.attrs, node |-> load.node]
  BY DEF Loading
<1>2. PICK k, l : k = Len(L.c) /\ l = Len(file)
  OBVIOUS
<1>3. /\ k \in Nat /\ l \in Nat /\ 3 <= k /\ \A i \in 1 .. l : file[i] = L.c[i]
      /\ written = "whole" <=> l = k
      /\ L.c[1] = Magic /\ L.c[2] = Version /\ L.c[3] = Len(L.order)
  BY <1>2, SequenceIs DEF FileIs, PrefixOf, Layout
<1>4. l >= 3 => file[1] = Magic /\ file[2] = Version /\ file[3] = Len(L.order)
  BY <1>3
<1>5. CASE Has(3) /\ file[1] = Magic /\ file[2] = Version
  <2>1. /\ load' = [load EXCEPT !.at = "initializers", !.pos = 4, !.left = file[3]]
        /\ model' = EmptyModel
    BY <1>5 DEF LoadHeader
  <2>2. load' = [at |-> "initializers", pos |-> 4, left |-> file[3], attrs |-> load.attrs, node |-> load.node]
    BY <1>1, <2>1
  <2>3. /\ load'.at = "initializers" /\ load'.pos = 4 /\ load'.left = file[3]
        /\ load'.attrs = load.attrs /\ load'.node = load.node
    BY <2>2
  <2>4. file[3] = Len(L.order)
    BY <1>2, <1>3, <1>4, <1>5 DEF Has
  <2>5. model' = Built(Part(saved.initializers, L.order, 1), << >>, << >>)
    BY <2>1, PartNone, Zenon DEF EmptyModel, Built
  <2>6. Len(L.order) \in Nat /\ L.q[1] = 4
    BY DEF FileIs, Layout, Listing
  <2>7. AtInitializer(L, saved, load', model', 1)
    BY <2>3, <2>4, <2>5, <2>6 DEF AtInitializer
  <2> QED
    BY <2>2, <2>3, <2>7 DEF Loading
<1>6. CASE ~ (Has(3) /\ file[1] = Magic /\ file[2] = Version)
  <2>1. Fail
    BY <1>6 DEF LoadHeader
  <2>2. written # "whole"
    BY <1>2, <1>3, <1>4, <1>6 DEF Has
  <2> QED
    BY <2>1, <2>2, FailLeads
<1> QED
  BY <1>5, <1>6

\* An initializer.
LEMMA InitializerStep ==
  ASSUME NEW L, FileIs(L), Loading(L, saved, written, load, model), LoadInitializer
  PROVE  Loading(L, saved, written, load', model')
<1>1. load = [at |-> load.at, pos |-> load.pos, left |-> load.left, attrs |-> load.attrs, node |-> load.node]
  BY DEF Loading
<1>2. load.at = "initializers" /\ load.left > 0
  BY DEF LoadInitializer
<1>3. PICK i : AtInitializer(L, saved, load, model, i)
  BY <1>2 DEF Loading
<1>4. PICK N, c, s, name, t, p, e :
        /\ N = Len(L.order) /\ c = L.c /\ s = L.order /\ name = s[i] /\ t = saved.initializers[name]
        /\ p = L.q[i] /\ e = L.q[i + 1]
  OBVIOUS
<1>5. N \in Nat /\ Listing(s, DOMAIN saved.initializers)
  <2>1. Listing(s, DOMAIN saved.initializers)
    BY <1>4 DEF FileIs, Layout
  <2>2. PICK names : names = DOMAIN saved.initializers
    OBVIOUS
  <2>3. s \in Seq(names)
    BY <2>1, <2>2 DEF Listing
  <2>4. Len(s) \in Nat
    BY <2>3
  <2> QED
    BY <1>4, <2>1, <2>4
<1>6. i \in 1 .. N /\ load.pos = p /\ load.left = N + 1 - i
  BY <1>2, <1>3, <1>4, <1>5 DEF AtInitializer
<1>7. p \in Nat \ {0} /\ InitializerIn(c, p, name, t, e) /\ PrefixOf(file, c)
  <2>1. /\ L.q \in [1 .. N + 1 -> Nat \ {0}]
        /\ \A j \in 1 .. N : InitializerIn(c, L.q[j], s[j], saved.initializers[s[j]], L.q[j + 1])
    BY <1>4 DEF FileIs, Layout
  <2>2. p \in Nat \ {0}
    <3>1. i \in 1 .. N + 1
      BY <1>5, <1>6
    <3>2. L.q[i] \in Nat \ {0}
      BY <2>1, <3>1
    <3> QED
      BY <1>4, <3>2
  <2>3. InitializerIn(c, L.q[i], s[i], saved.initializers[s[i]], L.q[i + 1])
    BY <1>6, <2>1, Zenon
  <2>4. PrefixOf(file, c)
    BY <1>4 DEF FileIs
  <2> QED
    BY <1>4, <2>2, <2>3, <2>4
<1>8. name \in DOMAIN saved.initializers /\ IsTensor(t)
  <2>1. name \in DOMAIN saved.initializers
    BY <1>4, <1>5, <1>6 DEF Listing
  <2> QED
    BY <1>4, <2>1 DEF FileIs, IsModel
<1>9. PICK dims, first, total :
        dims = NamesAt(p + 1) /\ first = AfterNames(p + 1) /\ total = Elements(dims)
  OBVIOUS
<1>10. /\ ReadsInitializer(p) =>
            /\ file[p] = name /\ first + total = e /\ t.dims # <<>>
            /\ [dims |-> dims, data |-> SubSeq(file, first, first + total - 1)] = t
       /\ Len(file) = Len(c) /\ t.dims # <<>> => ReadsInitializer(p)
  BY <1>7, <1>8, <1>9, InitializerRead
<1>11. CASE ReadsInitializer(p)
  <2>1. /\ load' = [load EXCEPT !.pos = first + total, !.left = @ - 1]
        /\ model' = [model EXCEPT !.initializers =
             Assign(@, file[p], [dims |-> dims, data |-> SubSeq(file, first, first + total - 1)])]
    BY <1>6, <1>9, <1>11 DEF LoadInitializer, ReadsInitializer
  <2>2. load' = [at |-> "initializers", pos |-> e, left |-> load.left - 1, attrs |-> load.attrs, node |-> load.node]
    BY <1>1, <1>2, <1>10, <1>11, <2>1
  <2>3. /\ load'.at = "initializers" /\ load'.pos = e /\ load'.left = load.left - 1
        /\ load'.attrs = load.attrs /\ load'.node = load.node
    BY <2>2
  <2>4. model' = [model EXCEPT !.initializers = Assign(@, name, t)]
    BY <1>10, <1>11, <2>1
  <2>5. model = Built(Part(saved.initializers, s, i), << >>, << >>)
    BY <1>3, <1>4 DEF AtInitializer
  <2>6. model' = Built(Assign(Part(saved.initializers, s, i), name, t), << >>, << >>)
    BY <2>4, <2>5 DEF Built
  <2>7. Assign(Part(saved.initializers, s, i), name, t) = Part(saved.initializers, s, i + 1)
    <3>1. i \in Nat \ {0}
      BY <1>6
    <3> QED
      BY <1>4, <3>1, PartMore
  <2>8. i + 1 \in 1 .. N + 1 /\ load.left - 1 = N + 1 - (i + 1)
    BY <1>5, <1>6
  <2>9. AtInitializer(L, saved, load', model', i + 1)
    BY <1>4, <2>3, <2>6, <2>7, <2>8 DEF AtInitializer
  <2> QED
    BY <2>2, <2>3, <2>9 DEF Loading
<1>12. CASE ~ ReadsInitializer(p)
  <2>1. Fail
    BY <1>6, <1>12 DEF LoadInitializer, ReadsInitializer
  <2>2. written = "whole" => Scalar(saved)
    BY <1>4, <1>8, <1>10, <1>12 DEF FileIs, Scalar
  <2> QED
    BY <2>1, <2>2, FailLeads
<1> QED
  BY <1>11, <1>12

\* The number of nodes.
LEMMA InitializersEndStep ==
  ASSUME NEW L, FileIs(L), Loading(L, saved, written, load, model), InitializersEnd
  PROVE  Loading(L, saved, written, load', model')
<1>1. load = [at |-> load.at, pos |-> load.pos, left |-> load.left, attrs |-> load.attrs, node |-> load.node]
  BY DEF Loading
<1>2. load.at = "initializers" /\ load.left = 0
  BY DEF InitializersEnd
<1>3. PICK i : AtInitializer(L, saved, load, model, i)
  BY <1>2 DEF Loading
<1>4. PICK N, M, p, l : N = Len(L.order) /\ M = Len(saved.order) /\ p = L.q[N + 1] /\ l = Len(file)
  OBVIOUS
<1>5. /\ N \in Nat /\ L.q \in [1 .. N + 1 -> Nat \ {0}] /\ Listing(L.order, DOMAIN saved.initializers)
      /\ p <= Len(L.c) /\ L.c[p] = M /\ L.r[1] = p + 1
  <2>1. Listing(L.order, DOMAIN saved.initializers)
    BY DEF FileIs, Layout
  <2>2. N \in Nat
    BY <1>4, <2>1 DEF Listing
  <2>3. /\ L.q \in [1 .. N + 1 -> Nat \ {0}]
        /\ p <= Len(L.c) /\ L.c[p] = M /\ L.r[1] = p + 1
    BY <1>4 DEF FileIs, Layout
  <2> QED
    BY <2>1, <2>2, <2>3
<1>6. i = N + 1 /\ load.pos = p /\ p \in Nat \ {0}
  BY <1>2, <1>3, <1>4, <1>5 DEF AtInitializer
<1>7. /\ l \in Nat /\ Len(L.c) \in Nat /\ \A j \in 1 .. l : file[j] = L.c[j]
      /\ written = "whole" <=> l = Len(L.c)
  BY <1>4, SequenceIs DEF FileIs, PrefixOf
<1>8. CASE Has(p)
  <2>1. load' = [load EXCEPT !.at = "nodes", !.left = file[p], !.pos = @ + 1] /\ model' = model
    BY <1>6, <1>8 DEF InitializersEnd
  <2>2. load' = [at |-> "nodes", pos |-> p + 1, left |-> file[p], attrs |-> load.attrs, node |-> load.node]
    BY <1>1, <1>6, <2>1
  <2>3. /\ load'.at = "nodes" /\ load'.pos = p + 1 /\ load'.left = file[p]
        /\ load'.attrs = load.attrs /\ load'.node = load.node
    BY <2>2
  <2>4. file[p] = M
    BY <1>4, <1>5, <1>6, <1>7, <1>8 DEF Has
  <2>5. Part(saved.initializers, L.order, N + 1) = saved.initializers
    <3>1. saved.initializers = [x \in DOMAIN saved.initializers |-> saved.initializers[x]]
      BY ModelIs DEF FileIs
    <3> QED
      BY <1>4, <1>5, <3>1, PartAll
  <2>6. model' = Built(saved.initializers, << >>, << >>)
    BY <1>3, <1>4, <1>6, <2>1, <2>5 DEF AtInitializer
  <2>7. M \in Nat /\ SubSeq(saved.order, 1, 1 - 1) = << >>
    <3>1. Listing(saved.order, DOMAIN saved.node)
      BY ModelIs DEF FileIs
    <3>2. saved.order \in Seq(DOMAIN saved.node)
      BY <3>1 DEF Listing
    <3> QED
      BY <1>4, <3>2
  <2>8. model' = BuiltBefore(saved, 1)
    BY <2>6, <2>7, PartNone DEF BuiltBefore
  <2>9. AtNode(L, saved, load', model', 1)
    BY <1>4, <1>5, <2>3, <2>4, <2>7, <2>8 DEF AtNode
  <2> QED
    BY <2>2, <2>3, <2>9 DEF Loading
<1>9. CASE ~ Has(p)
  <2>1. Fail
    BY <1>6, <1>9 DEF InitializersEnd
  <2>2. written # "whole"
    BY <1>4, <1>5, <1>7, <1>9 DEF Has
  <2> QED
    BY <2>1, <2>2, FailLeads
<1> QED
  BY <1>8, <1>9

\* What the file and the model say of the k-th node.
LEMMA NodeIs ==
  ASSUME NEW L, FileIs(L), NEW k \in 1 .. Len(saved.order)
  PROVE  LET v == saved.order[k]  n == saved.node[v]  o == L.attrOrder[v] IN
         /\ v \in DOMAIN saved.node /\ IsNode(n) /\ Listing(o, DOMAIN n.attrs) /\ Len(o) \in Nat
         /\ L.r[k] \in Nat \ {0} /\ NodeIn(L.c, L.r[k], v, n, o, L.a[k], L.r[k + 1])
         /\ PrefixOf(file, L.c) /\ Len(saved.order) \in Nat
<1>1. PICK v, n, o, M : v = saved.order[k] /\ n = saved.node[v] /\ o = L.attrOrder[v] /\ M = Len(saved.order)
  OBVIOUS
<1>2. Listing(saved.order, DOMAIN saved.node)
  BY ModelIs DEF FileIs
<1>3. v \in DOMAIN saved.node /\ M \in Nat
  BY <1>1, <1>2 DEF Listing
<1>4. IsNode(n)
  BY <1>1, <1>3 DEF FileIs, IsModel
<1>5. Listing(o, DOMAIN n.attrs)
  BY <1>1, <1>3 DEF FileIs, Layout
<1>6. Len(o) \in Nat
  BY <1>5 DEF Listing
<1>7. L.r \in [1 .. M + 1 -> Nat \ {0}] /\ PrefixOf(file, L.c)
  BY <1>1 DEF FileIs, Layout
<1>8. L.r[k] \in Nat \ {0}
  BY <1>1, <1>3, <1>7
<1>9. NodeIn(L.c, L.r[k], saved.order[k], saved.node[saved.order[k]], L.attrOrder[saved.order[k]],
             L.a[k], L.r[k + 1])
  BY DEF FileIs, Layout
<1> QED
  BY <1>1, <1>3, <1>4, <1>5, <1>6, <1>7, <1>8, <1>9

\* A node, as far as its attributes.
LEMMA NodeStep ==
  ASSUME NEW L, FileIs(L), Loading(L, saved, written, load, model), LoadNode
  PROVE  Loading(L, saved, written, load', model')
<1>1. load = [at |-> load.at, pos |-> load.pos, left |-> load.left, attrs |-> load.attrs, node |-> load.node]
  BY DEF Loading
<1>2. load.at = "nodes" /\ load.left > 0
  BY DEF LoadNode
<1>3. PICK k : AtNode(L, saved, load, model, k)
  BY <1>2 DEF Loading
<1>4. Len(saved.order) \in Nat
  <2>1. saved.order \in Seq(DOMAIN saved.node)
    BY ModelIs DEF FileIs, Listing
  <2> QED
    BY <2>1
<1>5. k \in 1 .. Len(saved.order)
  BY <1>2, <1>3, <1>4 DEF AtNode
<1>6. PICK v, n, o, p, e, b, c :
        /\ v = saved.order[k] /\ n = saved.node[v] /\ o = L.attrOrder[v] /\ p = L.r[k] /\ e = L.r[k + 1]
        /\ b = L.a[k] /\ c = L.c
  OBVIOUS
<1>7. /\ IsNode(n) /\ Len(o) \in Nat /\ p \in Nat \ {0} /\ NodeIn(c, p, v, n, o, b, e)
      /\ PrefixOf(file, c)
  BY <1>5, <1>6, NodeIs
<1>8. PICK outs, attrs : outs = AfterNames(p + 2) /\ attrs = AfterNames(outs)
  OBVIOUS
<1>9. /\ ReadsNode(p) =>
           /\ file[p] = v /\ file[p + 1] = n.op
           /\ NamesAt(p + 2) = n.inputs /\ NamesAt(outs) = n.outputs
           /\ file[attrs] = Len(o) /\ attrs + 1 = b[1]
      /\ Len(file) = Len(c) => ReadsNode(p)
  BY <1>7, <1>8, NodeRead
<1>10. load.pos = p
  BY <1>3, <1>6 DEF AtNode
<1>11. CASE ReadsNode(p)
  <2>1. /\ load' = [load EXCEPT !.at = "attributes", !.pos = attrs + 1, !.attrs = file[attrs],
                      !.node = [name |-> file[p], op |-> file[p + 1], inputs |-> NamesAt(p + 2),
                                outputs |-> NamesAt(outs), attrs |-> << >>]]
        /\ model' = model
    BY <1>8, <1>10, <1>11 DEF LoadNode, ReadsNode
  <2>2. PICK node : node = [name |-> v, op |-> n.op, inputs |-> n.inputs, outputs |-> n.outputs, attrs |-> << >>]
    OBVIOUS
  <2>3. load' = [load EXCEPT !.at = "attributes", !.pos = b[1], !.attrs = Len(o), !.node = node]
    BY <1>9, <1>11, <2>1, <2>2
  <2>4. load' = [at |-> "attributes", pos |-> b[1], left |-> load.left, attrs |-> Len(o), node |-> node]
    BY <1>1, <2>3
  <2>5. /\ load'.at = "attributes" /\ load'.pos = b[1] /\ load'.left = load.left
        /\ load'.attrs = Len(o) /\ load'.node = node
    BY <2>4
  <2>6. node = [name |-> v, op |-> n.op, inputs |-> n.inputs, outputs |-> n.outputs, attrs |-> Part(n.attrs, o, 1)]
    BY <2>2, PartNone
  <2>7. AtAttribute(o, b, v, n, load', 1)
    BY <1>7, <2>5, <2>6 DEF AtAttribute
  <2>8. InNode(L, saved, load', model', k)
    BY <1>3, <1>5, <1>6, <2>1, <2>5, <2>7 DEF InNode, AtNode
  <2> QED
    BY <2>4, <2>5, <2>8 DEF Loading
<1>12. CASE ~ ReadsNode(p)
  <2>1. Fail
    BY <1>10, <1>12 DEF LoadNode, ReadsNode
  <2>2. written # "whole"
    BY <1>6, <1>9, <1>12 DEF FileIs
  <2> QED
    BY <2>1, <2>2, FailLeads
<1> QED
  BY <1>11, <1>12

\* An attribute.
LEMMA AttributeStep ==
  ASSUME NEW L, FileIs(L), Loading(L, saved, written, load, model), LoadAttribute
  PROVE  Loading(L, saved, written, load', model')
<1>1. load = [at |-> load.at, pos |-> load.pos, left |-> load.left, attrs |-> load.attrs, node |-> load.node]
  BY DEF Loading
<1>2. load.at = "attributes" /\ load.attrs > 0
  BY DEF LoadAttribute
<1>3. PICK k : InNode(L, saved, load, model, k)
  BY <1>2 DEF Loading
<1>4. PICK v, n, o, b, c, r, e :
        /\ v = saved.order[k] /\ n = saved.node[v] /\ o = L.attrOrder[v] /\ b = L.a[k] /\ c = L.c
        /\ r = L.r[k] /\ e = L.r[k + 1]
  OBVIOUS
<1>5. k \in 1 .. Len(saved.order)
  BY <1>3 DEF InNode
<1>6. PICK j : AtAttribute(o, b, v, n, load, j)
  BY <1>3, <1>4 DEF InNode
<1>7. /\ IsNode(n) /\ Listing(o, DOMAIN n.attrs) /\ Len(o) \in Nat /\ NodeIn(c, r, v, n, o, b, e)
      /\ PrefixOf(file, c)
  BY <1>4, <1>5, NodeIs
<1>8. j \in 1 .. Len(o)
  BY <1>2, <1>6, <1>7 DEF AtAttribute
<1>9. PICK p, name, attr, f : p = b[j] /\ name = o[j] /\ attr = n.attrs[name] /\ f = b[j + 1]
  OBVIOUS
<1>10. p \in Nat \ {0} /\ AttributeIn(c, p, name, attr, f)
  <2>1. AttributesIn(c, AttributesFrom(r, n), n.attrs, o, b, e)
    BY <1>7 DEF NodeIn
  <2>2. /\ b \in [1 .. Len(o) + 1 -> Nat \ {0}]
        /\ \A i \in 1 .. Len(o) : AttributeIn(c, b[i], o[i], n.attrs[o[i]], b[i + 1])
    BY <2>1 DEF AttributesIn
  <2>3. p \in Nat \ {0}
    BY <1>7, <1>8, <1>9, <2>2
  <2>4. AttributeIn(c, b[j], o[j], n.attrs[o[j]], b[j + 1])
    BY <1>8, <2>2, Zenon
  <2> QED
    BY <1>9, <2>3, <2>4
<1>11. IsAttribute(attr)
  <2>1. name \in DOMAIN n.attrs
    BY <1>7, <1>8, <1>9 DEF Listing
  <2> QED
    BY <1>7, <1>9, <2>1 DEF IsNode
<1>12. /\ Has(p + 1) => file[p] = name /\ file[p + 1] = attr.tag
       /\ attr.tag = "ints" /\ HasNames(p + 2) =>
            NamesAt(p + 2) = attr.value /\ AfterNames(p + 2) = f
       /\ attr.tag # "ints" /\ Has(p + 2) => file[p + 2] = attr.value /\ p + 3 = f
       /\ Len(file) = Len(c) =>
            /\ Has(p + 1)
            /\ attr.tag = "ints" => HasNames(p + 2)
            /\ attr.tag # "ints" => Has(p + 2)
  BY <1>7, <1>10, <1>11, AttributeRead
<1>13. /\ attr = [tag |-> attr.tag, value |-> attr.value] /\ attr.tag \in {"int", "float", "ints"}
       /\ load.pos = p
  BY <1>6, <1>9, <1>11 DEF IsAttribute, AtAttribute
<1>14. ASSUME NEW value, NEW next, Has(p + 1), value = attr.value, next = f,
              load' = [load EXCEPT !.pos = next, !.attrs = @ - 1,
                         !.node.attrs = Emplace(@, file[p], [tag |-> file[p + 1], value |-> value])],
              model' = model
       PROVE  Loading(L, saved, written, load', model')
  <2>1. load' = [load EXCEPT !.pos = f, !.attrs = @ - 1, !.node.attrs = Emplace(@, name, attr)]
    BY <1>12, <1>13, <1>14
  <2>2. load.node = [name |-> v, op |-> n.op, inputs |-> n.inputs, outputs |-> n.outputs,
                     attrs |-> Part(n.attrs, o, j)]
    BY <1>6 DEF AtAttribute
  <2>3. PICK node : node = [load.node EXCEPT !.attrs = Emplace(@, name, attr)]
    OBVIOUS
  <2>4. load' = [at |-> "attributes", pos |-> f, left |-> load.left, attrs |-> load.attrs - 1, node |-> node]
    BY <1>1, <1>2, <2>1, <2>3
  <2>5. /\ load'.at = "attributes" /\ load'.pos = f /\ load'.left = load.left
        /\ load'.attrs = load.attrs - 1 /\ load'.node = node
    BY <2>4
  <2>6. Emplace(Part(n.attrs, o, j), name, attr) = Part(n.attrs, o, j + 1)
    <3>1. j \in Nat \ {0}
      BY <1>8
    <3> QED
      BY <1>9, <3>1, PartMore
  <2>7. node = [name |-> v, op |-> n.op, inputs |-> n.inputs, outputs |-> n.outputs,
                attrs |-> Part(n.attrs, o, j + 1)]
    BY <2>2, <2>3, <2>6
  <2>8. j + 1 \in 1 .. Len(o) + 1 /\ load.attrs - 1 = Len(o) + 1 - (j + 1)
    BY <1>6, <1>7, <1>8 DEF AtAttribute
  <2>9. AtAttribute(o, b, v, n, load', j + 1)
    BY <1>9, <2>5, <2>7, <2>8 DEF AtAttribute
  <2>10. InNode(L, saved, load', model', k)
    BY <1>3, <1>4, <1>14, <2>5, <2>9 DEF InNode
  <2> QED
    BY <2>4, <2>5, <2>10 DEF Loading
<1>15. CASE Has(p + 1) /\ file[p + 1] = "ints" /\ HasNames(p + 2)
  <2>1. /\ load' = [load EXCEPT !.pos = AfterNames(p + 2), !.attrs = @ - 1,
                      !.node.attrs = Emplace(@, file[p], [tag |-> file[p + 1], value |-> NamesAt(p + 2)])]
        /\ model' = model
    BY <1>13, <1>15 DEF LoadAttribute
  <2> QED
    BY <1>12, <1>14, <1>15, <2>1
<1>16. CASE Has(p + 1) /\ file[p + 1] # "ints" /\ Has(p + 2)
  <2>1. file[p + 1] \in {"int", "float", "ints"}
    BY <1>12, <1>13, <1>16
  <2>2. /\ load' = [load EXCEPT !.pos = p + 3, !.attrs = @ - 1,
                      !.node.attrs = Emplace(@, file[p], [tag |-> file[p + 1], value |-> file[p + 2]])]
        /\ model' = model
    BY <1>13, <1>16, <2>1 DEF LoadAttribute
  <2> QED
    BY <1>12, <1>14, <1>16, <2>2
<1>17. CASE \/ ~ Has(p + 1)
            \/ file[p + 1] = "ints" /\ ~ HasNames(p + 2)
            \/ file[p + 1] # "ints" /\ ~ Has(p + 2)
  <2>1. Fail
    BY <1>12, <1>13, <1>17 DEF LoadAttribute
  <2>2. written # "whole"
    BY <1>4, <1>12, <1>17 DEF FileIs
  <2> QED
    BY <2>1, <2>2, FailLeads
<1> QED
  BY <1>15, <1>16, <1>17

\* A node joins the model.
LEMMA AddNodeStep ==
  ASSUME NEW L, FileIs(L), Loading(L, saved, written, load, model), AddNode
  PROVE  Loading(L, saved, written, load', model')
<1>1. load = [at |-> load.at, pos |-> load.pos, left |-> load.left, attrs |-> load.attrs, node |-> load.node]
  BY DEF Loading
<1>2. load.at = "attributes" /\ load.attrs = 0
  BY DEF AddNode
<1>3. PICK k : InNode(L, saved, load, model, k)
  BY <1>2 DEF Loading
<1>4. PICK v, n, o, b, c, r, e, s :
        /\ v = saved.order[k] /\ n = saved.node[v] /\ o = L.attrOrder[v] /\ b = L.a[k] /\ c = L.c
        /\ r = L.r[k] /\ e = L.r[k + 1] /\ s = saved.order
  OBVIOUS
<1>5. k \in 1 .. Len(s) /\ load.left = Len(s) + 1 - k /\ model = BuiltBefore(saved, k)
  BY <1>3, <1>4 DEF InNode
<1>6. PICK j : AtAttribute(o, b, v, n, load, j)
  BY <1>3, <1>4 DEF InNode
<1>7. /\ IsNode(n) /\ Listing(o, DOMAIN n.attrs) /\ Len(o) \in Nat /\ NodeIn(c, r, v, n, o, b, e)
      /\ Len(s) \in Nat
  BY <1>4, <1>5, NodeIs
<1>8. j = Len(o) + 1 /\ load.pos = b[j]
  BY <1>2, <1>6, <1>7 DEF AtAttribute
<1>9. load.pos = e
  BY <1>7, <1>8 DEF NodeIn, AttributesIn
<1>10. n.attrs = [x \in DOMAIN n.attrs |-> n.attrs[x]]
       /\ n = [op |-> n.op, inputs |-> n.inputs, outputs |-> n.outputs, attrs |-> n.attrs]
  BY <1>7 DEF IsNode
<1>11. Part(n.attrs, o, Len(o) + 1) = n.attrs
  BY <1>7, <1>10, PartAll
<1>12. load.node = [name |-> v, op |-> n.op, inputs |-> n.inputs, outputs |-> n.outputs, attrs |-> n.attrs]
  BY <1>6, <1>8, <1>11 DEF AtAttribute
<1>13. [op |-> load.node.op, inputs |-> load.node.inputs, outputs |-> load.node.outputs,
        attrs |-> load.node.attrs] = n
  BY <1>10, <1>12
<1>14. /\ model' = [model EXCEPT !.node = Assign(@, v, n), !.order = Append(@, v)]
       /\ load' = [load EXCEPT !.at = "nodes", !.left = @ - 1]
  <2>1. load.node.name = v
    BY <1>12
  <2>2. /\ model' = [model EXCEPT
              !.node = Assign(@, load.node.name,
                         [op |-> load.node.op, inputs |-> load.node.inputs, outputs |-> load.node.outputs,
                          attrs |-> load.node.attrs]),
              !.order = Append(@, load.node.name)]
        /\ load' = [load EXCEPT !.at = "nodes", !.left = @ - 1]
    BY DEF AddNode
  <2> QED
    BY <1>13, <2>1, <2>2
<1>15. load' = [at |-> "nodes", pos |-> e, left |-> load.left - 1, attrs |-> load.attrs, node |-> load.node]
  BY <1>1, <1>9, <1>14
<1>16. /\ load'.at = "nodes" /\ load'.pos = e /\ load'.left = load.left - 1
       /\ load'.attrs = load.attrs /\ load'.node = load.node
  BY <1>15
<1>17. Assign(Part(saved.node, s, k), v, n) = Part(saved.node, s, k + 1)
  <2>1. k \in Nat \ {0}
    BY <1>5
  <2> QED
    BY <1>4, <2>1, PartMore
<1>18. Append(SubSeq(s, 1, k - 1), v) = SubSeq(s, 1, (k + 1) - 1)
  <2>1. PICK S : s \in Seq(S)
    BY <1>4, ModelIs DEF FileIs, Listing
  <2>2. PICK g, h : g = Append(SubSeq(s, 1, k - 1), v) /\ h = SubSeq(s, 1, (k + 1) - 1)
    OBVIOUS
  <2>3. (k + 1) - 1 = k /\ k - 1 \in Nat /\ k - 1 <= Len(s) /\ k <= Len(s) /\ v \in S
    BY <1>4, <1>5, <1>7, <2>1
  <2>4. h \in Seq(S) /\ Len(h) = k /\ \A i \in 1 .. k : h[i] = s[i]
    BY <1>5, <1>7, <2>1, <2>2, <2>3
  <2>5. PICK f : f = SubSeq(s, 1, k - 1)
    OBVIOUS
  <2>6. f \in Seq(S) /\ Len(f) = k - 1 /\ \A i \in 1 .. k - 1 : f[i] = s[i]
    BY <1>5, <1>7, <2>1, <2>3, <2>5
  <2>7. g = Append(f, v)
    BY <2>2, <2>5
  <2>8. g \in Seq(S) /\ Len(g) = k /\ (\A i \in 1 .. k - 1 : g[i] = s[i]) /\ g[k] = s[k]
    BY <1>4, <1>5, <2>3, <2>6, <2>7
  <2>9. \A i \in 1 .. k : g[i] = h[i]
    <3> TAKE i \in 1 .. k
    <3>1. i \in 1 .. k - 1 \/ i = k
      BY <1>5, <1>7
    <3> QED
      BY <2>4, <2>8, <3>1
  <2>10. IsSequence(g) /\ IsSequence(h)
    BY <2>4, <2>8 DEF IsSequence
  <2>11. g = [i \in 1 .. k |-> g[i]] /\ h = [i \in 1 .. k |-> h[i]]
    BY <2>4, <2>8, <2>10, SequenceIs
  <2>12. g = h
    BY <2>9, <2>11
  <2> QED
    BY <2>2, <2>12
<1>19. model' = Built(saved.initializers, Assign(Part(saved.node, s, k), v, n),
                      Append(SubSeq(s, 1, k - 1), v))
  BY <1>4, <1>5, <1>14 DEF BuiltBefore, Built
<1>20. model' = BuiltBefore(saved, k + 1)
  BY <1>4, <1>17, <1>18, <1>19, Zenon DEF BuiltBefore
<1>21. k + 1 \in 1 .. Len(s) + 1 /\ load.left - 1 = Len(s) + 1 - (k + 1)
  BY <1>5, <1>7
<1>22. AtNode(L, saved, load', model', k + 1)
  BY <1>4, <1>16, <1>20, <1>21 DEF AtNode
<1> QED
  BY <1>15, <1>16, <1>22 DEF Loading

\* The inputs and outputs, and the end.
LEMMA LoadEndsStep ==
  ASSUME NEW L, FileIs(L), Loading(L, saved, written, load, model), LoadEnds
  PROVE  Loading(L, saved, written, load', model')
<1>1. load = [at |-> load.at, pos |-> load.pos, left |-> load.left, attrs |-> load.attrs, node |-> load.node]
  BY DEF Loading
<1>2. load.at = "nodes" /\ load.left = 0
  BY DEF LoadEnds
<1>3. PICK k : AtNode(L, saved, load, model, k)
  BY <1>2 DEF Loading
<1>4. PICK s, M, c, p, ins, outs :
        /\ s = saved.order /\ M = Len(s) /\ c = L.c /\ p = L.r[M + 1]
        /\ ins = saved.inputs /\ outs = saved.outputs
  OBVIOUS
<1>5. Listing(s, DOMAIN saved.node) /\ M \in Nat
  <2>1. Listing(s, DOMAIN saved.node)
    BY <1>4, ModelIs DEF FileIs
  <2> QED
    BY <1>4, <2>1 DEF Listing
<1>6. k = M + 1 /\ load.pos = p /\ model = BuiltBefore(saved, M + 1)
  BY <1>2, <1>3, <1>4, <1>5 DEF AtNode
<1>7. PICK x, y, l : x = Len(ins) /\ y = Len(outs) /\ l = Len(file)
  OBVIOUS
<1>8. IsSequence(ins) /\ IsSequence(outs) /\ x \in Nat /\ y \in Nat
  <2>1. IsSequence(ins) /\ IsSequence(outs)
    BY <1>4, ModelIs DEF FileIs
  <2> QED
    BY <1>7, <2>1, SequenceIs
<1>9. /\ p \in Nat \ {0} /\ NamesIn(c, p, ins) /\ NamesIn(c, p + 1 + x, outs) /\ Len(c) = p + 1 + x + y
  <2>1. /\ L.r \in [1 .. M + 1 -> Nat \ {0}] /\ NamesIn(c, p, ins) /\ NamesIn(c, p + 1 + x, outs)
        /\ Len(c) = p + 1 + x + y
    BY <1>4, <1>7 DEF FileIs, Layout
  <2>2. p \in Nat \ {0}
    BY <1>4, <1>5, <2>1
  <2> QED
    BY <2>1, <2>2
<1>10. PrefixOf(file, c) /\ l \in Nat /\ l <= Len(c) /\ (written = "whole" <=> l = Len(c))
  <2>1. PrefixOf(file, c) /\ (written = "whole" <=> l = Len(c))
    BY <1>4, <1>7 DEF FileIs
  <2> QED
    BY <1>7, <2>1, SequenceIs DEF PrefixOf
<1>11. /\ HasNames(p) <=> p + x <= l
       /\ HasNames(p) => NamesAt(p) = ins /\ AfterNames(p) = p + 1 + x
  <2>1. /\ HasNames(p) <=> p + Len(ins) <= Len(file)
        /\ HasNames(p) => NamesAt(p) = ins /\ AfterNames(p) = p + 1 + Len(ins)
    BY <1>8, <1>9, <1>10, NamesRead
  <2> QED
    BY <1>7, <2>1
<1>12. PICK u : u = p + 1 + x /\ u \in Nat \ {0}
  BY <1>8, <1>9
<1>13. /\ HasNames(u) <=> u + y <= l
       /\ HasNames(u) => NamesAt(u) = outs
  <2>1. IsSequence(outs) /\ NamesIn(c, u, outs) /\ u \in Nat \ {0}
    BY <1>8, <1>9, <1>12
  <2>2. /\ HasNames(u) <=> u + Len(outs) <= Len(file)
        /\ HasNames(u) => NamesAt(u) = outs /\ AfterNames(u) = u + 1 + Len(outs)
    BY <1>10, <2>1, NamesRead
  <2> QED
    BY <1>7, <2>2
<1>14. CASE HasNames(p) /\ HasNames(AfterNames(p))
  <2>1. AfterNames(p) = u /\ NamesAt(p) = ins /\ NamesAt(u) = outs /\ u + y <= l
    BY <1>11, <1>12, <1>13, <1>14
  <2>2. written = "whole"
    BY <1>8, <1>9, <1>10, <1>12, <2>1
  <2>3. /\ model' = [model EXCEPT !.inputs = ins, !.outputs = outs]
        /\ load' = [load EXCEPT !.at = "loaded"]
    BY <1>6, <1>14, <2>1 DEF LoadEnds
  <2>4. Part(saved.node, s, M + 1) = saved.node
    <3>1. saved.node = [i \in DOMAIN saved.node |-> saved.node[i]]
      BY ModelIs DEF FileIs
    <3> QED
      BY <1>4, <1>5, <3>1, PartAll
  <2>5. SubSeq(s, 1, (M + 1) - 1) = s
    <3>1. s \in Seq(DOMAIN saved.node)
      BY <1>5 DEF Listing
    <3> QED
      BY <1>4, <3>1
  <2>6. model = Built(saved.initializers, saved.node, s)
    BY <1>4, <1>6, <2>4, <2>5 DEF BuiltBefore
  <2>7. model' = [initializers |-> saved.initializers, node |-> saved.node, order |-> s,
                  inputs |-> ins, outputs |-> outs]
    BY <2>3, <2>6 DEF Built
  <2>8. saved = [initializers |-> saved.initializers, node |-> saved.node, order |-> saved.order,
                 inputs |-> saved.inputs, outputs |-> saved.outputs]
    BY DEF FileIs, IsModel
  <2>9. model' = saved
    BY <1>4, <2>7, <2>8
  <2>10. load' = [at |-> "loaded", pos |-> load.pos, left |-> load.left, attrs |-> load.attrs, node |-> load.node]
    BY <1>1, <2>3
  <2>11. /\ load'.at = "loaded" /\ load'.pos = load.pos /\ load'.left = load.left
         /\ load'.attrs = load.attrs /\ load'.node = load.node
    BY <2>10
  <2> QED
    BY <2>2, <2>9, <2>10, <2>11 DEF Loading
<1>15. CASE ~ (HasNames(p) /\ HasNames(AfterNames(p)))
  <2>1. Fail
    BY <1>6, <1>15 DEF LoadEnds
  <2>2. written # "whole"
    BY <1>8, <1>9, <1>10, <1>11, <1>12, <1>13, <1>15
  <2> QED
    BY <2>1, <2>2, FailLeads
<1> QED
  BY <1>14, <1>15

\* load, whatever it does next.
LEMMA LoadStep ==
  ASSUME NEW L, FileIs(L), Loading(L, saved, written, load, model), Load
  PROVE  Loading(L, saved, written, load', model')
<1>1. \/ LoadHeader \/ LoadInitializer \/ InitializersEnd \/ LoadNode
      \/ LoadAttribute \/ AddNode \/ LoadEnds
  BY DEF Load
<1> QED
  BY <1>1, HeaderStep, InitializerStep, InitializersEndStep, NodeStep, AttributeStep, AddNodeStep,
     LoadEndsStep, Zenon

\* The shape of load.
LoadShape(ld) ==
  ld = [at |-> ld.at, pos |-> ld.pos, left |-> ld.left, attrs |-> ld.attrs, node |-> ld.node]

\* Before save has run there is a foreign file; afterwards what it wrote, as far
\* as it came.
FileInv ==
  /\ LoadShape(load)
  /\ stage = "options" => load.at = "closed"
  /\ written = "other" => file \in OtherFile /\ load.at \in {"closed", "failed"}
  /\ written # "other" => \E L : FileIs(L) /\ Loading(L, saved, written, load, model)

\* The start.
LEMMA FileStarts == CommandInit => FileInv
<1>1. ASSUME CommandInit
      PROVE  /\ file \in OtherFile /\ written = "other"
             /\ load = [at |-> "closed", pos |-> 0, left |-> 0, attrs |-> 0, node |-> << >>]
  BY <1>1 DEF CommandInit, FileInit
<1> QED
  BY <1>1 DEF FileInv, LoadShape

\* save.
LEMMA SaveStep ==
  ASSUME FileInv, SaveBefore
  PROVE  FileInv'
<1>0. PICK m \in SavedModel :
        \E order \in SetToSeqs(DOMAIN m.initializers), attrOrder \in AttrOrders(m) :
          \E n \in 0 .. Len(Encoded(m, order, attrOrder)) :
            /\ file' = SubSeq(Encoded(m, order, attrOrder), 1, n) /\ saved' = m
            /\ written' = IF n = Len(Encoded(m, order, attrOrder)) THEN "whole" ELSE "cut"
  BY DEF SaveBefore, Save
<1>a. PICK order \in SetToSeqs(DOMAIN m.initializers), attrOrder \in AttrOrders(m) :
        \E n \in 0 .. Len(Encoded(m, order, attrOrder)) :
          /\ file' = SubSeq(Encoded(m, order, attrOrder), 1, n) /\ saved' = m
          /\ written' = IF n = Len(Encoded(m, order, attrOrder)) THEN "whole" ELSE "cut"
  BY <1>0
<1>b. PICK c : c = Encoded(m, order, attrOrder)
  OBVIOUS
<1>1. PICK n \in 0 .. Len(c) :
        /\ file' = SubSeq(c, 1, n) /\ saved' = m
        /\ written' = IF n = Len(c) THEN "whole" ELSE "cut"
  BY <1>a, <1>b
<1>2. stage = "options" /\ stage' = stage /\ load' = load /\ model' = model
  BY DEF SaveBefore, Save, cliVars
<1>3. IsModel(m)
  BY ModelAssumption
<1>4. PICK L : Layout(m, L) /\ L.c = c
  BY <1>3, <1>b, LayoutExists
<1>5. IsSequence(c)
  BY <1>4 DEF Layout
<1>6. PICK f, k : f = SubSeq(c, 1, n) /\ k = Len(c)
  OBVIOUS
<1>7. k \in Nat /\ n \in 0 .. k
  BY <1>5, <1>6, SequenceIs
<1>8. Len(f) = n /\ PrefixOf(f, c)
  <2>1. PICK S : c \in Seq(S)
    BY <1>5 DEF IsSequence
  <2>2. f \in Seq(S) /\ Len(f) = n /\ \A i \in 1 .. n : f[i] = c[i]
    BY <1>6, <1>7, <2>1
  <2>3. IsSequence(f)
    BY <2>2 DEF IsSequence
  <2> QED
    BY <1>5, <1>6, <1>7, <2>2, <2>3 DEF PrefixOf
<1>9. FileIs(L)'
  <2>1. written' = "whole" <=> n = k
    BY <1>1, <1>6
  <2> QED
    BY <1>1, <1>3, <1>4, <1>6, <1>8, <2>1 DEF FileIs
<1>10. load.at = "closed" /\ LoadShape(load) /\ written' # "other"
  BY <1>1, <1>2 DEF FileInv
<1>11. Loading(L, saved', written', load', model')
  BY <1>2, <1>10 DEF Loading, LoadShape
<1> QED
  BY <1>2, <1>9, <1>10, <1>11 DEF FileInv

\* load.
LEMMA LoadModelStep ==
  ASSUME FileInv, LoadModel
  PROVE  FileInv'
<1>1. stage = "loading" /\ stage' = stage /\ Load /\ UNCHANGED <<saved, file, written>>
  BY DEF LoadModel, Load, cliVars
<1>2. CASE written = "other"
  <2>1. file \in OtherFile /\ load.at \in {"closed", "failed"} /\ LoadShape(load)
    BY <1>2 DEF FileInv
  <2>2. LoadHeader
    BY <1>1, <2>1 DEF Load, LoadInitializer, InitializersEnd, LoadNode, LoadAttribute,
                      AddNode, LoadEnds
  <2>3. ~ (Has(3) /\ file[1] = Magic /\ file[2] = Version)
    <3>1. ~ (Len(file) >= 3 /\ file[1] = Magic /\ file[2] = Version)
      BY <2>1, OtherAssumption
    <3>2. Has(3) => Len(file) >= 3
      BY DEF Has
    <3> QED
      BY <3>1, <3>2
  <2>4. load' = [load EXCEPT !.at = "failed"]
    BY <2>2, <2>3 DEF LoadHeader, Fail
  <2>5. load' = [at |-> "failed", pos |-> load.pos, left |-> load.left, attrs |-> load.attrs, node |-> load.node]
    BY <2>1, <2>4 DEF LoadShape
  <2>6. LoadShape(load') /\ load'.at = "failed"
    BY <2>5 DEF LoadShape
  <2> QED
    BY <1>1, <1>2, <2>1, <2>6 DEF FileInv
<1>3. CASE written # "other"
  <2>1. PICK L : FileIs(L) /\ Loading(L, saved, written, load, model)
    BY <1>3 DEF FileInv
  <2>2. Loading(L, saved, written, load', model')
    BY <1>1, <2>1, LoadStep
  <2>3. FileIs(L)'
    BY <1>1, <2>1 DEF FileIs
  <2>4. LoadShape(load')
    BY <2>2 DEF Loading, LoadShape
  <2> QED
    BY <1>1, <1>3, <2>2, <2>3, <2>4 DEF FileInv
<1> QED
  BY <1>2, <1>3

\* An engine opens the file.
LEMMA StartEngineStep ==
  ASSUME FileInv, StartEngine
  PROVE  FileInv'
<1>1. /\ stage' = "loading" /\ load' = [load EXCEPT !.at = "closed"]
      /\ UNCHANGED <<saved, file, written, model>>
  BY DEF StartEngine
<1>2. load' = [at |-> "closed", pos |-> load.pos, left |-> load.left, attrs |-> load.attrs, node |-> load.node]
  BY <1>1 DEF FileInv, LoadShape
<1>3. LoadShape(load') /\ load'.at = "closed"
  BY <1>2 DEF LoadShape
<1>4. ASSUME NEW L, FileIs(L)
      PROVE  FileIs(L)' /\ Loading(L, saved, written, load', model')
  BY <1>1, <1>3, <1>4 DEF FileIs, Loading, LoadShape
<1>5. written' # "other" => \E L : FileIs(L)' /\ Loading(L, saved', written', load', model')
  BY <1>1, <1>4 DEF FileInv
<1> QED
  BY <1>1, <1>3, <1>5 DEF FileInv

\* What leaves the file alone.
LEMMA FileStays ==
  ASSUME FileInv, UNCHANGED <<saved, file, written, load, model>>, stage' = "options" => stage = "options"
  PROVE  FileInv'
<1>1. ASSUME NEW L, FileIs(L) PROVE FileIs(L)'
  BY <1>1 DEF FileIs
<1> QED
  BY <1>1 DEF FileInv

\* Every step keeps the invariant.
LEMMA FileStep ==
  ASSUME FileInv, [CommandNext]_commandVars
  PROVE  FileInv'
<1>1. CASE ParseOption \/ OptionsDone \/ LoadDataset \/ EngineStarted
           \/ EvaluateBatch \/ Report
  <2>1. UNCHANGED fileVars
    BY <1>1 DEF ParseOption, OptionsDone, LoadDataset, EngineStarted,
                EvaluateBatch, Report
  <2>2. stage' = "options" => stage = "options"
    BY <1>1 DEF ParseOption, OptionsDone, LoadDataset, EngineStarted,
                EvaluateBatch, Report, Error
  <2> QED
    BY <2>1, <2>2, FileStays DEF fileVars
<1>2. CASE UNCHANGED commandVars
  BY <1>2, FileStays DEF commandVars, fileVars, cliVars
<1> QED
  BY <1>1, <1>2, SaveStep, LoadModelStep, StartEngineStep DEF CommandNext

\* The invariant holds throughout.
LEMMA FileInvariance ==
  CommandSpec => []FileInv
<1>1. FileInv /\ [CommandNext]_commandVars => FileInv'
  BY FileStep
<1> QED
  BY <1>1, FileStarts, PTL DEF CommandSpec

(***************************************************************************)
(* ModelLoader: load returns the model that save wrote, whatever order the *)
(* maps were written in, and from no file that was cut; it throws only if  *)
(* the file was cut or foreign, or some tensor has no dimensions.          *)
(***************************************************************************)
THEOREM LoadIsRoundTrip ==
  CommandSpec => []RoundTrip
<1>1. FileInv => RoundTrip
  <2> SUFFICES ASSUME FileInv PROVE RoundTrip
    OBVIOUS
  <2>1. CASE written = "other"
    BY <2>1 DEF FileInv, RoundTrip
  <2>2. CASE written # "other"
    <3>1. PICK L : Loading(L, saved, written, load, model)
      BY <2>2 DEF FileInv
    <3> QED
      BY <3>1 DEF Loading, Scalar, RoundTrip
  <2> QED
    BY <2>1, <2>2
<1> QED
  BY <1>1, FileInvariance, PTL

\* Of two numbers, the larger and the smaller.
LEMMA OfTwo ==
  ASSUME NEW x \in Int, NEW y \in Int
  PROVE  /\ Max({x, y}) \in {x, y} /\ Max({x, y}) >= x /\ Max({x, y}) >= y
         /\ Min({x, y}) \in {x, y} /\ Min({x, y}) <= x /\ Min({x, y}) <= y
<1>1. \E z \in {x, y} : \A w \in {x, y} : z >= w
  <2>1. CASE x >= y
    BY <2>1
  <2>2. CASE ~ (x >= y)
    BY <2>2
  <2> QED
    BY <2>1, <2>2
<1>2. \E z \in {x, y} : \A w \in {x, y} : z <= w
  <2>1. CASE x <= y
    BY <2>1
  <2>2. CASE ~ (x <= y)
    BY <2>2
  <2> QED
    BY <2>1, <2>2
<1>3. Max({x, y}) \in {x, y} /\ \A w \in {x, y} : Max({x, y}) >= w
  BY <1>1 DEF Max
<1>4. Min({x, y}) \in {x, y} /\ \A w \in {x, y} : Min({x, y}) <= w
  BY <1>2 DEF Min
<1> QED
  BY <1>3, <1>4

\* A configuration has a limit.
HasLimit(c) == c = [x \in DOMAIN c |-> c[x]] /\ "maxBatch" \in DOMAIN c

\* A line does not take it away.
LEMMA LineKeepsLimit ==
  ASSUME NEW line, NEW c, HasLimit(c)
  PROVE  HasLimit(TakeLine(line, c))
<1>1. \A v, x : HasLimit([c EXCEPT ![v] = x])
  BY DEF HasLimit
<1>2. PICK d : d = TakeLine(line, c)
  OBVIOUS
<1>3. \/ d = c
      \/ \E x : \/ d = [c EXCEPT !.model = x] \/ d = [c EXCEPT !.provider = x] \/ d = [c EXCEPT !.gemm = x]
                \/ d = [c EXCEPT !.maxBatch = x] \/ d = [c EXCEPT !.threads = x] \/ d = [c EXCEPT !.port = x]
                \/ d = [c EXCEPT !.thrown = x]
  BY <1>2 DEF TakeLine
<1>4. HasLimit(d)
  BY <1>1, <1>3, SMTT(30)
<1> QED
  BY <1>2, <1>4

\* g holds what the first k lines make of a configuration.
LinesTaken(lines, c, g, k) ==
  g = [n \in 0 .. k |-> IF n = 0 THEN c ELSE TakeLine(lines[n], g[n - 1])]

\* There is always such a g.
LEMMA LinesTakenExists ==
  ASSUME NEW lines, NEW c
  PROVE  \A k \in Nat : \E g : LinesTaken(lines, c, g, k)
<1> DEFINE Good == {k \in Nat : \E g : LinesTaken(lines, c, g, k)}
<1>1. 0 \in Good
  <2>1. PICK g : g = [n \in 0 .. 0 |-> c]
    OBVIOUS
  <2>2. g = [n \in 0 .. 0 |-> IF n = 0 THEN c ELSE TakeLine(lines[n], g[n - 1])]
    BY <2>1
  <2> QED
    BY <2>2 DEF LinesTaken
<1>2. ASSUME NEW k \in Nat, k \in Good
      PROVE  k + 1 \in Good
  <2>1. PICK g : LinesTaken(lines, c, g, k)
    BY <1>2
  <2>2. PICK h : h = [n \in 0 .. k + 1 |-> IF n <= k THEN g[n] ELSE TakeLine(lines[n], g[k])]
    OBVIOUS
  <2>3. ASSUME NEW n \in 0 .. k + 1
        PROVE  h[n] = IF n = 0 THEN c ELSE TakeLine(lines[n], h[n - 1])
    <3>1. CASE n <= k
      <4>1. g[n] = IF n = 0 THEN c ELSE TakeLine(lines[n], g[n - 1])
        <5>1. n \in 0 .. k
          BY <3>1
        <5>2. g = [i \in 0 .. k |-> IF i = 0 THEN c ELSE TakeLine(lines[i], g[i - 1])]
          BY <2>1 DEF LinesTaken
        <5> QED
          BY <5>1, <5>2, Zenon
      <4>2. n # 0 => h[n - 1] = g[n - 1]
        BY <2>2, <3>1
      <4> QED
        BY <2>2, <3>1, <4>1, <4>2
    <3>2. CASE n = k + 1
      <4>1. n # 0 /\ n - 1 = k /\ k \in 0 .. k + 1 /\ h[k] = g[k]
        BY <2>2, <3>2
      <4>2. h[n] = TakeLine(lines[n], g[k])
        BY <2>2, <3>2
      <4> QED
        BY <4>1, <4>2
    <3> QED
      BY <3>1, <3>2
  <2>4. h = [n \in 0 .. k + 1 |-> IF n = 0 THEN c ELSE TakeLine(lines[n], h[n - 1])]
    <3>1. h = [n \in 0 .. k + 1 |-> h[n]]
      BY <2>2
    <3> QED
      BY <2>3, <3>1
  <2>5. LinesTaken(lines, c, h, k + 1)
    BY <2>4, Zenon DEF LinesTaken
  <2> QED
    BY <2>5
<1> HIDE DEF Good
<1>3. Nat \subseteq Good
  BY <1>1, <1>2, Induct
<1> QED
  BY <1>3 DEF Good

\* So a configuration from a file has one.
LEMMA FileHasLimit ==
  ASSUME NEW name \in DOMAIN ConfigFile
  PROVE  HasLimit(FromFile(name))
<1>1. PICK lines, m, c : lines = ConfigFile[name] /\ m = Len(lines) /\ c = DefaultConfig
  OBVIOUS
<1>2. m \in Nat
  BY <1>1, ConfigAssumption
<1> DEFINE G == CHOOSE g : LinesTaken(lines, c, g, m)
<1>3. LinesTaken(lines, c, G, m)
  BY <1>2, LinesTakenExists
<1>4. FromFile(name) = G[m]
  BY <1>1 DEF FromFile, LinesTaken
<1> HIDE DEF G
<1>5. \A n \in 0 .. m : G[n] = IF n = 0 THEN c ELSE TakeLine(lines[n], G[n - 1])
  BY <1>3 DEF LinesTaken
<1> DEFINE S == {n \in Nat : n <= m => HasLimit(G[n])}
<1>6. 0 \in S
  <2>1. HasLimit(c)
    BY <1>1 DEF DefaultConfig, HasLimit
  <2> QED
    BY <1>2, <1>5, <2>1
<1>7. ASSUME NEW n \in Nat, n \in S PROVE n + 1 \in S
  <2>1. ASSUME n + 1 <= m PROVE HasLimit(G[n + 1])
    <3>1. HasLimit(G[n])
      BY <1>2, <1>7, <2>1
    <3>2. n + 1 \in 0 .. m /\ n + 1 # 0 /\ (n + 1) - 1 = n
      BY <1>2, <2>1
    <3>3. G[n + 1] = TakeLine(lines[n + 1], G[n])
      BY <1>5, <3>2
    <3> QED
      BY <3>1, <3>3, LineKeepsLimit
  <2> QED
    BY <2>1
<1> HIDE DEF S
<1>8. Nat \subseteq S
  BY <1>6, <1>7, Induct
<1>9. HasLimit(G[m])
  BY <1>2, <1>8 DEF S
<1> QED
  BY <1>4, <1>9

\* The samples up to n whose label is their class.
Right(i) == Class(saved, samples[i].pixels) = samples[i].label
RightUpTo(n) == {i \in 1 .. Len(samples) : i <= n /\ Right(i)}

\* Options and the limit agree once the options are taken; the dataset in use
\* and the sweep are there; an evaluation has counted what it has passed.
CliInv ==
  /\ ~ refused /\ command \in Command /\ parsed \in Nat
  /\ HasLimit(config) /\ config.maxBatch \in Int /\ batchSize \in Nat
  /\ stage \notin {"options", "error"} => batchSize \in 1 .. config.maxBatch
  /\ IsSequence(samples)
  /\ stage \in {"options", "dataset"} => sweep = 1
  /\ stage \in {"engine", "loading", "evaluating"} => sweep \in 1 .. Len(Plan)
  /\ stage = "evaluating" =>
       /\ load.at = "loaded" /\ offset \in Nat /\ IsSequence(input)
       /\ correct = Cardinality(RightUpTo(offset))

\* The start.
LEMMA CliStarts ==
  CommandInit => CliInv
<1> SUFFICES ASSUME CommandInit PROVE CliInv
  OBVIOUS
<1>1. /\ ~ refused /\ command \in Command /\ parsed = 0 /\ batchSize = 1 /\ stage = "options"
      /\ config = [DefaultConfig EXCEPT !.model = TRUE] /\ samples = << >> /\ sweep = 1
  BY DEF CommandInit
<1>2. HasLimit(config) /\ config.maxBatch = DefaultBatch
  BY <1>1 DEF DefaultConfig, HasLimit
<1>3. IsSequence(samples)
  <2>1. << >> \in Seq({})
    OBVIOUS
  <2> QED
    BY <1>1, <2>1 DEF IsSequence
<1>4. DefaultBatch \in Nat
  BY SizeAssumption
<1> QED
  BY <1>1, <1>2, <1>3, <1>4 DEF CliInv

\* An engine takes the batches it is given.
LEMMA BatchFits ==
  ASSUME config.maxBatch \in Int,
         batchSize \in 1 .. config.maxBatch, sweep \in 1 .. Len(Plan)
  PROVE  Batch \in Nat \ {0} /\ Batch <= SessionMaxBatch
<1>1. CASE command.bench
  <2>1. Plan = Sweeps
    BY <1>1 DEF Plan
  <2>2. PICK s : s = Sweeps[sweep]
    OBVIOUS
  <2>3. s \in [batch : 1 .. MaxBatchSize, raise : BOOLEAN] /\ (s.raise \/ s.batch = 1)
    <3>1. Sweeps \in Seq([batch : 1 .. MaxBatchSize, raise : BOOLEAN])
      BY SweepsAssumption
    <3>2. sweep \in DOMAIN Sweeps
      BY <2>1, <3>1
    <3>3. s \in [batch : 1 .. MaxBatchSize, raise : BOOLEAN]
      <4>1. PICK R : R = [batch : 1 .. MaxBatchSize, raise : BOOLEAN]
        OBVIOUS
      <4>2. Sweeps \in Seq(R)
        BY <3>1, <4>1
      <4>3. Sweeps[sweep] \in R
        BY <3>2, <4>2
      <4> QED
        BY <2>2, <4>1, <4>3
    <3>4. \A i \in DOMAIN Sweeps : Sweeps[i].raise \/ Sweeps[i].batch = 1
      BY SweepsAssumption
    <3> QED
      BY <2>2, <3>2, <3>3, <3>4
  <2>4. Batch = s.batch /\ s.batch \in Nat \ {0}
    BY <2>1, <2>2, <2>3, SizeAssumption DEF Batch
  <2>5. SessionMaxBatch = IF s.raise THEN Max({config.maxBatch, s.batch}) ELSE config.maxBatch
    BY <2>1, <2>2, <2>4 DEF SessionMaxBatch
  <2>6. Max({config.maxBatch, s.batch}) >= s.batch
    <3>1. PICK x, y : x = config.maxBatch /\ y = s.batch
      OBVIOUS
    <3>2. x \in Int /\ y \in Int
      BY <2>4, <3>1
    <3>3. Max({x, y}) >= y
      BY <3>2, OfTwo
    <3> QED
      BY <3>1, <3>3
  <2>7. SessionMaxBatch >= s.batch
    BY <2>3, <2>5, <2>6
  <2> QED
    BY <2>4, <2>5, <2>6, <2>7
<1>2. CASE ~ command.bench
  <2>1. Plan = <<[batch |-> batchSize, raise |-> FALSE]>>
    BY <1>2 DEF Plan
  <2>2. sweep = 1
    BY <2>1
  <2>3. Batch = batchSize /\ SessionMaxBatch = config.maxBatch
    BY <2>1, <2>2 DEF Batch, SessionMaxBatch
  <2> QED
    BY <2>3
<1> QED
  BY <1>1, <1>2

\* An option.
LEMMA ParseOptionStep ==
  ASSUME CliInv, ParseOption
  PROVE  CliInv'
<1>1. PICK option, value : option = command.options[parsed + 1][1] /\ value = command.options[parsed + 1][2]
  OBVIOUS
<1>2. /\ stage = "options" /\ parsed < Len(command.options) /\ parsed' = parsed + 1
      /\ UNCHANGED <<command, samples, sweep, refused>>
  BY DEF ParseOption
<1>3. \/ /\ value \in DOMAIN ConfigFile /\ Valid(FromFile(value))
         /\ config' = FromFile(value) /\ UNCHANGED <<stage, batchSize>>
      \/ /\ option = "batch" /\ value \notin {Missing, Malformed}
         /\ batchSize' = Unsigned(value) /\ UNCHANGED <<stage, config>>
      \/ \E x : config' = [config EXCEPT !.threads = x] /\ UNCHANGED <<stage, batchSize>>
      \/ \E x : config' = [config EXCEPT !.gemm = x] /\ UNCHANGED <<stage, batchSize>>
      \/ UNCHANGED <<stage, config, batchSize>>
      \/ stage' = "error" /\ UNCHANGED <<config, batchSize>>
  BY <1>1 DEF ParseOption, Error
<1>4. HasLimit(config') /\ config'.maxBatch \in Int
  <2>1. CASE value \in DOMAIN ConfigFile /\ Valid(FromFile(value)) /\ config' = FromFile(value)
    <3>1. HasLimit(FromFile(value))
      BY <2>1, FileHasLimit
    <3>2. FromFile(value).maxBatch \in Int
      BY <2>1 DEF Valid
    <3> QED
      BY <2>1, <3>1, <3>2
  <2>2. ASSUME NEW x, config' = [config EXCEPT !.threads = x] \/ config' = [config EXCEPT !.gemm = x]
        PROVE  HasLimit(config') /\ config'.maxBatch \in Int
    BY <2>2 DEF CliInv, HasLimit
  <2>3. CASE config' = config
    BY <2>3 DEF CliInv
  <2> QED
    BY <1>3, <2>1, <2>2, <2>3
<1>5. batchSize' \in Nat
  <2>1. ASSUME option = "batch", value \notin {Missing, Malformed}
        PROVE  Unsigned(value) \in Nat
    <3>1. command \in Command
      BY DEF CliInv
    <3>2. PICK options : options = command.options
      OBVIOUS
    <3>3. \A i \in DOMAIN options : options[i][1] = "batch" => options[i][2] \in Int \cup {Missing, Malformed}
      BY <3>1, <3>2, CommandAssumption
    <3>4. DOMAIN options = 1 .. Len(options) /\ Len(options) \in Nat
      <4>1. options \in Seq(ToSet(options))
        BY <3>1, <3>2, CommandAssumption
      <4> QED
        BY <4>1
    <3>5. parsed + 1 \in DOMAIN options
      BY <1>2, <3>2, <3>4 DEF CliInv
    <3>6. value \in Int
      BY <1>1, <2>1, <3>2, <3>3, <3>5
    <3>7. SizeRange \in Nat \ {0}
      BY SizeAssumption
    <3>8. value % SizeRange \in Nat
      BY <3>6, <3>7
    <3> QED
      BY <3>8 DEF Unsigned
  <2>2. batchSize \in Nat
    BY DEF CliInv
  <2> QED
    BY <1>3, <2>1, <2>2
<1>6. stage' \in {"options", "error"}
  BY <1>2, <1>3
<1> QED
  BY <1>2, <1>4, <1>5, <1>6 DEF CliInv

\* The end of the options.
LEMMA OptionsDoneStep ==
  ASSUME CliInv, OptionsDone
  PROVE  CliInv'
<1>1. PICK batch, raised : /\ batch = Max({batchSize, 1})
                           /\ raised = [config EXCEPT !.maxBatch = Max({@, batch})]
  OBVIOUS
<1>2. UNCHANGED <<command, parsed, samples, sweep, refused>> /\ stage = "options"
  BY DEF OptionsDone
<1>3. HasLimit(config) /\ config.maxBatch \in Int /\ batchSize \in Nat
  BY DEF CliInv
<1>4. \/ Valid(raised) /\ stage' = "dataset" /\ config' = raised /\ batchSize' = batch
      \/ stage' = "error" /\ UNCHANGED <<config, batchSize>>
  BY <1>1 DEF OptionsDone, Error
<1>5. CASE stage' = "dataset" /\ config' = raised /\ batchSize' = batch
  <2>1. batch \in Nat \ {0}
    <3>1. batch \in {batchSize, 1} /\ batch >= 1
      BY <1>1, <1>3, OfTwo
    <3> QED
      BY <1>3, <3>1
  <2>2. PICK limit : limit = Max({config.maxBatch, batch})
    OBVIOUS
  <2>3. limit \in Int /\ limit >= batch
    <3>1. PICK x : x = config.maxBatch
      OBVIOUS
    <3>2. x \in Int /\ batch \in Int
      BY <1>3, <2>1, <3>1
    <3>3. Max({x, batch}) \in {x, batch} /\ Max({x, batch}) >= batch
      BY <3>2, OfTwo
    <3> QED
      BY <2>2, <3>1, <3>2, <3>3
  <2>4. raised = [config EXCEPT !.maxBatch = limit]
    BY <1>1, <2>2
  <2>5. HasLimit(raised) /\ raised.maxBatch = limit
    BY <1>3, <2>4 DEF HasLimit
  <2>6. /\ HasLimit(config') /\ config'.maxBatch \in Int /\ batchSize' \in Nat
        /\ batchSize' \in 1 .. config'.maxBatch
    BY <1>5, <2>1, <2>3, <2>5
  <2> QED
    BY <1>2, <1>5, <2>6 DEF CliInv
<1>6. CASE stage' = "error" /\ UNCHANGED <<config, batchSize>>
  BY <1>2, <1>6 DEF CliInv
<1> QED
  BY <1>4, <1>5, <1>6

\* The dataset.
LEMMA LoadDatasetStep ==
  ASSUME CliInv, LoadDataset
  PROVE  CliInv'
<1>1. PICK d, used : /\ d = command.dataset
                     /\ used = IF command.bench THEN Min({d.count, BenchSamples}) ELSE d.count
  OBVIOUS
<1>2. UNCHANGED <<command, parsed, config, batchSize, sweep, refused>> /\ stage = "dataset"
  BY DEF LoadDataset
<1>3. \/ /\ d.count \in 1 .. MaxSamples /\ d.count <= Len(d.records)
         /\ stage' = "engine" /\ samples' = SubSeq(d.records, 1, used)
      \/ stage' = "error" /\ samples' = samples
  BY <1>1 DEF LoadDataset
<1>4. CASE /\ d.count \in 1 .. MaxSamples /\ d.count <= Len(d.records)
           /\ stage' = "engine" /\ samples' = SubSeq(d.records, 1, used)
  <2>1. PICK records, S : records = d.records /\ S = ToSet(records)
    OBVIOUS
  <2>2. records \in Seq(S)
    <3>1. command \in Command
      BY DEF CliInv
    <3> QED
      BY <1>1, <2>1, <3>1, CommandAssumption
  <2>3. used \in Nat /\ used <= Len(records)
    <3>1. d.count \in Nat /\ BenchSamples \in Nat /\ d.count <= Len(records)
      BY <1>4, <2>1, SizeAssumption
    <3>2. PICK least : least = Min({d.count, BenchSamples})
      OBVIOUS
    <3>3. least \in {d.count, BenchSamples} /\ least <= d.count
      <4>1. PICK x, y : x = d.count /\ y = BenchSamples
        OBVIOUS
      <4>2. x \in Int /\ y \in Int
        BY <3>1, <4>1
      <4>3. Min({x, y}) \in {x, y} /\ Min({x, y}) <= x
        BY <4>2, OfTwo
      <4> QED
        BY <3>2, <4>1, <4>3
    <3>4. used = IF command.bench THEN least ELSE d.count
      BY <1>1, <3>2
    <3>5. Len(records) \in Nat
      BY <2>2
    <3> QED
      BY <3>1, <3>3, <3>4, <3>5
  <2>4. SubSeq(records, 1, used) \in Seq(S)
    BY <2>2, <2>3
  <2>5. IsSequence(samples')
    BY <1>4, <2>1, <2>4 DEF IsSequence
  <2>6. sweep' \in 1 .. Len(Plan') /\ Plan' = Plan
    <3>1. Plan' = Plan
      BY <1>2 DEF Plan
    <3>2. Len(Plan) \in Nat /\ Len(Plan) # 0
      <4>1. CASE command.bench
        <5>1. Plan = Sweeps
          BY <4>1 DEF Plan
        <5>2. Sweeps \in Seq([batch : 1 .. MaxBatchSize, raise : BOOLEAN]) /\ Sweeps # << >>
          BY SweepsAssumption
        <5> QED
          BY <5>1, <5>2
      <4>2. CASE ~ command.bench
        <5>1. Plan = <<[batch |-> batchSize, raise |-> FALSE]>>
          BY <4>2 DEF Plan
        <5> QED
          BY <5>1
      <4> QED
        BY <4>1, <4>2
    <3>3. sweep' = 1
      BY <1>2 DEF CliInv
    <3> QED
      BY <3>1, <3>2, <3>3
  <2> QED
    BY <1>2, <1>4, <2>5, <2>6 DEF CliInv
<1>5. CASE stage' = "error" /\ samples' = samples
  BY <1>2, <1>5 DEF CliInv
<1> QED
  BY <1>3, <1>4, <1>5

\* An engine is there, or it is not.
LEMMA EngineStartedStep ==
  ASSUME CliInv, EngineStarted
  PROVE  CliInv'
<1>1. /\ stage = "loading" /\ offset' = 0 /\ correct' = 0
      /\ UNCHANGED <<load, saved, command, parsed, config, batchSize, samples, sweep, refused>>
  BY DEF EngineStarted, fileVars
<1>2. \/ load.at = "loaded" /\ stage' = "evaluating" /\ input' = Rows(Batch)
      \/ stage' = "error"
  BY DEF EngineStarted
<1>3. Batch \in Nat
  <2>1. config.maxBatch \in Int /\ batchSize \in 1 .. config.maxBatch /\ sweep \in 1 .. Len(Plan)
    BY <1>1 DEF CliInv
  <2> QED
    BY <2>1, BatchFits
<1>4. \A n \in Nat : IsSequence(Rows(n))
  <2> TAKE n \in Nat
  <2>1. Rows(n) = [i \in 1 .. n |-> Rows(n)[i]]
    BY DEF Rows
  <2> QED
    BY <2>1, Tabulated
<1>5. Plan' = Plan
  BY <1>1 DEF Plan
<1>6. Cardinality(RightUpTo(0)) = 0
  <2>1. RightUpTo(0) = {}
    BY DEF RightUpTo
  <2> QED
    BY <2>1, FS_EmptySet
<1>7. RightUpTo(0)' = RightUpTo(0)
  BY <1>1 DEF RightUpTo, Right
<1>8. CASE load.at = "loaded" /\ stage' = "evaluating" /\ input' = Rows(Batch)
  <2>1. IsSequence(input')
    BY <1>3, <1>4, <1>8
  <2>2. correct' = Cardinality(RightUpTo(offset)')
    BY <1>1, <1>6, <1>7 DEF RightUpTo, Right
  <2> QED
    BY <1>1, <1>5, <1>8, <2>1, <2>2 DEF CliInv
<1>9. CASE stage' = "error"
  BY <1>1, <1>9 DEF CliInv
<1> QED
  BY <1>2, <1>8, <1>9

\* A batch more has been counted.
LEMMA BatchCounted ==
  ASSUME NEW m \in Nat, NEW k \in Nat, IsSequence(samples), m + k <= Len(samples)
  PROVE  Cardinality(RightUpTo(m + k))
           = Cardinality(RightUpTo(m)) + Cardinality({i \in 1 .. k : Right(m + i)})
<1>1. PICK n : n = Len(samples) /\ n \in Nat
  BY SequenceIs
<1>2. PICK S, T, U : /\ S = RightUpTo(m) /\ T = {i \in 1 .. k : Right(m + i)}
                     /\ U = {i \in m + 1 .. m + k : Right(i)}
  OBVIOUS
<1>3. RightUpTo(m + k) = S \cup U /\ S \cap U = {}
  BY <1>1, <1>2 DEF RightUpTo
<1>4. IsFiniteSet(S) /\ IsFiniteSet(T) /\ IsFiniteSet(U)
  <2>1. IsFiniteSet(1 .. n) /\ IsFiniteSet(1 .. k) /\ IsFiniteSet(m + 1 .. m + k)
    <3>1. ASSUME NEW a \in Int, NEW b \in Int PROVE IsFiniteSet(a .. b)
      BY FS_Interval
    <3>2. 1 \in Int /\ n \in Int /\ k \in Int /\ m + 1 \in Int /\ m + k \in Int
      BY <1>1
    <3> QED
      BY <3>1, <3>2
  <2>2. S \in SUBSET (1 .. n) /\ T \in SUBSET (1 .. k) /\ U \in SUBSET (m + 1 .. m + k)
    BY <1>1, <1>2 DEF RightUpTo
  <2> QED
    BY <2>1, <2>2, FS_Subset
<1>5. Cardinality(U) = Cardinality(T)
  <2>1. PICK f : f = [i \in T |-> m + i]
    OBVIOUS
  <2>2. \A i \in T : i \in 1 .. k /\ Right(m + i) /\ f[i] = m + i
    BY <1>2, <2>1
  <2>3. \A i \in T : f[i] \in U
    <3> TAKE i \in T
    <3>1. m + i \in m + 1 .. m + k /\ Right(m + i)
      BY <2>2
    <3> QED
      BY <1>2, <2>2, <3>1
  <2>4. \A i, j \in T : f[i] = f[j] => i = j
    BY <2>2
  <2>5. \A j \in U : \E i \in T : f[i] = j
    <3> TAKE j \in U
    <3>1. PICK i : i = j - m
      OBVIOUS
    <3>2. j \in m + 1 .. m + k /\ Right(j)
      BY <1>2
    <3>3. i \in 1 .. k /\ m + i = j
      BY <3>1, <3>2
    <3>4. i \in T
      BY <1>2, <3>2, <3>3
    <3> QED
      BY <2>2, <3>3, <3>4
  <2>6. f \in Bijection(T, U)
    BY <2>1, <2>3, <2>4, <2>5 DEF Bijection, Injection, Surjection, IsInjective
  <2> QED
    BY <1>4, <2>6, FS_Bijection DEF ExistsBijection
<1>6. Cardinality(S \cup U) = Cardinality(S) + Cardinality(U)
  <2>1. Cardinality(S \cup U) = Cardinality(S) + Cardinality(U) - Cardinality(S \cap U)
    BY <1>4, FS_Union
  <2>2. Cardinality(S \cap U) = 0 /\ Cardinality(S) \in Nat /\ Cardinality(U) \in Nat
    BY <1>3, <1>4, FS_EmptySet, FS_CardinalityType
  <2> QED
    BY <2>1, <2>2
<1> QED
  BY <1>2, <1>3, <1>5, <1>6

\* A batch.
LEMMA EvaluateBatchStep ==
  ASSUME CliInv, model = saved, EvaluateBatch
  PROVE  CliInv'
<1>1. PICK batch, n, m : batch = Batch /\ n = Len(samples) /\ m = offset
  OBVIOUS
<1>2. /\ stage = "evaluating" /\ m < n
      /\ UNCHANGED <<load, saved, model, command, parsed, config, batchSize, samples, sweep>>
  BY <1>1 DEF EvaluateBatch, fileVars
<1>3. /\ batch \in Nat \ {0} /\ batch <= SessionMaxBatch
      /\ m \in Nat /\ IsSequence(samples) /\ n \in Nat /\ IsSequence(input)
  <2>1. config.maxBatch \in Int /\ batchSize \in 1 .. config.maxBatch /\ sweep \in 1 .. Len(Plan)
    BY <1>2 DEF CliInv
  <2>2. m \in Nat /\ IsSequence(samples) /\ IsSequence(input)
    BY <1>1, <1>2 DEF CliInv
  <2> QED
    BY <1>1, <2>1, <2>2, BatchFits, SequenceIs
<1>4. PICK k : k = Min({batch, n - m})
  OBVIOUS
<1>5. k \in Nat \ {0} /\ k <= batch /\ m + k <= n /\ (k = batch \/ m + k = n)
  <2>1. n - m \in Nat \ {0}
    BY <1>2, <1>3
  <2>2. PICK y : y = n - m
    OBVIOUS
  <2>3. k \in {batch, y} /\ k <= batch /\ k <= y
    <3>1. batch \in Int /\ y \in Int
      BY <1>3, <2>1, <2>2
    <3>2. k = Min({batch, y})
      BY <1>4, <2>2
    <3>3. Min({batch, y}) \in {batch, y} /\ Min({batch, y}) <= batch /\ Min({batch, y}) <= y
      BY <3>1, OfTwo
    <3> QED
      BY <3>2, <3>3
  <2> QED
    BY <1>3, <2>1, <2>2, <2>3
<1>6. PICK sized : sized = IF k # Len(input) THEN Rows(k) ELSE input
  OBVIOUS
<1>7. DOMAIN sized = 1 .. k
  <2>1. DOMAIN Rows(k) = 1 .. k
    BY DEF Rows
  <2>2. DOMAIN input = 1 .. Len(input)
    BY <1>3, SequenceIs
  <2> QED
    BY <1>6, <2>1, <2>2
<1>8. /\ input' = [i \in DOMAIN sized |-> samples[m + i].pixels]
      /\ IF TooManyRows(input')
         THEN stage' = "error" /\ refused' = TRUE /\ UNCHANGED <<offset, correct>>
         ELSE /\ correct' = correct + Quantify(1 .. k, LAMBDA i : Class(model, input'[i]) = LabelOf(i))
              /\ offset' = m + batch
              /\ UNCHANGED <<stage, refused>>
  BY <1>1, <1>4, <1>6 DEF EvaluateBatch
<1>9. input' = [i \in 1 .. k |-> samples[m + i].pixels]
  BY <1>7, <1>8
<1>10. IsSequence(input') /\ Len(input') = k
  <2>1. input' = [i \in 1 .. k |-> input'[i]]
    BY <1>9
  <2> QED
    BY <1>5, <2>1, Tabulated
<1>11. ~ TooManyRows(input')
  <2>1. SessionMaxBatch \in Int
    <3>1. SessionMaxBatch = IF Plan[sweep].raise THEN Max({config.maxBatch, batch}) ELSE config.maxBatch
      BY <1>1 DEF SessionMaxBatch
    <3>2. config.maxBatch \in Int
      BY DEF CliInv
    <3>3. PICK limit, most : limit = config.maxBatch /\ most = Max({limit, batch})
      OBVIOUS
    <3>4. most \in {limit, batch}
      <4>1. limit \in Int /\ batch \in Int
        BY <1>3, <3>2, <3>3
      <4>2. Max({limit, batch}) \in {limit, batch}
        BY <4>1, OfTwo
      <4> QED
        BY <3>3, <4>2
    <3> QED
      BY <1>3, <3>1, <3>2, <3>3, <3>4
  <2> QED
    BY <1>3, <1>5, <1>10, <2>1 DEF TooManyRows
<1>12. /\ correct' = correct + Quantify(1 .. k, LAMBDA i : Class(model, input'[i]) = LabelOf(i))
       /\ offset' = m + batch /\ UNCHANGED <<stage, refused>>
  BY <1>8, <1>11
<1>13. Quantify(1 .. k, LAMBDA i : Class(model, input'[i]) = LabelOf(i))
         = Cardinality({i \in 1 .. k : Right(m + i)})
  <2>1. Quantify(1 .. k, LAMBDA i : Class(model, input'[i]) = LabelOf(i))
          = Cardinality({i \in 1 .. k : Class(model, input'[i]) = LabelOf(i)})
    BY DEF Quantify
  <2>2. ASSUME NEW i \in 1 .. k
        PROVE  (Class(model, input'[i]) = LabelOf(i)) <=> Right(m + i)
    <3>1. input'[i] = samples[m + i].pixels /\ LabelOf(i) = samples[m + i].label
      BY <1>1, <1>9 DEF LabelOf
    <3> QED
      BY <3>1 DEF Right
  <2>3. {i \in 1 .. k : Class(model, input'[i]) = LabelOf(i)} = {i \in 1 .. k : Right(m + i)}
    BY <2>2
  <2> QED
    BY <2>1, <2>3
<1>14. correct' = Cardinality(RightUpTo(m + k))
  <2>1. correct = Cardinality(RightUpTo(m))
    BY <1>1, <1>2 DEF CliInv
  <2>2. m \in Nat /\ k \in Nat /\ IsSequence(samples) /\ m + k <= Len(samples)
    BY <1>1, <1>3, <1>5
  <2>3. Cardinality(RightUpTo(m + k))
          = Cardinality(RightUpTo(m)) + Cardinality({i \in 1 .. k : Right(m + i)})
    BY <2>2, BatchCounted
  <2>4. correct' = correct + Quantify(1 .. k, LAMBDA i : Class(model, input'[i]) = LabelOf(i))
    BY <1>12
  <2> QED
    BY <1>13, <2>1, <2>3, <2>4, Zenon
<1>15. RightUpTo(m + batch) = RightUpTo(m + k)
  BY <1>1, <1>3, <1>5 DEF RightUpTo
<1>16. Plan' = Plan
  BY <1>2 DEF Plan
<1>17. correct' = Cardinality(RightUpTo(offset)') /\ offset' \in Nat
  <2>1. RightUpTo(offset)' = RightUpTo(m + batch)
    BY <1>2, <1>12 DEF RightUpTo, Right
  <2> QED
    BY <1>3, <1>12, <1>14, <1>15, <2>1
<1> QED
  BY <1>2, <1>10, <1>12, <1>16, <1>17 DEF CliInv

\* A report.
LEMMA ReportStep ==
  ASSUME CliInv, Report
  PROVE  CliInv'
<1>1. /\ stage = "evaluating"
      /\ UNCHANGED <<load, saved, command, parsed, config, batchSize, samples, offset, input, correct, refused>>
  BY DEF Report, Evaluated, fileVars
<1>2. \/ sweep < Len(Plan) /\ stage' = "engine" /\ sweep' = sweep + 1
      \/ stage' = "done" /\ sweep' = sweep
  BY DEF Report
<1>3. Plan' = Plan
  BY <1>1 DEF Plan
<1>4. PICK n : n = Len(Plan)
  OBVIOUS
<1>5. n \in Nat
  <2>1. CASE command.bench
    <3>1. Plan = Sweeps
      BY <2>1 DEF Plan
    <3>2. Sweeps \in Seq([batch : 1 .. MaxBatchSize, raise : BOOLEAN])
      BY SweepsAssumption
    <3> QED
      BY <1>4, <3>1, <3>2
  <2>2. CASE ~ command.bench
    <3>1. Plan = <<[batch |-> batchSize, raise |-> FALSE]>>
      BY <2>2 DEF Plan
    <3> QED
      BY <1>4, <3>1
  <2> QED
    BY <2>1, <2>2
<1>6. CASE sweep < n /\ stage' = "engine" /\ sweep' = sweep + 1
  <2>1. sweep \in 1 .. n
    BY <1>1, <1>4 DEF CliInv
  <2>2. sweep' \in 1 .. Len(Plan')
    BY <1>3, <1>4, <1>5, <1>6, <2>1
  <2> QED
    BY <1>1, <1>3, <1>6, <2>2 DEF CliInv
<1>7. CASE stage' = "done" /\ sweep' = sweep
  BY <1>1, <1>7 DEF CliInv
<1> QED
  BY <1>2, <1>4, <1>6, <1>7

\* The next engine, save and load, and a stutter.
LEMMA CliStays ==
  ASSUME CliInv, StartEngine \/ LoadModel \/ SaveBefore \/ UNCHANGED commandVars
  PROVE  CliInv'
<1>1. UNCHANGED <<command, parsed, config, batchSize, samples, sweep, offset, input, correct, refused>>
  BY DEF StartEngine, LoadModel, SaveBefore, commandVars, cliVars
<1>2. \/ stage = "engine" /\ stage' = "loading"
      \/ stage' = stage /\ stage \in {"loading", "options"}
      \/ UNCHANGED <<stage, load, saved>>
  BY DEF StartEngine, LoadModel, SaveBefore, commandVars, cliVars, fileVars
<1>3. Plan' = Plan
  BY <1>1 DEF Plan
<1>4. CASE stage = "engine" /\ stage' = "loading"
  BY <1>1, <1>3, <1>4 DEF CliInv
<1>5. CASE stage' = stage /\ stage \in {"loading", "options"}
  BY <1>1, <1>3, <1>5 DEF CliInv
<1>6. CASE UNCHANGED <<stage, load, saved>>
  <2>1. RightUpTo(offset)' = RightUpTo(offset)
    BY <1>1, <1>6 DEF RightUpTo, Right
  <2> QED
    BY <1>1, <1>3, <1>6, <2>1 DEF CliInv
<1> QED
  BY <1>2, <1>4, <1>5, <1>6

\* While an engine evaluates it has the model that was saved.
LEMMA SavedIsLoaded ==
  ASSUME FileInv, CliInv, stage = "evaluating"
  PROVE  model = saved
<1>1. load.at = "loaded"
  BY DEF CliInv
<1>2. PICK L : Loading(L, saved, written, load, model)
  BY <1>1 DEF FileInv
<1> QED
  BY <1>1, <1>2 DEF Loading

\* Every step keeps the invariant.
LEMMA CliStep ==
  ASSUME FileInv, CliInv, [CommandNext]_commandVars
  PROVE  CliInv'
<1>1. CASE EvaluateBatch
  <2>1. stage = "evaluating"
    BY <1>1 DEF EvaluateBatch
  <2> QED
    BY <1>1, <2>1, SavedIsLoaded, EvaluateBatchStep
<1> QED
  BY <1>1, ParseOptionStep, OptionsDoneStep, LoadDatasetStep, EngineStartedStep, ReportStep, CliStays
     DEF CommandNext

\* What an evaluation has counted when it is over.
LEMMA CountIsTrue ==
  ASSUME CliInv
  PROVE  ReportIsTrue
<1>1. ~ refused
  BY DEF CliInv
<1>2. ASSUME Evaluated
      PROVE  correct = Quantify(DOMAIN samples, LAMBDA i : Class(saved, samples[i].pixels) = samples[i].label)
  <2>1. /\ offset \in Nat /\ IsSequence(samples) /\ correct = Cardinality(RightUpTo(offset))
        /\ offset >= Len(samples)
    BY <1>2 DEF CliInv, Evaluated
  <2>2. DOMAIN samples = 1 .. Len(samples) /\ Len(samples) \in Nat
    BY <2>1, SequenceIs
  <2>3. RightUpTo(offset) = {i \in DOMAIN samples : Class(saved, samples[i].pixels) = samples[i].label}
    BY <2>1, <2>2 DEF RightUpTo, Right
  <2>4. Quantify(DOMAIN samples, LAMBDA i : Class(saved, samples[i].pixels) = samples[i].label)
          = Cardinality({i \in DOMAIN samples : Class(saved, samples[i].pixels) = samples[i].label})
    BY DEF Quantify
  <2> QED
    BY <2>1, <2>3, <2>4
<1> QED
  BY <1>1, <1>2 DEF ReportIsTrue

(***************************************************************************)
(* eval and bench: what is reported is the number of samples whose label   *)
(* is their class under the saved model, whatever the batch size, and no   *)
(* batch is refused, in whatever order the options came.                   *)
(***************************************************************************)
THEOREM ReportsAreTrue ==
  CommandSpec => []ReportIsTrue
<1>1. CommandInit => CliInv
  BY CliStarts
<1>2. FileInv /\ CliInv /\ [CommandNext]_commandVars => CliInv'
  BY CliStep
<1>3. CommandSpec => []FileInv
  BY FileInvariance
<1>4. CliInv => ReportIsTrue
  BY CountIsTrue
<1> QED
  BY <1>1, <1>2, <1>3, <1>4, PTL DEF CommandSpec

================================================================================
