---------------------------- MODULE CallbacksProofs ----------------------------
(***************************************************************************)
(* Theorems about Callbacks, for any requests and any answers of receivers. *)
(***************************************************************************)
EXTENDS Callbacks, FiniteSetTheorems, SequenceTheorems, TLAPS

States == {"new", "rejected", "stored", "armed", "look", "put", "putting", "ask",
           "asked", "judge", "end", "parked"}

-------------------------------------------------------------------------------
(* Connections.  Until a connection is kept for a URL, every attempt that has *)
(* dialled it is still about to keep its own.                                *)

Keeping == {"put", "putting"}
Meeting(u) == {r \in Req : input[r].schema = "GRPC" /\ input[r].url = u}
Dialling(u) == {r \in Req : pc[r] \in Keeping /\ input[r].url = u}

Shape == /\ pc \in [Req -> States]
         /\ conn = [r \in Req |-> conn[r]]
         /\ clients = [u \in Urls |-> clients[u]]
         /\ dialled \in [Urls -> Nat]

Grpc == \A r \in Req :
          /\ pc[r] \in Keeping \cup {"look"} => input[r].schema = "GRPC"
          /\ pc[r] \in Keeping => conn[r] # None

Kept(u) == /\ clients[u] = None => dialled[u] = Cardinality(Dialling(u))
           /\ dialled[u] <= Cardinality(Meeting(u))

ConnInv == Shape /\ Grpc /\ \A u \in Urls : Kept(u)

\* The attempts of a URL are finitely many, and each has a URL.
LEMMA Finite ==
  /\ \A u : /\ IsFiniteSet(Meeting(u)) /\ Cardinality(Meeting(u)) \in Nat
            /\ IsFiniteSet(Dialling(u)) /\ Cardinality(Dialling(u)) \in Nat
  /\ \A r \in Req : input[r].url \in Urls
<1>1. \A u : Meeting(u) \subseteq Req /\ Dialling(u) \subseteq Req
  BY DEF Meeting, Dialling
<1> QED BY <1>1, CallbacksAssumption, FS_Subset, FS_CardinalityType DEF Urls

LEMMA ConnInitially == Init => ConnInv
<1> SUFFICES ASSUME Init PROVE ConnInv
  OBVIOUS
<1>1. \A u : Dialling(u) = {}
  BY DEF Init, Dialling, Keeping
<1>2. \A u \in Urls : dialled[u] = 0 /\ Cardinality(Dialling(u)) = 0
  BY <1>1, FS_EmptySet DEF Init
<1>3. Shape
  BY DEF Init, Shape, States
<1>4. Grpc
  BY DEF Init, Grpc, Keeping
<1> QED BY <1>2, <1>3, <1>4, Finite DEF ConnInv, Kept

\* A step of an attempt that is not about to keep a connection.
LEMMA ConnFrame ==
  ASSUME ConnInv, NEW r \in Req, NEW p \in States \ Keeping, pc[r] \notin Keeping,
         p = "look" => input[r].schema = "GRPC",
         pc' = [pc EXCEPT ![r] = p], UNCHANGED <<input, clients, dialled>>,
         conn' = conn \/ conn' = [conn EXCEPT ![r] = None]
  PROVE  ConnInv'
<1>1. Shape'
  BY DEF ConnInv, Shape, Urls
<1>2. \A q \in Req : pc'[q] = IF q = r THEN p ELSE pc[q]
  BY DEF ConnInv, Shape
<1>3. \A q \in Req \ {r} : conn'[q] = conn[q]
  BY DEF ConnInv, Shape
<1>4. Grpc'
  BY <1>2, <1>3 DEF ConnInv, Grpc
<1>5. \A u : Dialling(u)' = Dialling(u) /\ Meeting(u)' = Meeting(u)
  BY <1>2 DEF Dialling, Meeting
<1> QED BY <1>1, <1>4, <1>5 DEF ConnInv, Kept, Urls

\* getClient: the attempt that dials is one more of those about to keep one.
LEMMA ConnLook ==
  ASSUME ConnInv, NEW r \in Req, Look(r)
  PROVE  ConnInv'
<1> DEFINE u == input[r].url
<1>a. /\ Shape /\ Grpc /\ u \in Urls /\ pc[r] = "look" /\ input[r].schema = "GRPC"
      /\ \A v \in Urls : Kept(v)
      /\ input' = input /\ clients' = clients
  BY Finite DEF Look, At, ConnInv, Grpc
<1>b. Meeting(u)' = Meeting(u) /\ Urls' = Urls
  BY <1>a DEF Meeting, Urls
<1>1. CASE clients[u] # None
  <2>1. /\ pc' = [pc EXCEPT ![r] = "ask"] /\ dialled' = dialled
        /\ conn' = [conn EXCEPT ![r] = clients[u]]
    BY <1>1 DEF Look, Go
  <2>2. \A q \in Req : /\ pc'[q] = IF q = r THEN "ask" ELSE pc[q]
                       /\ q # r => conn'[q] = conn[q]
    BY <1>a, <2>1 DEF Shape
  <2>3. Shape'
    BY <1>a, <1>b, <2>1 DEF Shape, States
  <2>4. Grpc'
    BY <1>a, <2>2 DEF Grpc, Keeping
  <2>5. \A v : Dialling(v)' = Dialling(v) /\ Meeting(v)' = Meeting(v)
    BY <1>a, <2>2 DEF Dialling, Meeting, Keeping
  <2> QED BY <1>a, <1>b, <2>1, <2>3, <2>4, <2>5 DEF ConnInv, Kept
<1>2. CASE clients[u] = None
  <2>1. /\ pc' = [pc EXCEPT ![r] = "put"] /\ dialled' = [dialled EXCEPT ![u] = @ + 1]
        /\ conn' = [conn EXCEPT ![r] = <<u, dialled'[u]>>]
    BY <1>2 DEF Look, Go
  <2>2. \A q \in Req : /\ pc'[q] = IF q = r THEN "put" ELSE pc[q]
                       /\ conn'[q] = IF q = r THEN <<u, dialled'[u]>> ELSE conn[q]
    BY <1>a, <2>1 DEF Shape
  <2>3. Shape'
    BY <1>a, <1>b, <2>1 DEF Shape, States
  <2>4. Grpc'
    <3>1. \A x, y : <<x, y>> # None
      BY DEF None
    <3> HIDE DEF u
    <3> QED BY <1>a, <2>2, <3>1 DEF Grpc, Keeping
  <2>5. /\ Dialling(u)' = Dialling(u) \cup {r} /\ r \notin Dialling(u)
        /\ Dialling(u)' \subseteq Meeting(u)'
    BY <1>a, <2>2, <2>4 DEF Dialling, Meeting, Keeping, Grpc
  <2>6. dialled[u] = Cardinality(Dialling(u)) /\ dialled'[u] = dialled[u] + 1
    BY <1>2, <1>a, <2>1 DEF Kept, Shape
  <2>7. Cardinality(Dialling(u)') = Cardinality(Dialling(u)) + 1
    BY <2>5, Finite, FS_AddElement
  <2>8. Cardinality(Dialling(u)') <= Cardinality(Meeting(u))
    BY <1>b, <2>5, Finite, FS_Subset
  <2>9. \A v \in Urls \ {u} : /\ Dialling(v)' = Dialling(v) /\ Meeting(v)' = Meeting(v)
                              /\ dialled'[v] = dialled[v]
    BY <1>a, <2>1, <2>2 DEF Dialling, Meeting, Keeping, Shape
  <2>10. \A v \in Urls : Kept(v)'
    BY <1>a, <1>b, <2>6, <2>7, <2>8, <2>9 DEF Kept
  <2> QED BY <1>b, <2>3, <2>4, <2>10 DEF ConnInv
<1> QED BY <1>1, <1>2

LEMMA ConnPutBegin ==
  ASSUME ConnInv, NEW r \in Req, PutBegin(r)
  PROVE  ConnInv'
<1>1. /\ pc[r] = "put" /\ pc' = [pc EXCEPT ![r] = "putting"]
      /\ UNCHANGED <<input, conn, clients, dialled>>
  BY DEF PutBegin, At, Go
<1>2. \A q \in Req : pc'[q] = IF q = r THEN "putting" ELSE pc[q]
  BY <1>1 DEF ConnInv, Shape
<1>3. \A u : Dialling(u)' = Dialling(u) /\ Meeting(u)' = Meeting(u)
  BY <1>1, <1>2 DEF Dialling, Meeting, Keeping
<1>4. Shape'
  BY <1>1 DEF ConnInv, Shape, Urls, States
<1>5. Grpc'
  BY <1>1, <1>2 DEF ConnInv, Grpc, Keeping
<1> QED BY <1>1, <1>3, <1>4, <1>5 DEF ConnInv, Kept, Urls

\* From here on the URL has a connection, and nobody dials it any more.
LEMMA ConnPutEnd ==
  ASSUME ConnInv, NEW r \in Req, PutEnd(r)
  PROVE  ConnInv'
<1> DEFINE u == input[r].url
<1>1. /\ pc[r] = "putting" /\ pc' = [pc EXCEPT ![r] = "ask"]
      /\ clients' = [clients EXCEPT ![u] = conn[r]]
      /\ UNCHANGED <<input, conn, dialled>>
  BY DEF PutEnd, At, Go
<1>2. \A q \in Req : pc'[q] = IF q = r THEN "ask" ELSE pc[q]
  BY <1>1 DEF ConnInv, Shape
<1>3. u \in Urls /\ conn[r] # None /\ Urls' = Urls /\ \A v : Meeting(v)' = Meeting(v)
  BY <1>1, Finite DEF ConnInv, Grpc, Keeping, Urls, Meeting
<1>4. Shape'
  BY <1>1, <1>3 DEF ConnInv, Shape, States
<1>5. Grpc'
  BY <1>1, <1>2 DEF ConnInv, Grpc, Keeping
<1>6. /\ clients'[u] # None
      /\ \A v \in Urls \ {u} : clients'[v] = clients[v] /\ Dialling(v)' = Dialling(v)
  BY <1>1, <1>2, <1>3 DEF ConnInv, Shape, Dialling, Keeping
<1>7. \A v \in Urls : Kept(v)'
  BY <1>1, <1>3, <1>6 DEF ConnInv, Kept
<1> QED BY <1>3, <1>4, <1>5, <1>7 DEF ConnInv

LEMMA ConnPreserved == ConnInv /\ [Next]_vars => ConnInv'
<1> SUFFICES ASSUME ConnInv, [Next]_vars PROVE ConnInv'
  OBVIOUS
<1> USE DEF At, Go, Keeping, States
<1>1. ASSUME NEW r \in Req, Reject(r) PROVE ConnInv'
  BY <1>1, ConnFrame DEF Reject, cache
<1>2. ASSUME NEW r \in Req, Register(r) PROVE ConnInv'
  <2>1. PICK p \in {"armed", "parked", "stored"} : pc' = [pc EXCEPT ![r] = p]
    BY <1>2 DEF Register, Armed
  <2> QED BY <1>2, <2>1, ConnFrame DEF Register, cache
<1>3. ASSUME NEW r \in Req, Cron(r) PROVE ConnInv'
  BY <1>3, ConnFrame DEF Cron, cache
<1>4. ASSUME NEW r \in Req, Execute(r) PROVE ConnInv'
  <2>1. PICK p \in {"judge", "ask", "look"} :
          pc' = [pc EXCEPT ![r] = p] /\ (p = "look" => input[r].schema = "GRPC")
    BY <1>4 DEF Execute, Returns
  <2> QED BY <1>4, <2>1, ConnFrame DEF Execute, cache
<1>10. ASSUME NEW r \in Req, DialFails(r) PROVE ConnInv'
  BY <1>10, ConnFrame DEF DialFails, Returns, cache
<1>5. ASSUME NEW r \in Req, Ask(r) PROVE ConnInv'
  <2>1. PICK p \in {"judge", "asked"} : pc' = [pc EXCEPT ![r] = p]
    BY <1>5 DEF Ask, Returns
  <2> QED BY <1>5, <2>1, ConnFrame DEF Ask, cache
<1>6. ASSUME NEW r \in Req, Answered(r) \/ BrokenOff(r) \/ Expires(r) PROVE ConnInv'
  BY <1>6, ConnFrame DEF Answered, BrokenOff, Expires, Returns, cache
<1>7. ASSUME NEW r \in Req, Success(r) PROVE ConnInv'
  BY <1>7, ConnFrame DEF Success, Done, cache
<1>8. ASSUME NEW r \in Req, Failure(r) PROVE ConnInv'
  <2>1. PICK p \in {"armed", "parked", "stored", "end"} : pc' = [pc EXCEPT ![r] = p]
    BY <1>8 DEF Failure, Armed
  <2>2. /\ pc[r] = "judge" /\ conn' = [conn EXCEPT ![r] = None]
        /\ UNCHANGED <<input, clients, dialled>>
    BY <1>8 DEF Failure, Done, cache
  <2> QED BY <2>1, <2>2, ConnFrame
<1>9. ASSUME UNCHANGED <<input, pc, conn, cache>> PROVE ConnInv'
  <2>1. \A u : Dialling(u)' = Dialling(u) /\ Meeting(u)' = Meeting(u)
    BY <1>9 DEF Dialling, Meeting
  <2>2. Shape' /\ Grpc'
    BY <1>9 DEF cache, ConnInv, Shape, Grpc, Urls
  <2> QED BY <1>9, <2>1, <2>2 DEF cache, ConnInv, Kept, Urls
<1> QED BY <1>1, <1>2, <1>3, <1>4, <1>5, <1>6, <1>7, <1>8, <1>9, <1>10,
           ConnLook, ConnPutBegin, ConnPutEnd DEF Next, Attempt, Close, Halt, vars

\* However many attempts, retries and requests there are, and whatever the map
\* loses, a URL is never dialled more often than there are tasks for it.
THEOREM FewConnections == Spec => []ConnectionsKept
<1>1. ConnInv => ConnectionsKept
  BY DEF ConnInv, Kept, Meeting, ConnectionsKept
<1> QED BY <1>1, ConnInitially, ConnPreserved, PTL DEF Spec

-------------------------------------------------------------------------------
(* Results.  The count of a task in memory, and that of a stored row plus one, *)
(* is the number of results it has; its messages are those results.            *)

Replies == {"", "FAIL"} \cup Reply \cup UNION {{q[r].result : r \in Req} : q \in Inputs}
Results == Replies \X BOOLEAN
InFlight == {"armed", "look", "put", "putting", "ask", "asked", "judge"}
Retries(r) == Len(input[r].backoff)

Functions ==
  /\ pc \in [Req -> States]
  /\ row = [r \in Req |-> row[r]] /\ copy = [r \in Req |-> copy[r]]
  /\ result = [r \in Req |-> result[r]]
  /\ said \in [Req -> BOOLEAN]
  /\ tried \in [Req -> Seq(Results)]
  /\ input \in Inputs

IsRow(x) == x = [status |-> x.status, count |-> x.count, msgs |-> x.msgs, trace |-> x.trace]
IsCopy(x) == x = [count |-> x.count, msgs |-> x.msgs, trace |-> x.trace]

\* What is known of a task, by how far it is.
Known(r) ==
  /\ pc[r] \in {"new", "rejected"} => row[r] = None /\ tried[r] = <<>>
  /\ pc[r] \notin {"new", "rejected"} => IsRow(row[r])
  /\ pc[r] = "stored" => /\ row[r].status = 0 /\ row[r].msgs = tried[r]
                         /\ row[r].count = Len(tried[r]) - 1
                         /\ Len(tried[r]) <= Retries(r)
  /\ pc[r] \in InFlight => /\ row[r].status = 1 /\ IsCopy(copy[r])
                           /\ copy[r].msgs = tried[r]
                           /\ copy[r].count = Len(tried[r])
                           /\ Len(tried[r]) <= Retries(r)
  /\ pc[r] = "judge" => \E reply \in Replies, err \in BOOLEAN :
       result[r] = <<reply, err>> /\ (IsSuccess(reply, err) => said[r])
  /\ pc[r] = "parked" => row[r].status = 1
  /\ pc[r] = "end" => \/ row[r].status = 2 /\ said[r]
                      \/ /\ row[r].status = 3 /\ row[r].msgs = tried[r]
                         /\ Len(tried[r]) = Retries(r) + 1

TrueInv == Functions /\ \A r \in Req : Known(r)

\* The fields of a request have their types.
LEMMA Fields ==
  ASSUME Functions, NEW r \in Req
  PROVE  /\ Retries(r) \in Nat /\ input[r].backoff \in Seq(Int)
         /\ FmtReply(input[r]) \in Replies
         /\ Len(tried[r]) \in Nat /\ tried[r] \in Seq(Results)
<1>1. input[r].backoff \in Seq(Int)
  BY CallbacksAssumption DEF Functions
<1>2. Retries(r) \in Nat
  BY <1>1 DEF Retries
<1>3. FmtReply(input[r]) \in Replies
  <2>1. input[r].result \in Replies
    <3>1. input \in Inputs
      BY DEF Functions
    <3>2. input[r].result \in {input[s].result : s \in Req}
      OBVIOUS
    <3> QED BY <3>1, <3>2 DEF Replies
  <2>2. "FAIL" \in Replies
    BY DEF Replies
  <2> QED BY <2>1, <2>2 DEF FmtReply
<1>4. tried[r] \in Seq(Results) /\ Len(tried[r]) \in Nat
  BY DEF Functions
<1> QED BY <1>1, <1>2, <1>3, <1>4

LEMMA TrueInitially == Init => TrueInv
<1> SUFFICES ASSUME Init PROVE TrueInv
  OBVIOUS
<1>1. Functions
  BY DEF Init, Functions, States
<1>2. \A r \in Req : Known(r)
  BY DEF Init, Known, InFlight
<1> QED BY <1>1, <1>2 DEF TrueInv

\* A task that a step leaves alone.
LEMMA KnownFrame ==
  ASSUME NEW q \in Req, Known(q), input' = input, pc'[q] = pc[q], row'[q] = row[q],
         copy'[q] = copy[q], result'[q] = result[q], said'[q] = said[q],
         tried'[q] = tried[q]
  PROVE  Known(q)'
BY DEF Known, Retries

\* A step of an attempt in flight that goes on, without a result yet.
LEMMA KnownOnward ==
  ASSUME TrueInv, NEW r \in Req, NEW p \in InFlight \ {"judge"}, pc[r] \in InFlight,
         pc' = [pc EXCEPT ![r] = p], UNCHANGED <<input, row, copy, tried, result, said>>
  PROVE  TrueInv'
<1>1. \A q \in Req : pc'[q] = IF q = r THEN p ELSE pc[q]
  BY DEF TrueInv, Functions
<1>2. Functions'
  BY DEF TrueInv, Functions, InFlight, States
<1>3. Known(r)'
  BY <1>1 DEF TrueInv, Known, Retries, InFlight
<1>4. \A q \in Req \ {r} : Known(q)'
  BY <1>1, KnownFrame DEF TrueInv
<1> QED BY <1>2, <1>3, <1>4 DEF TrueInv

\* A step that gives an attempt its result.
LEMMA KnownReturn ==
  ASSUME TrueInv, NEW r \in Req, NEW reply \in Replies, NEW err \in BOOLEAN,
         pc[r] \in InFlight, Returns(r, reply, err), UNCHANGED <<input, row, copy, tried>>,
         said' \in [Req -> BOOLEAN], \A q \in Req \ {r} : said'[q] = said[q],
         IsSuccess(reply, err) => said'[r]
  PROVE  TrueInv'
<1>1. /\ pc' = [pc EXCEPT ![r] = "judge"]
      /\ result' = [result EXCEPT ![r] = <<reply, err>>]
  BY DEF Returns, Go
<1>2. \A q \in Req : /\ pc'[q] = IF q = r THEN "judge" ELSE pc[q]
                     /\ result'[q] = IF q = r THEN <<reply, err>> ELSE result[q]
  BY <1>1 DEF TrueInv, Functions
<1>3. Functions'
  BY <1>1 DEF TrueInv, Functions, States
<1>4. Known(r)'
  <2>1. result'[r] = <<reply, err>> /\ (IsSuccess(reply, err) => said'[r])
    BY <1>2 DEF TrueInv, Functions
  <2>2. pc'[r] = "judge"
    BY <1>2
  <2>3. /\ row'[r].status = 1 /\ IsCopy(copy'[r]) /\ IsRow(row'[r])
        /\ copy'[r].msgs = tried'[r] /\ copy'[r].count = Len(tried'[r])
        /\ Len(tried'[r]) <= Retries(r)'
    BY DEF TrueInv, Known, Retries, InFlight
  <2> QED BY <2>1, <2>2, <2>3 DEF Known
<1>5. \A q \in Req \ {r} : Known(q)'
  BY <1>2, KnownFrame DEF TrueInv
<1> QED BY <1>3, <1>4, <1>5 DEF TrueInv

\* The same, for a result that is no success.
LEMMA KnownFailed ==
  ASSUME TrueInv, NEW r \in Req, NEW err \in BOOLEAN, pc[r] \in InFlight,
         Returns(r, "", err), UNCHANGED <<input, row, copy, tried, said>>
  PROVE  TrueInv'
<1>1. said' \in [Req -> BOOLEAN] /\ \A q \in Req \ {r} : said'[q] = said[q]
  BY DEF TrueInv, Functions
<1>2. PICK reply \in Replies : reply = ""
  BY DEF Replies
<1>3. Returns(r, reply, err) /\ ~IsSuccess(reply, err)
  BY <1>2 DEF IsSuccess
<1> HIDE DEF Replies
<1> QED BY <1>1, <1>3, KnownReturn

\* Every step of an attempt up to its result.
LEMMA KnownAttempt ==
  ASSUME TrueInv, NEW r \in Req,
         Execute(r) \/ Look(r) \/ DialFails(r) \/ PutBegin(r) \/ PutEnd(r) \/ Ask(r)
           \/ Expires(r) \/ Answered(r) \/ BrokenOff(r)
  PROVE  TrueInv'
<1> USE DEF At, Go, task
<1>1. CASE Execute(r)
  <2>1. pc[r] \in InFlight /\ UNCHANGED <<input, row, copy, tried>>
    BY <1>1 DEF Execute, InFlight
  <2>2. CASE input[r].schema = "FMT"
    <3> DEFINE heard == FmtReply(input[r]) \in {"SUCCESS", "'SUCCESS'"}
    <3>1. /\ Returns(r, FmtReply(input[r]), FALSE)
          /\ said' = [said EXCEPT ![r] = @ \/ heard]
      BY <1>1, <2>2 DEF Execute
    <3>2. /\ said' \in [Req -> BOOLEAN] /\ \A q \in Req \ {r} : said'[q] = said[q]
          /\ heard => said'[r]
      <4> HIDE DEF heard
      <4> QED BY <3>1 DEF TrueInv, Functions
    <3>3. IsSuccess(FmtReply(input[r]), FALSE) => said'[r]
      BY <3>2 DEF IsSuccess
    <3>4. FmtReply(input[r]) \in Replies
      BY Fields DEF TrueInv
    <3> QED BY <2>1, <3>1, <3>2, <3>3, <3>4, KnownReturn
  <2>3. CASE input[r].schema # "FMT"
    <3>1. /\ said' = said
          /\ \/ Returns(r, "", TRUE)
             \/ result' = result /\ \E p \in {"ask", "look"} : pc' = [pc EXCEPT ![r] = p]
      BY <1>1, <2>3 DEF Execute, ghost
    <3>2. CASE Returns(r, "", TRUE)
      BY <2>1, <3>1, <3>2, KnownFailed
    <3>3. CASE result' = result /\ \E p \in {"ask", "look"} : pc' = [pc EXCEPT ![r] = p]
      BY <2>1, <3>1, <3>3, KnownOnward DEF InFlight
    <3> QED BY <3>1, <3>2, <3>3
  <2> QED BY <2>2, <2>3
<1>2. CASE Look(r) \/ PutBegin(r) \/ PutEnd(r)
  <2>1. /\ pc[r] \in InFlight /\ UNCHANGED <<input, row, copy, tried, result, said>>
        /\ \E p \in {"ask", "put", "putting"} : pc' = [pc EXCEPT ![r] = p]
    BY <1>2 DEF Look, PutBegin, PutEnd, ghost, InFlight
  <2> QED BY <2>1, KnownOnward DEF InFlight
<1>3. CASE Ask(r)
  <2>1. /\ pc[r] \in InFlight /\ UNCHANGED <<input, row, copy, tried, said>>
        /\ \/ Returns(r, "", TRUE)
           \/ result' = result /\ pc' = [pc EXCEPT ![r] = "asked"]
    BY <1>3 DEF Ask, ghost, InFlight
  <2> QED BY <2>1, KnownFailed, KnownOnward DEF InFlight
<1>4. CASE Expires(r) \/ BrokenOff(r) \/ DialFails(r)
  <2>1. /\ pc[r] \in InFlight /\ UNCHANGED <<input, row, copy, tried, said>>
        /\ Returns(r, "", TRUE) \/ Returns(r, "", FALSE)
    BY <1>4 DEF Expires, BrokenOff, DialFails, ghost, InFlight
  <2> QED BY <2>1, KnownFailed
<1>5. CASE Answered(r)
  <2>1. PICK reply \in Reply :
          Returns(r, reply, FALSE) /\ said' = [said EXCEPT ![r] = @ \/ reply # "other"]
    BY <1>5 DEF Answered
  <2>2. pc[r] \in InFlight /\ UNCHANGED <<input, row, copy, tried>>
    BY <1>5 DEF Answered, InFlight
  <2>3. reply \in Replies /\ (IsSuccess(reply, FALSE) => reply # "other")
    BY DEF Replies, IsSuccess
  <2> DEFINE heard == reply # "other"
  <2>4. /\ said' \in [Req -> BOOLEAN] /\ \A q \in Req \ {r} : said'[q] = said[q]
        /\ heard => said'[r]
    <3>1. said' = [said EXCEPT ![r] = @ \/ heard]
      BY <2>1
    <3> HIDE DEF heard
    <3> QED BY <3>1 DEF TrueInv, Functions
  <2> QED BY <2>1, <2>2, <2>3, <2>4, KnownReturn
<1> QED BY <1>1, <1>2, <1>3, <1>4, <1>5

\* The steps before an attempt: what the row and the copy start with.
LEMMA KnownBefore ==
  ASSUME TrueInv, NEW r \in Req, Reject(r) \/ Register(r) \/ Cron(r)
  PROVE  TrueInv'
<1>a. Functions /\ \A q \in Req : Known(q)
  BY DEF TrueInv
<1>1. CASE Reject(r)
  <2>1. /\ pc[r] = "new" /\ pc' = [pc EXCEPT ![r] = "rejected"]
        /\ UNCHANGED <<input, row, copy, tried, result, said>>
    BY <1>1 DEF Reject, At, Go, task, ghost
  <2>2. \A q \in Req : pc'[q] = IF q = r THEN "rejected" ELSE pc[q]
    BY <1>a, <2>1 DEF Functions
  <2>3. Functions'
    BY <1>a, <2>1 DEF Functions, States
  <2>4. Known(r)'
    BY <1>a, <2>1, <2>2 DEF Known, InFlight
  <2> QED BY <1>a, <2>1, <2>2, <2>3, <2>4, KnownFrame DEF TrueInv
<1>2. CASE Register(r)
  <2> DEFINE trace == TraceOf(input[r], <<"generated">>)
             new   == NewRow(input[r], trace)
             copied == [count |-> new.count, msgs |-> <<>>, trace |-> trace]
  <2>0. /\ row' = [row EXCEPT ![r] = new]
        /\ IF FastPath(input[r])
             THEN /\ copy' = [copy EXCEPT ![r] = copied]
                  /\ pc' = [pc EXCEPT ![r] = Armed(input[r].delay)]
             ELSE copy' = copy /\ pc' = [pc EXCEPT ![r] = "stored"]
    BY <1>2 DEF Register, Go
  <2>1. PICK p \in {"armed", "parked", "stored"} :
          /\ pc' = [pc EXCEPT ![r] = p]
          /\ row' = [row EXCEPT ![r] = new]
          /\ IF FastPath(input[r]) THEN p # "stored" /\ copy' = [copy EXCEPT ![r] = copied]
             ELSE p = "stored" /\ copy' = copy
    <3> HIDE DEF new, copied
    <3> QED BY <2>0 DEF Armed
  <2>2. pc[r] = "new" /\ UNCHANGED <<input, tried, result, said>>
    BY <1>2 DEF Register, At, ghost
  <2>3. \A q \in Req : /\ pc'[q] = IF q = r THEN p ELSE pc[q]
                       /\ row'[q] = IF q = r THEN new ELSE row[q]
                       /\ q # r => copy'[q] = copy[q]
    BY <1>a, <2>1 DEF Functions
  <2>4. Functions'
    BY <1>a, <2>1, <2>2 DEF Functions, States
  <2>5. tried'[r] = <<>> /\ Retries(r)' = Retries(r) /\ Retries(r) \in Nat
    BY <1>a, <2>2, Fields DEF Known, Retries
  <2>6. IsRow(row'[r]) /\ row'[r].msgs = <<>>
    BY <2>1, <2>3 DEF NewRow, IsRow
  <2>7. CASE FastPath(input[r])
    <3>1. row'[r].status = 1 /\ new.count = 0 /\ p \in {"armed", "parked"}
      BY <2>1, <2>3, <2>7 DEF NewRow
    <3>2. copy'[r] = [count |-> 0, msgs |-> <<>>, trace |-> trace]
      BY <1>a, <2>1, <2>7, <3>1 DEF Functions
    <3>3. IsCopy(copy'[r]) /\ copy'[r].msgs = <<>> /\ copy'[r].count = 0
      BY <3>2 DEF IsCopy
    <3> QED BY <2>3, <2>5, <2>6, <3>1, <3>3, <1>a, <2>2, <2>4, KnownFrame
            DEF TrueInv, Known, InFlight
  <2>8. CASE ~FastPath(input[r])
    <3>1. row'[r].status = 0 /\ row'[r].count = -1 /\ p = "stored"
      BY <2>1, <2>3, <2>8 DEF NewRow
    <3> QED BY <2>3, <2>5, <2>6, <3>1, <1>a, <2>2, <2>4, KnownFrame
            DEF TrueInv, Known, InFlight
  <2> QED BY <2>7, <2>8
<1>3. CASE Cron(r)
  <2> DEFINE n == row[r].count + 1
  <2>1. PICK trace :
          /\ copy' = [copy EXCEPT ![r] = [count |-> n, msgs |-> row[r].msgs, trace |-> trace]]
          /\ row' = [row EXCEPT ![r].status = 1, ![r].count = n]
          /\ pc[r] = "stored" /\ pc' = [pc EXCEPT ![r] = "armed"]
          /\ UNCHANGED <<input, tried, result, said>>
    BY <1>3 DEF Cron, At, Go, ghost
  <2>2. \A q \in Req : /\ pc'[q] = IF q = r THEN "armed" ELSE pc[q]
                       /\ q # r => copy'[q] = copy[q] /\ row'[q] = row[q]
    BY <1>a, <2>1 DEF Functions
  <2>3. Functions'
    BY <1>a, <2>1 DEF Functions, States
  <2>4. /\ IsRow(row[r]) /\ row[r].msgs = tried[r] /\ row[r].count = Len(tried[r]) - 1
        /\ Len(tried[r]) <= Retries(r) /\ Len(tried[r]) \in Nat
    BY <1>a, <2>1, Fields DEF Known
  <2>5. /\ copy'[r] = [count |-> n, msgs |-> row[r].msgs, trace |-> trace]
        /\ row'[r] = [status |-> 1, count |-> n, msgs |-> row[r].msgs, trace |-> row[r].trace]
    BY <1>a, <2>1, <2>4 DEF Functions, IsRow
  <2>6. n = Len(tried[r])
    BY <2>4
  <2>7. Known(r)'
    <3>1. /\ IsCopy(copy'[r]) /\ copy'[r].count = Len(tried'[r]) /\ copy'[r].msgs = tried'[r]
          /\ IsRow(row'[r]) /\ row'[r].status = 1
      BY <2>1, <2>4, <2>5, <2>6 DEF IsCopy, IsRow
    <3>2. Len(tried'[r]) <= Retries(r)' /\ pc'[r] = "armed"
      BY <2>1, <2>2, <2>4 DEF Retries
    <3> QED BY <3>1, <3>2 DEF Known
  <2> QED BY <1>a, <2>1, <2>2, <2>3, <2>7, KnownFrame DEF TrueInv
<1> QED BY <1>1, <1>2, <1>3

\* What both verdicts do with the result: it is one more of those tried.
LEMMA Judging ==
  ASSUME TrueInv, NEW r \in Req, Success(r) \/ Failure(r)
  PROVE  /\ pc[r] = "judge" /\ tried' \in [Req -> Seq(Results)]
         /\ tried'[r] = Append(tried[r], result[r])
         /\ Len(tried'[r]) = Len(tried[r]) + 1
         /\ \A q \in Req \ {r} : tried'[q] = tried[q] /\ result'[q] = result[q]
         /\ result' = [q \in Req |-> result'[q]]
         /\ UNCHANGED <<input, said>>
<1>1. /\ pc[r] = "judge" /\ UNCHANGED <<input, said>>
      /\ tried' = [tried EXCEPT ![r] = Append(@, result[r])]
      /\ result' = [result EXCEPT ![r] = None]
  BY DEF Success, Failure, Done, At, ghost
<1>2. result[r] \in Results
  <2>1. PICK reply \in Replies, err \in BOOLEAN : result[r] = <<reply, err>>
    BY <1>1 DEF TrueInv, Known
  <2> HIDE DEF Replies
  <2> QED BY <2>1 DEF Results
<1>3. tried[r] \in Seq(Results) /\ Append(tried[r], result[r]) \in Seq(Results)
      /\ Len(Append(tried[r], result[r])) = Len(tried[r]) + 1
  BY <1>2, Fields DEF TrueInv
<1> HIDE DEF Results
<1>4. tried'[r] = Append(tried[r], result[r])
  BY <1>1 DEF TrueInv, Functions
<1>5. tried' \in [Req -> Seq(Results)]
  BY <1>1, <1>3 DEF TrueInv, Functions
<1> QED BY <1>1, <1>3, <1>4, <1>5 DEF TrueInv, Functions

LEMMA KnownSuccess ==
  ASSUME TrueInv, NEW r \in Req, Success(r)
  PROVE  TrueInv'
<1>a. Functions /\ \A q \in Req : Known(q)
  BY DEF TrueInv
<1>b. /\ pc[r] = "judge" /\ IsSuccess(result[r][1], result[r][2])
      /\ row' = (IF row[r].status = 1 THEN [row EXCEPT ![r].status = 2] ELSE row)
      /\ pc' = [pc EXCEPT ![r] = "end"] /\ copy' = copy
  BY DEF Success, At, Go
<1>1. row[r].status = 1 /\ IsRow(row[r]) /\ said[r]
  BY <1>a, <1>b DEF Known, InFlight
<1>2. row'[r] = [status |-> 2, count |-> row[r].count, msgs |-> row[r].msgs,
                 trace |-> row[r].trace]
  BY <1>a, <1>b, <1>1 DEF Functions, IsRow
<1>3. \A q \in Req : /\ pc'[q] = IF q = r THEN "end" ELSE pc[q]
                     /\ q # r => row'[q] = row[q]
  BY <1>a, <1>b DEF Functions
<1>4. Functions'
  BY <1>a, <1>b, Judging DEF Functions, States
<1>5. Known(r)'
  BY <1>1, <1>2, <1>3, Judging DEF Known, IsRow, InFlight
<1> QED BY <1>a, <1>b, <1>3, <1>4, <1>5, Judging, KnownFrame DEF TrueInv

\* What a failure starts from.
LEMMA FailureFrom ==
  ASSUME TrueInv, NEW r \in Req, Failure(r)
  PROVE  /\ pc[r] = "judge" /\ row[r].status = 1 /\ IsRow(row[r]) /\ IsCopy(copy[r])
         /\ Append(copy[r].msgs, result[r]) = tried'[r]
         /\ copy[r].count \in 0 .. Retries(r) /\ Retries(r) \in Nat
         /\ Retries(r)' = Retries(r)
         /\ Len(tried'[r]) = copy[r].count + 1
<1>1. /\ pc[r] = "judge" /\ input' = input /\ tried'[r] = Append(tried[r], result[r])
      /\ Len(tried'[r]) = Len(tried[r]) + 1
  BY Judging
<1>2. Retries(r) \in Nat /\ Len(tried[r]) \in Nat /\ Retries(r)' = Retries(r)
  BY <1>1, Fields DEF TrueInv, Retries
<1>3. /\ row[r].status = 1 /\ IsRow(row[r]) /\ IsCopy(copy[r])
      /\ copy[r].msgs = tried[r] /\ copy[r].count = Len(tried[r])
      /\ Len(tried[r]) <= Retries(r)
  BY <1>1 DEF TrueInv, Known, InFlight
<1> QED BY <1>1, <1>2, <1>3

\* What it leaves, wherever it goes from there.
LEMMA FailureTo ==
  ASSUME TrueInv, NEW r \in Req, Failure(r),
         NEW p \in {"stored", "armed", "parked", "end"}, pc' = [pc EXCEPT ![r] = p],
         row' = [q \in Req |-> row'[q]], copy' = [q \in Req |-> copy'[q]],
         \A q \in Req \ {r} : row'[q] = row[q] /\ copy'[q] = copy[q],
         IsRow(row'[r]), row'[r].msgs = tried'[r],
         p = "stored" => /\ row'[r].status = 0 /\ row'[r].count = copy[r].count
                         /\ copy[r].count < Retries(r),
         p = "armed" => /\ row'[r].status = 1 /\ copy[r].count < Retries(r)
                        /\ IsCopy(copy'[r]) /\ copy'[r].msgs = tried'[r]
                        /\ copy'[r].count = copy[r].count + 1,
         p = "parked" => row'[r].status = 1,
         p = "end" => row'[r].status = 3 /\ copy[r].count = Retries(r)
  PROVE  TrueInv'
<1>a. Functions /\ \A q \in Req : Known(q)
  BY DEF TrueInv
<1>1. \A q \in Req : pc'[q] = IF q = r THEN p ELSE pc[q]
  BY <1>a DEF Functions
<1>2. Functions'
  <2>1. pc' \in [Req -> States]
    BY <1>a DEF Functions, States
  <2> QED BY <1>a, <2>1, Judging DEF Functions
<1>3. Known(r)'
  <2>1. /\ copy[r].count \in 0 .. Retries(r) /\ Retries(r) \in Nat
        /\ Retries(r)' = Retries(r) /\ Len(tried'[r]) = copy[r].count + 1
    BY FailureFrom
  <2> QED BY <1>1, <2>1 DEF Known, InFlight
<1>4. ASSUME NEW q \in Req \ {r} PROVE Known(q)'
  <2>1. /\ Known(q) /\ pc'[q] = pc[q] /\ row'[q] = row[q] /\ copy'[q] = copy[q]
        /\ result'[q] = result[q] /\ tried'[q] = tried[q] /\ input' = input /\ said' = said
    BY <1>a, <1>1, Judging
  <2> QED BY <2>1, KnownFrame
<1> QED BY <1>2, <1>3, <1>4 DEF TrueInv

LEMMA KnownFailure ==
  ASSUME TrueInv, NEW r \in Req, Failure(r)
  PROVE  TrueInv'
<1> DEFINE msgs == Append(copy[r].msgs, result[r])
           n    == copy[r].count
<1>a. Functions
  BY DEF TrueInv
<1>1. /\ n \in 0 .. Retries(r) /\ Retries(r) \in Nat /\ msgs = tried'[r]
      /\ IsRow(row[r]) /\ row[r].status = 1 /\ IsCopy(copy[r])
  BY FailureFrom
<1>2. CASE n < Retries(r) /\ input[r].backoff[n + 1] <= FastPathTime
  <2>1. /\ row' = [row EXCEPT ![r].count = n + 1, ![r].msgs = msgs]
        /\ copy' = [copy EXCEPT ![r].count = n + 1, ![r].msgs = msgs]
        /\ pc' = [pc EXCEPT ![r] = Armed(input[r].backoff[n + 1])]
    BY <1>2 DEF Failure, Retries, Go
  <2>2. PICK p \in {"armed", "parked"} : pc' = [pc EXCEPT ![r] = p]
    BY <2>1 DEF Armed
  <2>3. row' = [row EXCEPT ![r].status = 1, ![r].count = n + 1, ![r].msgs = msgs]
    <3> HIDE DEF msgs, n
    <3> QED BY <1>a, <1>1, <2>1 DEF Functions, IsRow
  <2>4. /\ IsRow(row'[r]) /\ row'[r].status = 1 /\ row'[r].msgs = msgs
        /\ row' = [q \in Req |-> row'[q]] /\ \A q \in Req \ {r} : row'[q] = row[q]
    <3> HIDE DEF msgs, n
    <3>1. row'[r] = [status |-> 1, count |-> n + 1, msgs |-> msgs, trace |-> row[r].trace]
      BY <1>a, <1>1, <2>3 DEF Functions, IsRow
    <3>2. /\ row' = [q \in Req |-> row'[q]]
          /\ \A q \in Req \ {r} : row'[q] = row[q]
      BY <1>a, <2>3 DEF Functions
    <3> QED BY <3>1, <3>2 DEF IsRow
  <2>5. /\ copy'[r] = [count |-> n + 1, msgs |-> msgs, trace |-> copy[r].trace]
        /\ \A q \in Req \ {r} : copy'[q] = copy[q]
        /\ copy' = [q \in Req |-> copy'[q]]
    <3> HIDE DEF msgs, n
    <3> QED BY <1>a, <1>1, <2>1 DEF Functions, IsCopy
  <2>6. IsCopy(copy'[r]) /\ copy'[r].msgs = msgs /\ copy'[r].count = n + 1
    <3> HIDE DEF msgs, n
    <3> QED BY <2>5 DEF IsCopy
  <2> QED BY <1>1, <1>2, <2>2, <2>4, <2>5, <2>6, FailureTo
<1>3. CASE n < Retries(r) /\ ~(input[r].backoff[n + 1] <= FastPathTime)
  <2>1. /\ row' = [row EXCEPT ![r].status = 0, ![r].count = n, ![r].msgs = msgs]
        /\ copy' = [copy EXCEPT ![r] = None]
        /\ pc' = [pc EXCEPT ![r] = "stored"]
    BY <1>3 DEF Failure, Retries, Go
  <2>2. /\ IsRow(row'[r]) /\ row'[r].status = 0 /\ row'[r].count = n /\ row'[r].msgs = msgs
        /\ row' = [q \in Req |-> row'[q]] /\ \A q \in Req \ {r} : row'[q] = row[q]
    <3> HIDE DEF msgs, n
    <3>1. row'[r] = [status |-> 0, count |-> n, msgs |-> msgs, trace |-> row[r].trace]
      BY <1>a, <1>1, <2>1 DEF Functions, IsRow
    <3>2. /\ row' = [q \in Req |-> row'[q]]
          /\ \A q \in Req \ {r} : row'[q] = row[q]
      BY <1>a, <2>1 DEF Functions
    <3> QED BY <3>1, <3>2 DEF IsRow
  <2>3. /\ \A q \in Req \ {r} : copy'[q] = copy[q]
        /\ copy' = [q \in Req |-> copy'[q]]
    BY <1>a, <2>1 DEF Functions
  <2> QED BY <1>1, <1>3, <2>1, <2>2, <2>3, FailureTo
<1>4. CASE ~(n < Retries(r))
  <2>1. /\ row' = [row EXCEPT ![r].status = 3, ![r].msgs = msgs]
        /\ copy' = copy /\ pc' = [pc EXCEPT ![r] = "end"]
    BY <1>4 DEF Failure, Retries, Go
  <2>2. row' = [row EXCEPT ![r].status = 3, ![r].count = row[r].count, ![r].msgs = msgs]
    <3> HIDE DEF msgs, n
    <3> QED BY <1>a, <1>1, <2>1 DEF Functions, IsRow
  <2>3. /\ IsRow(row'[r]) /\ row'[r].status = 3 /\ row'[r].msgs = msgs
        /\ row' = [q \in Req |-> row'[q]] /\ \A q \in Req \ {r} : row'[q] = row[q]
    <3> HIDE DEF msgs, n
    <3>1. row'[r] = [status |-> 3, count |-> row[r].count, msgs |-> msgs, trace |-> row[r].trace]
      BY <1>a, <1>1, <2>2 DEF Functions, IsRow
    <3>2. /\ row' = [q \in Req |-> row'[q]]
          /\ \A q \in Req \ {r} : row'[q] = row[q]
      BY <1>a, <2>2 DEF Functions
    <3> QED BY <3>1, <3>2 DEF IsRow
  <2>4. /\ n = Retries(r) /\ copy' = [q \in Req |-> copy'[q]]
        /\ \A q \in Req \ {r} : copy'[q] = copy[q]
    BY <1>a, <1>1, <1>4, <2>1 DEF Functions
  <2> QED BY <1>1, <2>1, <2>3, <2>4, FailureTo
<1> QED BY <1>2, <1>3, <1>4

LEMMA TruePreserved == TrueInv /\ [Next]_vars => TrueInv'
<1> SUFFICES ASSUME TrueInv, [Next]_vars PROVE TrueInv'
  OBVIOUS
<1>1. ASSUME UNCHANGED <<input, pc, task, result, said>> PROVE TrueInv'
  <2>1. Functions'
    BY <1>1 DEF TrueInv, Functions, task
  <2>2. \A q \in Req : Known(q)'
    BY <1>1, KnownFrame DEF TrueInv, task
  <2> QED BY <2>1, <2>2 DEF TrueInv
<1> QED BY <1>1, KnownBefore, KnownAttempt, KnownSuccess, KnownFailure
        DEF Next, Attempt, Close, Halt, vars, ghost

\* A stored success was answered in full, and a stored failure has had all its
\* attempts and keeps the result of each, through any mixture of retries that
\* went through the row and retries that did not.
THEOREM ResultsAreTrue == Spec => []ResultIsTrue
<1>1. TrueInv => ResultIsTrue
  <2> SUFFICES ASSUME TrueInv, NEW r \in Req, row[r] # None
               PROVE  /\ row[r].status = 2 => said[r]
                      /\ row[r].status = 3 => /\ row[r].msgs = tried[r]
                                             /\ Len(tried[r]) = Len(input[r].backoff) + 1
    BY DEF ResultIsTrue
  <2>1. Known(r) /\ pc[r] \in States
    BY DEF TrueInv, Functions
  <2> QED BY <2>1 DEF Known, States, InFlight, Retries
<1> QED BY <1>1, TrueInitially, TruePreserved, PTL DEF Spec

-------------------------------------------------------------------------------
(* Requests.  What was accepted and what was answered, the traces that a task *)
(* carries, and the shapes of the rest of the state.                          *)

Outside == {"new", "rejected"}
NotLoaded == Outside \cup {"stored"}
Trace(r) == TraceOf(input[r], <<"generated">>)
Traces(r) == {Trace(r), <<"cron">> \o Trace(r)}

\* What is in memory of a task that is not in flight, and what bounds its counts.
Neat(r) ==
  /\ pc[r] \in NotLoaded => copy[r] = None
  /\ pc[r] \notin NotLoaded => IsCopy(copy[r]) /\ copy[r].count \in 0 .. Retries(r)
  /\ pc[r] \notin Outside => row[r].count \in -1 .. Retries(r)
  /\ pc[r] # "judge" => result[r] = None

\* What the validator has let through, and what it has answered.
Taken(r) ==
  /\ pc[r] \notin Outside => Decodes(input[r]) /\ Verdict(input[r]) = {}
  /\ pc[r] = "rejected" =>
       answer[r][2] = IF Decodes(input[r]) THEN Verdict(input[r]) ELSE {}

\* The row has the trace of its request, the copy that or the cron's as well.
Traced(r) ==
  /\ pc[r] \notin Outside => row[r].trace = Trace(r)
  /\ pc[r] \notin NotLoaded => copy[r].trace \in Traces(r)
  /\ seen[r] \subseteq Traces(r)

Detail(r) == Neat(r) /\ Taken(r) /\ Traced(r)

Tables == answer = [r \in Req |-> answer[r]] /\ seen = [r \in Req |-> seen[r]]

\* Connections are of URLs, and only those of the map are ever closed.
Sockets ==
  /\ writing = {r \in Req : pc[r] = "putting"}
  /\ \A r \in Req : conn[r] = None \/ conn[r] \in Urls \X Nat
  /\ \A u \in Urls : clients[u] = None \/ clients[u] \in Urls \X Nat
  /\ closed \subseteq Urls \X Nat
  /\ stopped \in {"running", "closed", "halted"} /\ crashed \in BOOLEAN

RequestInv == Tables /\ \A r \in Req : Detail(r)

LEMMA DetailFrame ==
  ASSUME NEW q \in Req, Detail(q), input' = input, pc'[q] = pc[q], row'[q] = row[q],
         copy'[q] = copy[q], result'[q] = result[q], answer'[q] = answer[q],
         seen'[q] = seen[q]
  PROVE  Detail(q)'
BY DEF Detail, Neat, Taken, Traced, Trace, Traces, Retries

LEMMA DetailInitially == Init => RequestInv
<1> SUFFICES ASSUME Init PROVE RequestInv
  OBVIOUS
<1>1. Tables
  BY DEF Init, Tables
<1>2. ASSUME NEW r \in Req PROVE Detail(r)
  BY DEF Init, Detail, Neat, Taken, Traced, Outside, NotLoaded
<1> QED BY <1>1, <1>2 DEF RequestInv

\* A step of one request leaves every other alone.
LEMMA DetailStep ==
  ASSUME RequestInv, NEW r \in Req, input' = input, Tables',
         \A q \in Req \ {r} : /\ pc'[q] = pc[q] /\ row'[q] = row[q] /\ copy'[q] = copy[q]
                              /\ result'[q] = result[q] /\ answer'[q] = answer[q]
                              /\ seen'[q] = seen[q],
         Detail(r)'
  PROVE  RequestInv'
<1>1. \A q \in Req \ {r} : Detail(q)'
  BY DetailFrame DEF RequestInv
<1> QED BY <1>1 DEF RequestInv

\* A step of an attempt up to its result; it may send the trace of its task.
LEMMA DetailAttempt ==
  ASSUME TrueInv, RequestInv, NEW r \in Req,
         Execute(r) \/ Look(r) \/ DialFails(r) \/ PutBegin(r) \/ PutEnd(r) \/ Ask(r)
           \/ Expires(r) \/ Answered(r) \/ BrokenOff(r)
  PROVE  RequestInv'
<1> USE DEF At, Go, task, ghost
<1>1. /\ pc[r] \in InFlight \ {"judge"} /\ UNCHANGED <<input, row, copy, answer>>
      /\ \E p \in InFlight : pc' = [pc EXCEPT ![r] = p] /\
           \/ p # "judge" /\ result' = result
           \/ p = "judge" /\ \E x : result' = [result EXCEPT ![r] = x]
      /\ seen' = seen \/ seen' = [seen EXCEPT ![r] = @ \cup {copy[r].trace}]
  BY DEF Execute, Look, DialFails, PutBegin, PutEnd, Ask, Expires, Answered, BrokenOff,
         Returns, InFlight
<1>2. \A q \in Req \ {r} : pc'[q] = pc[q] /\ result'[q] = result[q] /\ seen'[q] = seen[q]
  BY <1>1 DEF TrueInv, Functions, RequestInv, Tables
<1>3. Tables'
  BY <1>1 DEF RequestInv, Tables
<1>4. /\ pc'[r] \in InFlight /\ (pc'[r] # "judge" => result'[r] = result[r])
      /\ seen'[r] \subseteq seen[r] \cup {copy[r].trace}
  BY <1>1 DEF TrueInv, Functions, RequestInv, Tables
<1>5. Detail(r)'
  BY <1>1, <1>4 DEF RequestInv, Detail, Neat, Taken, Traced, Trace, Traces, Retries,
                    Outside, NotLoaded, InFlight
<1> QED BY <1>1, <1>2, <1>3, <1>5, DetailStep

\* A trace is one id: that of the client, or the generated one; the cron puts
\* its own before it, and the last id is still the one of the client.
LEMMA OneTrace ==
  ASSUME Functions, NEW r \in Req
  PROVE  /\ Trace(r) = <<Trace(r)[1]>>
         /\ Trace(r)[1] = IF input[r].via = "grpc" /\ input[r].trace # NoTrace
                            THEN input[r].trace[1] ELSE "generated"
         /\ \A trace \in Traces(r) : trace[Len(trace)] = Trace(r)[1]
<1>1. input[r].trace = NoTrace \/ input[r].trace = <<input[r].trace[1]>>
  BY CallbacksAssumption DEF Functions
<1>2. /\ Trace(r) = <<Trace(r)[1]>>
      /\ Trace(r)[1] = IF input[r].via = "grpc" /\ input[r].trace # NoTrace
                            THEN input[r].trace[1] ELSE "generated"
  BY <1>1 DEF Trace, TraceOf
<1>3. ASSUME NEW x
      PROVE  LET trace == <<"cron">> \o <<x>> IN trace[Len(trace)] = x
  <2>1. \A S : \A s \in Seq(S), t \in Seq(S) :
          /\ Len(s \o t) = Len(s) + Len(t)
          /\ \A i \in 1 .. Len(s) + Len(t) :
               (s \o t)[i] = IF i <= Len(s) THEN s[i] ELSE t[i - Len(s)]
    BY ConcatProperties
  <2>2. <<"cron">> \in Seq({"cron", x}) /\ <<x>> \in Seq({"cron", x})
    OBVIOUS
  <2>3. Len(<<"cron">>) = 1 /\ Len(<<x>>) = 1 /\ <<x>>[1] = x
    OBVIOUS
  <2> QED BY <2>1, <2>2, <2>3
<1>4. PICK x : Trace(r) = <<x>> /\ x = Trace(r)[1]
  BY <1>2
<1>5. \A trace \in Traces(r) : trace[Len(trace)] = x
  <2>1. Traces(r) = {<<x>>, <<"cron">> \o <<x>>} /\ <<x>>[Len(<<x>>)] = x
    BY <1>4 DEF Traces
  <2> QED BY <2>1, <1>3
<1> QED BY <1>2, <1>4, <1>5

LEMMA DetailBefore ==
  ASSUME TrueInv, RequestInv, NEW r \in Req, Reject(r) \/ Register(r) \/ Cron(r)
  PROVE  RequestInv'
<1>a. Functions /\ Tables /\ Detail(r)
  BY DEF TrueInv, RequestInv
<1>1. CASE Reject(r)
  <2> DEFINE told == <<"invalid", IF Decodes(input[r]) THEN Verdict(input[r]) ELSE {}>>
  <2>1. /\ pc[r] = "new" /\ pc' = [pc EXCEPT ![r] = "rejected"]
        /\ answer' = [answer EXCEPT ![r] = told]
        /\ UNCHANGED <<input, row, copy, result, seen>>
    BY <1>1 DEF Reject, At, Go, task, ghost
  <2>2. told[2] = IF Decodes(input[r]) THEN Verdict(input[r]) ELSE {}
    OBVIOUS
  <2> HIDE DEF told
  <2>3. pc'[r] = "rejected" /\ answer'[r] = told /\ Tables'
    BY <1>a, <2>1 DEF Functions, Tables
  <2>4. \A q \in Req \ {r} : pc'[q] = pc[q] /\ answer'[q] = answer[q]
    BY <1>a, <2>1 DEF Functions, Tables
  <2>5. Detail(r)'
    BY <1>a, <2>1, <2>2, <2>3 DEF Detail, Neat, Taken, Traced, Trace, Traces, Outside, NotLoaded
  <2> QED BY <2>1, <2>3, <2>4, <2>5, DetailStep
<1>2. CASE Register(r)
  <2> DEFINE new   == NewRow(input[r], Trace(r))
             copied == [count |-> new.count, msgs |-> <<>>, trace |-> Trace(r)]
  <2>0. /\ pc[r] = "new" /\ Decodes(input[r]) /\ Verdict(input[r]) = {}
        /\ row' = [row EXCEPT ![r] = new]
        /\ IF FastPath(input[r])
             THEN /\ copy' = [copy EXCEPT ![r] = copied]
                  /\ pc' = [pc EXCEPT ![r] = Armed(input[r].delay)]
             ELSE copy' = copy /\ pc' = [pc EXCEPT ![r] = "stored"]
        /\ answer' = [answer EXCEPT ![r] = <<"accepted", {}>>]
        /\ UNCHANGED <<input, result, seen>>
    BY <1>2 DEF Register, Go, At, Trace, ghost
  <2>1. /\ new.count = (IF FastPath(input[r]) THEN 0 ELSE -1) /\ new.trace = Trace(r)
        /\ IsCopy(copied) /\ copied.count = new.count /\ copied.trace = Trace(r)
    BY DEF NewRow, IsCopy
  <2> HIDE DEF new, copied
  <2>2. PICK p \in {"armed", "parked", "stored"} :
          /\ pc' = [pc EXCEPT ![r] = p]
          /\ IF FastPath(input[r]) THEN p # "stored" /\ copy' = [copy EXCEPT ![r] = copied]
             ELSE p = "stored" /\ copy' = copy
    BY <2>0 DEF Armed
  <2>3. /\ row'[r] = new /\ pc'[r] = p /\ Tables'
        /\ copy'[r] = IF FastPath(input[r]) THEN copied ELSE copy[r]
    BY <1>a, <2>0, <2>2 DEF Functions, Tables
  <2>4. \A q \in Req \ {r} : /\ pc'[q] = pc[q] /\ answer'[q] = answer[q]
                             /\ row'[q] = row[q] /\ copy'[q] = copy[q]
    BY <1>a, <2>0, <2>2 DEF Functions, Tables
  <2>5. Retries(r) \in Nat /\ Retries(r)' = Retries(r)
    BY <1>a, <2>0, Fields DEF Retries
  <2>6. Neat(r)'
    BY <1>a, <2>0, <2>1, <2>2, <2>3, <2>5 DEF Detail, Neat, Outside, NotLoaded
  <2>7. Taken(r)'
    BY <2>0, <2>3 DEF Taken
  <2>8. Traced(r)'
    BY <1>a, <2>0, <2>1, <2>2, <2>3 DEF Detail, Traced, Trace, Traces, NotLoaded
  <2>9. Detail(r)'
    BY <2>6, <2>7, <2>8 DEF Detail
  <2> QED BY <2>0, <2>3, <2>4, <2>9, DetailStep
<1>3. CASE Cron(r)
  <2> DEFINE loaded == [count |-> row[r].count + 1, msgs |-> row[r].msgs,
                        trace |-> Append2(<<"cron">>, row[r].trace)]
  <2>1. /\ copy' = [copy EXCEPT ![r] = loaded]
        /\ row' = [row EXCEPT ![r].status = 1, ![r].count = loaded.count]
        /\ pc[r] = "stored" /\ pc' = [pc EXCEPT ![r] = "armed"]
        /\ UNCHANGED <<input, answer, result, seen>>
    BY <1>3 DEF Cron, At, Go, ghost
  <2>2. /\ IsRow(row[r]) /\ row[r].count = Len(tried[r]) - 1
        /\ Len(tried[r]) <= Retries(r) /\ Len(tried[r]) \in Nat
        /\ Retries(r) \in Nat /\ Retries(r)' = Retries(r)
    BY <2>1, Fields DEF TrueInv, Known, Retries
  <2>3. loaded.trace = <<"cron">> \o Trace(r)
    <3>1. Trace(r) # NoTrace /\ row[r].trace = Trace(r)
      <4>1. \A x : <<x>> # NoTrace
        BY DEF NoTrace
      <4> QED BY <1>a, <2>1, <4>1, OneTrace DEF Detail, Traced, Outside
    <3> QED BY <3>1 DEF Append2
  <2>4. IsCopy(loaded) /\ loaded.count = Len(tried[r])
    BY <2>2 DEF IsCopy
  <2> HIDE DEF loaded
  <2>5. /\ copy'[r] = loaded /\ pc'[r] = "armed" /\ Tables'
        /\ row'[r].count = loaded.count /\ row'[r].trace = row[r].trace
    <3>1. row'[r] = [row[r] EXCEPT !.status = 1, !.count = loaded.count]
      BY <1>a, <2>1 DEF Functions
    <3> QED BY <1>a, <2>1, <2>2, <3>1 DEF Functions, Tables, IsRow
  <2>6. \A q \in Req \ {r} : pc'[q] = pc[q] /\ row'[q] = row[q] /\ copy'[q] = copy[q]
    BY <1>a, <2>1 DEF Functions
  <2>7. Neat(r)'
    BY <1>a, <2>1, <2>2, <2>4, <2>5 DEF Detail, Neat, Outside, NotLoaded
  <2>8. Taken(r)'
    BY <1>a, <2>1, <2>5 DEF Detail, Taken, Outside
  <2>9. Traced(r)'
    BY <1>a, <2>1, <2>3, <2>5 DEF Detail, Traced, Trace, Traces, Outside, NotLoaded
  <2>10. Detail(r)'
    BY <2>7, <2>8, <2>9 DEF Detail
  <2> QED BY <2>1, <2>5, <2>6, <2>10, DetailStep
<1> QED BY <1>1, <1>2, <1>3

\* What a verdict does to a request, wherever the task goes from there.
LEMMA DetailVerdict ==
  ASSUME TrueInv, RequestInv, NEW r \in Req, Success(r) \/ Failure(r),
         NEW p \in {"stored", "armed", "parked", "end"}, pc' = [pc EXCEPT ![r] = p],
         \A q \in Req \ {r} : row'[q] = row[q] /\ copy'[q] = copy[q],
         row'[r].count \in -1 .. Retries(r), row'[r].trace = row[r].trace,
         p = "stored" => copy'[r] = None,
         p # "stored" => /\ IsCopy(copy'[r]) /\ copy'[r].count \in 0 .. Retries(r)
                         /\ copy'[r].trace = copy[r].trace
  PROVE  RequestInv'
<1>1. /\ pc[r] = "judge" /\ result' = [result EXCEPT ![r] = None]
      /\ UNCHANGED <<input, answer, seen>>
  BY DEF Success, Failure, Done, At, ghost
<1>2. /\ pc'[r] = p /\ result'[r] = None /\ Tables'
      /\ \A q \in Req \ {r} : pc'[q] = pc[q] /\ result'[q] = result[q]
  BY <1>1 DEF TrueInv, Functions, RequestInv, Tables
<1>3. Retries(r)' = Retries(r) /\ Trace(r)' = Trace(r) /\ Traces(r)' = Traces(r)
  BY <1>1 DEF Retries, Trace, Traces
<1>4. Neat(r)'
  BY <1>2, <1>3 DEF Neat, Outside, NotLoaded
<1>5. Taken(r)'
  BY <1>1, <1>2 DEF RequestInv, Detail, Taken, Outside
<1>6. Traced(r)'
  BY <1>1, <1>2, <1>3 DEF RequestInv, Detail, Traced, Outside, NotLoaded
<1>7. Detail(r)'
  BY <1>4, <1>5, <1>6 DEF Detail
<1> QED BY <1>1, <1>2, <1>7, DetailStep

LEMMA DetailSuccess ==
  ASSUME TrueInv, RequestInv, NEW r \in Req, Success(r)
  PROVE  RequestInv'
<1>1. /\ pc[r] = "judge" /\ pc' = [pc EXCEPT ![r] = "end"] /\ copy' = copy
      /\ row' = (IF row[r].status = 1 THEN [row EXCEPT ![r].status = 2] ELSE row)
  BY DEF Success, At, Go
<1>2. /\ Functions /\ Detail(r) /\ IsRow(row[r])
  BY <1>1 DEF TrueInv, RequestInv, Known
<1>3. /\ row'[r].count = row[r].count /\ row'[r].trace = row[r].trace
      /\ \A q \in Req \ {r} : row'[q] = row[q]
  <2>1. row'[r] = row[r] \/ row'[r] = [row[r] EXCEPT !.status = 2]
    BY <1>1, <1>2 DEF Functions
  <2>2. \A q \in Req \ {r} : row'[q] = row[q]
    BY <1>1, <1>2 DEF Functions
  <2> QED BY <1>2, <2>1, <2>2 DEF IsRow
<1>4. /\ row[r].count \in -1 .. Retries(r)
      /\ IsCopy(copy[r]) /\ copy[r].count \in 0 .. Retries(r)
  BY <1>1, <1>2 DEF Detail, Neat, Outside, NotLoaded
<1> QED BY <1>1, <1>3, <1>4, DetailVerdict

LEMMA DetailFailure ==
  ASSUME TrueInv, RequestInv, NEW r \in Req, Failure(r)
  PROVE  RequestInv'
<1> DEFINE msgs == Append(copy[r].msgs, result[r])
           n    == copy[r].count
<1>a. Functions /\ Detail(r)
  BY DEF TrueInv, RequestInv
<1>1. /\ pc[r] = "judge" /\ IsRow(row[r]) /\ IsCopy(copy[r])
      /\ n \in 0 .. Retries(r) /\ Retries(r) \in Nat
      /\ row[r].count \in -1 .. Retries(r)
  BY <1>a, FailureFrom DEF Detail, Neat, Outside
<1>2. PICK p \in {"stored", "armed", "parked", "end"} :
        /\ pc' = [pc EXCEPT ![r] = p]
        /\ \/ /\ p \in {"armed", "parked"} /\ n < Retries(r)
              /\ row' = [row EXCEPT ![r].count = n + 1, ![r].msgs = msgs]
              /\ copy' = [copy EXCEPT ![r].count = n + 1, ![r].msgs = msgs]
           \/ /\ p = "stored"
              /\ row' = [row EXCEPT ![r].status = 0, ![r].count = n, ![r].msgs = msgs]
              /\ copy' = [copy EXCEPT ![r] = None]
           \/ /\ p = "end" /\ copy' = copy
              /\ row' = [row EXCEPT ![r].status = 3, ![r].msgs = msgs]
  BY DEF Failure, Go, Armed, Retries
<1> HIDE DEF msgs, n
<1>3. CASE /\ p \in {"armed", "parked"} /\ n < Retries(r)
           /\ row' = [row EXCEPT ![r].count = n + 1, ![r].msgs = msgs]
           /\ copy' = [copy EXCEPT ![r].count = n + 1, ![r].msgs = msgs]
  <2>1. /\ row'[r] = [row[r] EXCEPT !.count = n + 1, !.msgs = msgs]
        /\ copy'[r] = [copy[r] EXCEPT !.count = n + 1, !.msgs = msgs]
        /\ \A q \in Req \ {r} : row'[q] = row[q] /\ copy'[q] = copy[q]
    BY <1>a, <1>3 DEF Functions
  <2>2. row'[r].count = n + 1 /\ row'[r].trace = row[r].trace
    BY <1>1, <2>1 DEF IsRow
  <2>3. /\ copy'[r].count = n + 1 /\ copy'[r].trace = copy[r].trace /\ IsCopy(copy'[r])
    BY <1>1, <2>1 DEF IsCopy
  <2>4. row'[r].count \in -1 .. Retries(r) /\ copy'[r].count \in 0 .. Retries(r)
    BY <1>1, <1>3, <2>2, <2>3
  <2>5. p # "stored"
    BY <1>3
  <2> QED BY <1>2, <2>1, <2>2, <2>3, <2>4, <2>5, DetailVerdict
<1>4. CASE /\ p = "stored"
           /\ row' = [row EXCEPT ![r].status = 0, ![r].count = n, ![r].msgs = msgs]
           /\ copy' = [copy EXCEPT ![r] = None]
  <2>1. /\ row'[r] = [row[r] EXCEPT !.status = 0, !.count = n, !.msgs = msgs]
        /\ copy'[r] = None
        /\ \A q \in Req \ {r} : row'[q] = row[q] /\ copy'[q] = copy[q]
    BY <1>a, <1>4 DEF Functions
  <2>2. row'[r].count = n /\ row'[r].trace = row[r].trace
    BY <1>1, <2>1 DEF IsRow
  <2>3. row'[r].count \in -1 .. Retries(r) /\ p = "stored"
    BY <1>1, <1>4, <2>2
  <2> QED BY <1>2, <2>1, <2>2, <2>3, DetailVerdict
<1>5. CASE /\ p = "end" /\ copy' = copy
           /\ row' = [row EXCEPT ![r].status = 3, ![r].msgs = msgs]
  <2>1. /\ row'[r] = [row[r] EXCEPT !.status = 3, !.msgs = msgs]
        /\ \A q \in Req \ {r} : row'[q] = row[q]
    BY <1>a, <1>5 DEF Functions
  <2>2. row'[r].count = row[r].count /\ row'[r].trace = row[r].trace
    BY <1>1, <2>1 DEF IsRow
  <2>3. n = copy[r].count
    BY DEF n
  <2> QED BY <1>1, <1>2, <1>5, <2>1, <2>2, <2>3, DetailVerdict
<1> QED BY <1>2, <1>3, <1>4, <1>5

LEMMA DetailPreserved == TrueInv /\ RequestInv /\ [Next]_vars => RequestInv'
<1> SUFFICES ASSUME TrueInv, RequestInv, [Next]_vars PROVE RequestInv'
  OBVIOUS
<1>1. ASSUME UNCHANGED <<input, pc, answer, task, result, seen>> PROVE RequestInv'
  <2>1. \A q \in Req : Detail(q)'
    BY <1>1, DetailFrame DEF RequestInv, task
  <2> QED BY <1>1, <2>1 DEF RequestInv, Tables
<1> QED BY <1>1, DetailBefore, DetailAttempt, DetailSuccess, DetailFailure
        DEF Next, Attempt, Close, Halt, vars, ghost

LEMMA SocketsInitially == Init => Sockets
<1> SUFFICES ASSUME Init PROVE Sockets
  OBVIOUS
<1>1. writing = {r \in Req : pc[r] = "putting"}
  BY DEF Init
<1> QED BY <1>1 DEF Init, Sockets

\* A step of an attempt that does not write the map of connections.
LEMMA SocketsFrame ==
  ASSUME ConnInv, Sockets, NEW r \in Req, NEW p \in States \ {"putting"},
         pc[r] # "putting", pc' = [pc EXCEPT ![r] = p],
         UNCHANGED <<input, clients, writing, closed, stopped>>, crashed' \in BOOLEAN,
         conn' = conn \/ conn' = [conn EXCEPT ![r] = None]
  PROVE  Sockets'
<1>1. \A q \in Req : (pc'[q] = "putting") <=> (pc[q] = "putting")
  BY DEF ConnInv, Shape
<1>2. writing' = {q \in Req : pc'[q] = "putting"}
  BY <1>1 DEF Sockets
<1>3. Urls' = Urls
  BY DEF Urls
<1>4. \A q \in Req : conn'[q] = None \/ conn'[q] \in Urls' \X Nat
  BY <1>3 DEF Sockets, ConnInv, Shape
<1>5. /\ \A u \in Urls' : clients'[u] = None \/ clients'[u] \in Urls' \X Nat
      /\ closed' \subseteq Urls' \X Nat
      /\ stopped' \in {"running", "closed", "halted"} /\ crashed' \in BOOLEAN
  BY <1>3 DEF Sockets
<1> QED BY <1>2, <1>4, <1>5 DEF Sockets

LEMMA SocketsLook ==
  ASSUME ConnInv, Sockets, NEW r \in Req, Look(r)
  PROVE  Sockets'
<1> DEFINE u == input[r].url
<1>1. /\ pc[r] = "look" /\ u \in Urls /\ Urls' = Urls
      /\ UNCHANGED <<clients, writing, closed, stopped>>
  BY Finite DEF Look, At, Urls
<1>2. crashed' \in BOOLEAN
  BY DEF Look, MayRace, Races, Sockets
<1>3. PICK p \in {"ask", "put"}, c \in Urls \X Nat :
        pc' = [pc EXCEPT ![r] = p] /\ conn' = [conn EXCEPT ![r] = c]
  <2>1. CASE clients[u] # None
    BY <1>1, <2>1 DEF Look, Go, Sockets
  <2>2. CASE clients[u] = None
    <3>1. /\ pc' = [pc EXCEPT ![r] = "put"] /\ dialled' = [dialled EXCEPT ![u] = @ + 1]
          /\ conn' = [conn EXCEPT ![r] = <<u, dialled'[u]>>]
      BY <2>2 DEF Look, Go
    <3>2. dialled'[u] \in Nat
      BY <1>1, <3>1 DEF ConnInv, Shape
    <3>3. <<u, dialled'[u]>> \in Urls \X Nat
      BY <1>1, <3>2
    <3> HIDE DEF u
    <3> QED BY <3>1, <3>3
  <2> QED BY <2>1, <2>2
<1>4. writing' = {q \in Req : pc'[q] = "putting"}
  <2>1. \A q \in Req : (pc'[q] = "putting") <=> (pc[q] = "putting")
    BY <1>1, <1>3 DEF ConnInv, Shape
  <2> QED BY <1>1, <2>1 DEF Sockets
<1>5. \A q \in Req : conn'[q] = None \/ conn'[q] \in Urls \X Nat
  BY <1>3 DEF Sockets, ConnInv, Shape
<1> QED BY <1>1, <1>2, <1>4, <1>5 DEF Sockets

\* The two halves of the write of the map.
LEMMA SocketsPut ==
  ASSUME ConnInv, Sockets, NEW r \in Req, PutBegin(r) \/ PutEnd(r)
  PROVE  Sockets'
<1>1. Urls' = Urls /\ UNCHANGED <<conn, closed, stopped>> /\ input[r].url \in Urls
  BY Finite DEF PutBegin, PutEnd, Urls
<1>2. crashed' \in BOOLEAN
  BY DEF PutBegin, PutEnd, MayRace, Races, Sockets
<1>3. writing' = {q \in Req : pc'[q] = "putting"}
  <2>1. CASE PutBegin(r)
    <3>1. pc' = [pc EXCEPT ![r] = "putting"] /\ writing' = writing \cup {r}
      BY <2>1 DEF PutBegin, Go
    <3>2. \A q \in Req : (pc'[q] = "putting") <=> (q = r \/ pc[q] = "putting")
      BY <3>1 DEF ConnInv, Shape
    <3> QED BY <3>1, <3>2 DEF Sockets
  <2>2. CASE PutEnd(r)
    <3>1. pc' = [pc EXCEPT ![r] = "ask"] /\ writing' = writing \ {r}
      BY <2>2 DEF PutEnd, Go
    <3>2. \A q \in Req : (pc'[q] = "putting") <=> (q # r /\ pc[q] = "putting")
      BY <3>1 DEF ConnInv, Shape
    <3> QED BY <3>1, <3>2 DEF Sockets
  <2> QED BY <2>1, <2>2
<1>4. \A u \in Urls : clients'[u] = None \/ clients'[u] \in Urls \X Nat
  <2>1. clients' = clients \/ clients' = [clients EXCEPT ![input[r].url] = conn[r]]
    BY DEF PutBegin, PutEnd
  <2> QED BY <1>1, <2>1 DEF ConnInv, Shape, Sockets
<1> QED BY <1>1, <1>2, <1>3, <1>4 DEF Sockets

LEMMA SocketsPreserved == ConnInv /\ Sockets /\ [Next]_vars => Sockets'
<1> SUFFICES ASSUME ConnInv, Sockets, [Next]_vars PROVE Sockets'
  OBVIOUS
<1> USE DEF At, Go, States
<1>1. ASSUME NEW r \in Req,
             Reject(r) \/ Register(r) \/ Cron(r) \/ Execute(r) \/ DialFails(r) \/ Ask(r)
               \/ Expires(r) \/ Answered(r) \/ BrokenOff(r) \/ Success(r) \/ Failure(r)
      PROVE  Sockets'
  <2>1. PICK p \in States \ {"putting"} : pc' = [pc EXCEPT ![r] = p]
    BY <1>1 DEF Reject, Register, Cron, Execute, DialFails, Ask, Expires, Answered,
                BrokenOff, Success, Failure, Returns, Armed
  <2>2. pc[r] # "putting"
    BY <1>1 DEF Reject, Register, Cron, Execute, DialFails, Ask, Expires, Answered,
                BrokenOff, Success, Failure
  <2>3. conn' = conn \/ conn' = [conn EXCEPT ![r] = None]
    BY <1>1 DEF Reject, Register, Cron, Execute, DialFails, Ask, Expires, Answered,
                BrokenOff, Success, Failure, Done
  <2>4. UNCHANGED <<input, clients, writing, closed, stopped>> /\ crashed' \in BOOLEAN
    BY <1>1 DEF Sockets, MayRace, Races, Reject, Register, Cron, Execute, DialFails, Ask, Expires, Answered,
                BrokenOff, Success, Failure, cache
  <2> QED BY <2>1, <2>2, <2>3, <2>4, SocketsFrame
<1>2. ASSUME Close PROVE Sockets'
  <2>1. /\ closed' = {clients[u] : u \in Urls} \ {None} /\ stopped' = "closed"
        /\ crashed' \in BOOLEAN /\ Urls' = Urls /\ UNCHANGED <<pc, conn, clients, writing>>
    BY <1>2 DEF Close, cache, Urls
  <2>2. closed' \subseteq Urls \X Nat
    BY <2>1 DEF Sockets
  <2> QED BY <2>1, <2>2 DEF Sockets
<1>3. ASSUME UNCHANGED vars PROVE Sockets'
  <2>1. UNCHANGED <<input, pc, conn, clients, writing, closed, stopped, crashed>> /\ Urls' = Urls
    BY <1>3 DEF vars, cache, Urls
  <2> QED BY <2>1 DEF Sockets
<1>4. ASSUME Halt PROVE Sockets'
  <2>1. /\ UNCHANGED <<input, pc, conn, clients, writing, closed, crashed>> /\ Urls' = Urls
        /\ stopped' = "halted"
    BY <1>4 DEF Halt, cache, Urls
  <2> QED BY <2>1 DEF Sockets
<1> QED BY <1>1, <1>2, <1>3, <1>4, SocketsLook, SocketsPut DEF Next, Attempt

-------------------------------------------------------------------------------
(* The rules of the validator are the documented ones.                       *)

Names == {"Schema", "Url", "Path", "DelayTime", "Timeout", "Backoff"}
Told(f) == <<f, <<Snake[f], "custom">>>>

LEMMA FieldNames ==
  /\ DOMAIN FieldOrder = 1 .. 6
  /\ \A i \in 1 .. 6 : FieldOrder[i] \in Names
  /\ \A f \in Names : \E i \in 1 .. 6 : FieldOrder[i] = f
<1>1. DOMAIN FieldOrder = 1 .. 6
  BY DEF FieldOrder
<1>2. /\ FieldOrder[1] = "Schema" /\ FieldOrder[2] = "Url" /\ FieldOrder[3] = "Path"
      /\ FieldOrder[4] = "DelayTime" /\ FieldOrder[5] = "Timeout"
      /\ FieldOrder[6] = "Backoff"
  BY DEF FieldOrder
<1>3. \A i \in 1 .. 6 : i = 1 \/ i = 2 \/ i = 3 \/ i = 4 \/ i = 5 \/ i = 6
  OBVIOUS
<1>4. \A i \in 1 .. 6 : FieldOrder[i] \in Names
  BY <1>2, <1>3 DEF Names
<1>5. \A f \in Names : \E i \in 1 .. 6 : FieldOrder[i] = f
  BY <1>2 DEF Names
<1> QED BY <1>1, <1>4, <1>5

\* A field breaks a rule of the code exactly when it breaks the documented one,
\* and every field has a message of its own.
LEMMA RulesAgree ==
  ASSUME Functions, NEW r \in Req, NEW f \in Names
  PROVE  /\ Broken(input[r])[f] <=> ~Documented(input[r])[f]
         /\ Message(f) = <<Snake[f], "custom">>
<1> DEFINE req == input[r]
           b1 == req.schema \notin SchemaInLookup
           b2 == Runes[req.url] < 1 \/ Runes[req.url] > 255
           b3 == Runes[req.path] < 1 \/ Runes[req.path] > 255
           b4 == req.delay < 0 \/ req.delay > 86400
           b5 == req.timeout < 0 \/ req.timeout > 3600
           b6 == Len(req.backoff) > 20
           d1 == req.schema \in {"FMT", "HTTP", "HTTPS", "GRPC"}
           d2 == 1 <= Runes[req.url] /\ Runes[req.url] <= 255
           d3 == 1 <= Runes[req.path] /\ Runes[req.path] <= 255
           d4 == 0 <= req.delay /\ req.delay <= 86400
           d5 == 0 <= req.timeout /\ req.timeout <= 3600
           d6 == Len(req.backoff) <= 20
<1>1. /\ Runes[req.url] \in Nat /\ Runes[req.path] \in Nat
      /\ req.delay \in Int /\ req.timeout \in Int /\ Len(req.backoff) \in Nat
  BY CallbacksAssumption, Fields DEF Functions, Retries
<1>2. b1 <=> ~d1
  BY DEF SchemaInLookup
<1>3. b2 <=> ~d2
  BY <1>1
<1>4. b3 <=> ~d3
  BY <1>1
<1>5. b4 <=> ~d4
  BY <1>1
<1>6. b5 <=> ~d5
  BY <1>1
<1>7. b6 <=> ~d6
  BY <1>1
<1>8. Broken(req) = [Schema |-> b1, Url |-> b2, Path |-> b3,
              DelayTime |-> b4, Timeout |-> b5, Backoff |-> b6]
  BY DEF Broken
<1>9. Documented(req) = [Schema |-> d1, Url |-> d2, Path |-> d3,
              DelayTime |-> d4, Timeout |-> d5, Backoff |-> d6]
  BY DEF Documented
<1> HIDE DEF b1, b2, b3, b4, b5, b6, d1, d2, d3, d4, d5, d6, req
<1>10. Broken(req)[f] <=> ~Documented(req)[f]
  <2>1. CASE f = "Schema"
    BY <2>1, <1>2, <1>8, <1>9
  <2>2. CASE f = "Url"
    BY <2>2, <1>3, <1>8, <1>9
  <2>3. CASE f = "Path"
    BY <2>3, <1>4, <1>8, <1>9
  <2>4. CASE f = "DelayTime"
    BY <2>4, <1>5, <1>8, <1>9
  <2>5. CASE f = "Timeout"
    BY <2>5, <1>6, <1>8, <1>9
  <2>6. CASE f = "Backoff"
    BY <2>6, <1>7, <1>8, <1>9
  <2> QED BY <2>1, <2>2, <2>3, <2>4, <2>5, <2>6 DEF Names
<1>11. Message(f) = <<Snake[f], "custom">>
  BY DEF Message, Snake, CustomError, Names
<1> QED BY <1>10, <1>11 DEF req

\* The verdict has the message of every field that breaks its rule, no other.
LEMMA VerdictIs ==
  ASSUME Functions, NEW r \in Req
  PROVE  /\ Verdict(input[r]) = {Told(f) : f \in {g \in Names : ~Documented(input[r])[g]}}
         /\ Verdict(input[r]) = {} => \A f \in Names : Documented(input[r])[f]
<1> DEFINE req    == input[r]
           errors == {i \in DOMAIN FieldOrder : Broken(req)[FieldOrder[i]]}
           wrong  == {g \in Names : ~Documented(req)[g]}
<1>1. Verdict(req) = {<<FieldOrder[i], Message(FieldOrder[i])>> : i \in errors}
  BY DEF Verdict, Validate
<1>2. \A i \in errors : /\ FieldOrder[i] \in wrong
                        /\ <<FieldOrder[i], Message(FieldOrder[i])>> = Told(FieldOrder[i])
  BY FieldNames, RulesAgree DEF Told
<1>3. \A f \in wrong : \E i \in errors : FieldOrder[i] = f
  BY FieldNames, RulesAgree
<1> HIDE DEF errors, wrong
<1>4. Verdict(req) = {Told(f) : f \in wrong}
  BY <1>1, <1>2, <1>3
<1>5. ASSUME Verdict(req) = {}, NEW f \in Names PROVE Documented(req)[f]
  BY <1>4, <1>5 DEF wrong
<1> QED BY <1>4, <1>5 DEF wrong

-------------------------------------------------------------------------------
AllInv == ConnInv /\ TrueInv /\ RequestInv /\ Sockets

LEMMA AllInvariant == Spec => []AllInv
<1>1. Init => AllInv
  BY ConnInitially, TrueInitially, DetailInitially, SocketsInitially DEF AllInv
<1>2. AllInv /\ [Next]_vars => AllInv'
  BY ConnPreserved, TruePreserved, DetailPreserved, SocketsPreserved DEF AllInv
<1> QED BY <1>1, <1>2, PTL DEF Spec

\* A task has a row, a copy and a result exactly in the states that use them,
\* its counts stay within its retries, the map is being written by exactly the
\* attempts in the middle of that, and only connections that were dialled are
\* ever closed.
THEOREM TypeCorrect == Spec => []TypeOK
<1>1. AllInv => TypeOK
  <2> SUFFICES ASSUME AllInv PROVE TypeOK
    OBVIOUS
  <2>1. Functions /\ Sockets
    BY DEF AllInv, TrueInv
  <2>2. \A x, y, z, w : /\ [status |-> x, count |-> y, msgs |-> z, trace |-> w] # None
                        /\ [count |-> y, msgs |-> z, trace |-> w] # None
                        /\ <<x, y>> # None
    BY DEF None
  <2>3. ASSUME NEW r \in Req
        PROVE  /\ row[r] = None <=> pc[r] \in {"new", "rejected"}
               /\ copy[r] = None <=> pc[r] \in {"new", "rejected", "stored"}
               /\ result[r] = None <=> pc[r] # "judge"
               /\ row[r] # None => row[r].status \in 0 .. 3 /\ row[r].count \in -1 .. 20
               /\ copy[r] # None => copy[r].count \in 0 .. Len(input[r].backoff)
    <3>1. Known(r) /\ Neat(r) /\ Taken(r) /\ pc[r] \in States /\ Retries(r) \in Nat
      BY Fields DEF AllInv, TrueInv, RequestInv, Detail, Functions
    <3>2. row[r] = None <=> pc[r] \in {"new", "rejected"}
      BY <2>2, <3>1 DEF Known, IsRow
    <3>3. copy[r] = None <=> pc[r] \in {"new", "rejected", "stored"}
      BY <2>2, <3>1 DEF Neat, IsCopy, NotLoaded, Outside
    <3>4. result[r] = None <=> pc[r] # "judge"
      BY <2>2, <3>1 DEF Known, Neat
    <3>5. ASSUME row[r] # None PROVE row[r].status \in 0 .. 3 /\ row[r].count \in -1 .. 20
      <4>1. pc[r] \notin Outside
        BY <3>2, <3>5 DEF Outside
      <4>2. Retries(r) <= 20
        <5>1. Documented(input[r])["Backoff"]
          BY <2>1, <3>1, <4>1, VerdictIs DEF Taken, Names
        <5>2. Documented(input[r]).Backoff = (Len(input[r].backoff) <= 20)
          BY DEF Documented
        <5> QED BY <5>1, <5>2 DEF Retries
      <4>3. row[r].count \in -1 .. 20
        BY <3>1, <4>1, <4>2 DEF Neat
      <4>4. row[r].status \in 0 .. 3
        BY <3>1, <4>1 DEF Known, Outside, States, InFlight
      <4> QED BY <4>3, <4>4
    <3>6. copy[r] # None => copy[r].count \in 0 .. Len(input[r].backoff)
      BY <3>1, <3>3 DEF Neat, Retries, NotLoaded, Outside
    <3> QED BY <3>2, <3>3, <3>4, <3>5, <3>6
  <2> QED BY <2>1, <2>3 DEF TypeOK, Functions, States, Sockets
<1> QED BY <1>1, AllInvariant, PTL

\* A task is a request within the documented rules; a refused one was told each
\* of its broken rules and no other; and a receiver only ever sees a trace that
\* ends with the id of the client, on whatever path the task came to its attempt.
THEOREM IntakeIsFaithfulHolds == Spec => []IntakeIsFaithful
<1>1. AllInv => IntakeIsFaithful
  <2> SUFFICES ASSUME AllInv, NEW r \in Req
               PROVE  /\ row[r] # None => /\ Decodes(input[r])
                                          /\ \A f \in DOMAIN Documented(input[r]) :
                                               Documented(input[r])[f]
                      /\ pc[r] = "rejected" /\ Decodes(input[r]) =>
                           answer[r][2] = {<<f, <<Snake[f], "custom">>>> :
                              f \in {g \in DOMAIN Snake : ~Documented(input[r])[g]}}
                      /\ \A trace \in seen[r] :
                           trace[Len(trace)] =
                             IF input[r].via = "grpc" /\ input[r].trace # NoTrace
                               THEN input[r].trace[1] ELSE "generated"
    BY DEF IntakeIsFaithful
  <2>1. Functions /\ Known(r) /\ Taken(r) /\ Traced(r)
    BY DEF AllInv, TrueInv, RequestInv, Detail
  <2>2. DOMAIN Snake = Names /\ DOMAIN Documented(input[r]) = Names
    BY DEF Snake, Documented, Names
  <2>3. ASSUME row[r] # None
        PROVE  Decodes(input[r]) /\ \A f \in Names : Documented(input[r])[f]
    <3>1. pc[r] \notin Outside
      BY <2>1, <2>3 DEF Known, Outside
    <3> QED BY <2>1, <3>1, VerdictIs DEF Taken
  <2>4. ASSUME pc[r] = "rejected" /\ Decodes(input[r])
        PROVE  answer[r][2] = {Told(f) : f \in {g \in Names : ~Documented(input[r])[g]}}
    BY <2>1, <2>4, VerdictIs DEF Taken
  <2>5. \A trace \in seen[r] : trace[Len(trace)] = Trace(r)[1]
    BY <2>1, OneTrace DEF Traced
  <2> QED BY <2>1, <2>2, <2>3, <2>4, <2>5, OneTrace DEF Told
<1> QED BY <1>1, AllInvariant, PTL
=============================================================================
