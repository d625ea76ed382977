------------------------------- MODULE Callbacks -------------------------------
(***************************************************************************)
(* From a Register request to the verdict on its task: Intake, the row,      *)
(* Storage.Execute and the adapters (internal/service/storage/callback),     *)
(* whose goroutines share the gRPC adapter's map of clients.  The mutex of    *)
(* that map covers the lookup and Close, but not the write.                   *)
(*                                                                          *)
(* TaskStore models crashes, several processes and when a task runs; here one *)
(* process runs each task when it likes, no statement fails or lasts until    *)
(* its task is due, and what matters is what an attempt finds out and what is  *)
(* kept of it.                                                               *)
(*                                                                          *)
(* External: a receiver, which may answer anything, late or never, net/http's *)
(* client and grpc's connections, which end a request at its deadline, and    *)
(* the Go runtime, which may notice that a map is written while it is used.    *)
(***************************************************************************)
EXTENDS Intake, FiniteSets

CONSTANTS Req,    \* the requests of clients; each is at most one task
          Inputs  \* what the requests may be: functions from Req

\* The fields have the types of delay.proto, and a request has at most one trace
\* id: it is one header.
ASSUME CallbacksAssumption ==
  /\ IsFiniteSet(Req)
  /\ \A q \in Inputs, r \in Req :
       /\ q[r].backoff \in Seq(Int) /\ {q[r].delay, q[r].timeout} \subseteq Int
       /\ {Runes[q[r].url], Runes[q[r].path]} \subseteq Nat
       /\ q[r].trace = NoTrace \/ q[r].trace = <<q[r].trace[1]>>

VARIABLES input,   \* the request itself
          pc,      \* how far it is
          answer,  \* the reply to the client
          row,     \* its row, once it is stored
          copy,    \* the task in memory: fail count, messages, trace of its context
          conn,    \* the connection its attempt uses
          result,  \* <<reply, err>> of its attempt
          clients, \* GRPC.clients: the connection kept for a URL, or None
          dialled, \* how many connections were opened per URL
          writing, \* the attempts in the middle of writing the map
          closed,  \* the connections that Close has closed, once it ran
          stopped, \* how far Storage.Stop is: adapters closed, then the wheel halted
          crashed, \* the runtime has ended the process
          tried,   \* the results of the attempts of each task
          said,    \* the receiver answered SUCCESS, in full and in time
          seen     \* the traces that receivers have been sent

task == <<row, copy, tried>>
cache == <<clients, dialled, writing>>
ghost == <<said, seen>>
vars == <<input, pc, answer, task, conn, result, cache, closed, stopped, crashed, ghost>>

None == <<>>
Urls == {input[r].url : r \in Req}
At(r, from) == ~crashed /\ pc[r] = from
Go(r, to) == pc' = [pc EXCEPT ![r] = to]

Init ==
  /\ input \in Inputs
  /\ pc = [r \in Req |-> "new"] /\ answer = [r \in Req |-> None]
  /\ row = [r \in Req |-> None] /\ copy = [r \in Req |-> None]
  /\ conn = [r \in Req |-> None] /\ result = [r \in Req |-> None]
  /\ clients = [u \in Urls |-> None] /\ dialled = [u \in Urls |-> 0]
  /\ writing = {} /\ closed = {} /\ stopped = "running" /\ crashed = FALSE
  /\ tried = [r \in Req |-> <<>>] /\ said = [r \in Req |-> FALSE]
  /\ seen = [r \in Req |-> {}]

-------------------------------------------------------------------------------
(* The handler of Register.                                                  *)

\* Submit arms a timer only for a delay that is not 0.
Armed(delay) == IF delay # 0 THEN "armed" ELSE "parked"

\* The transport decodes, the validator rejects.
Reject(r) ==
  /\ At(r, "new")
  /\ ~Decodes(input[r]) \/ Verdict(input[r]) # {}
  /\ answer' = [answer EXCEPT ![r] =
                  <<"invalid", IF Decodes(input[r]) THEN Verdict(input[r]) ELSE {}>>]
  /\ Go(r, "rejected")
  /\ UNCHANGED <<input, task, conn, result, cache, closed, stopped, crashed, ghost>>

\* Register and Add: the row is inserted; on the fast path the task is then
\* submitted in a context of its own.
Register(r) ==
  /\ At(r, "new")
  /\ Decodes(input[r]) /\ Verdict(input[r]) = {}
  /\ LET trace == TraceOf(input[r], <<"generated">>)
         new   == NewRow(input[r], trace)
     IN /\ row' = [row EXCEPT ![r] = new]
        /\ IF FastPath(input[r])
             THEN /\ copy' = [copy EXCEPT ![r] =
                                [count |-> new.count, msgs |-> <<>>, trace |-> trace]]
                  /\ Go(r, Armed(input[r].delay))
             ELSE Go(r, "stored") /\ UNCHANGED copy
  /\ answer' = [answer EXCEPT ![r] = <<"accepted", {}>>]
  /\ UNCHANGED <<input, tried, conn, result, cache, closed, stopped, crashed, ghost>>

\* The wheel has stopped: no cron comes back and no timer fires.
Halted == stopped = "halted"

\* Mutant: the cron does not count the attempt.
CronUncounted(r) ==
  /\ At(r, "stored") /\ row[r].status = 0 /\ ~Halted
  /\ LET loaded == [count |-> row[r].count, msgs |-> row[r].msgs,
                    trace |-> Append2(<<"cron">>, row[r].trace)]
     IN /\ copy' = [copy EXCEPT ![r] = loaded]
        /\ row' = [row EXCEPT ![r].status = 1, ![r].count = loaded.count]
  /\ Go(r, "armed")
  /\ UNCHANGED <<input, answer, tried, conn, result, cache, closed, stopped, crashed, ghost>>

\* The pending cron: the row as it was stored, one more attempt, its trace
\* appended to that of the cron run; Submit stores the row and arms a timer.
Cron(r) ==
  /\ At(r, "stored") /\ row[r].status = 0 /\ ~Halted
  /\ LET loaded == [count |-> row[r].count + 1, msgs |-> row[r].msgs,
                    trace |-> Append2(<<"cron">>, row[r].trace)]
     IN /\ copy' = [copy EXCEPT ![r] = loaded]
        /\ row' = [row EXCEPT ![r].status = 1, ![r].count = loaded.count]
  /\ Go(r, "armed")
  /\ UNCHANGED <<input, answer, tried, conn, result, cache, closed, stopped, crashed, ghost>>

-------------------------------------------------------------------------------
(* Execute: the adapter for the schema, and its Request.                     *)

\* An attempt has a result: the reply, and whether there was an error.
Returns(r, reply, err) ==
  /\ result' = [result EXCEPT ![r] = <<reply, err>>] /\ Go(r, "judge")

\* The validator lets no schema through that has no adapter.
Execute(r) ==
  /\ At(r, "armed") /\ ~Halted
  /\ LET req == input[r]
     IN \/ /\ req.schema = "FMT"
           /\ Returns(r, FmtReply(req), FALSE)
           /\ said' = [said EXCEPT ![r] = @ \/ FmtReply(req) \in {"SUCCESS", "'SUCCESS'"}]
           /\ seen' = [seen EXCEPT ![r] = @ \cup {copy[r].trace}]
        \/ /\ req.schema \in {"HTTP", "HTTPS"}
           /\ IF UrlOf(req) = "complete" THEN Go(r, "ask") /\ UNCHANGED result
              ELSE Returns(r, "", TRUE)
           /\ UNCHANGED ghost
        \/ req.schema = "GRPC" /\ Go(r, "look") /\ UNCHANGED <<result, ghost>>
  /\ UNCHANGED <<input, answer, task, conn, cache, closed, stopped, crashed>>

\* The map is used while it is written: the runtime may notice.
Races(r) == crashed' = (crashed \/ \E q \in writing : q # r)
MayRace(r) == UNCHANGED crashed \/ Races(r)

\* getClient, under the mutex: a kept connection is used, or else one is dialled.
Look(r) ==
  /\ At(r, "look") /\ MayRace(r)
  /\ LET u == input[r].url
     IN IF clients[u] # None
          THEN /\ conn' = [conn EXCEPT ![r] = clients[u]] /\ Go(r, "ask")
               /\ UNCHANGED dialled
          ELSE /\ dialled' = [dialled EXCEPT ![u] = @ + 1]
               /\ conn' = [conn EXCEPT ![r] = <<u, dialled'[u]>>] /\ Go(r, "put")
  /\ UNCHANGED <<input, answer, task, result, clients, writing, closed, stopped, ghost>>

\* The URL is none that a connection can be made for.
DialFails(r) ==
  /\ At(r, "look") /\ MayRace(r)
  /\ clients[input[r].url] = None /\ Returns(r, "", TRUE)
  /\ UNCHANGED <<input, answer, task, conn, cache, closed, stopped, ghost>>

\* Mutant: the connection is not kept.
PutEndForgets(r) ==
  /\ At(r, "putting")
  /\ writing' = writing \ {r} /\ Go(r, "ask")
  /\ UNCHANGED <<input, answer, task, conn, result, clients, dialled, closed, stopped, crashed, ghost>>

\* The write of the map, outside the mutex; it has a beginning and an end.
PutBegin(r) ==
  /\ At(r, "put") /\ MayRace(r)
  /\ writing' = writing \cup {r} /\ Go(r, "putting")
  /\ UNCHANGED <<input, answer, task, conn, result, clients, dialled, closed, stopped, ghost>>

PutEnd(r) ==
  /\ At(r, "putting")
  /\ clients' = [clients EXCEPT ![input[r].url] = conn[r]]
  /\ writing' = writing \ {r} /\ Go(r, "ask")
  /\ UNCHANGED <<input, answer, task, conn, result, dialled, closed, stopped, crashed, ghost>>

\* The request leaves, unless its deadline is over (a timeout of 0, or a task
\* that runs late) or its connection is closed.
Ask(r) ==
  /\ At(r, "ask")
  /\ \/ Returns(r, "", TRUE) /\ UNCHANGED ghost
     \/ /\ conn[r] \notin closed \/ conn[r] = None
        /\ seen' = [seen EXCEPT ![r] = @ \cup {copy[r].trace}]
        /\ Go(r, "asked") /\ UNCHANGED <<result, said>>
  /\ UNCHANGED <<input, answer, task, conn, cache, closed, stopped, crashed>>

\* A receiver answers; its HTTP status is not looked at.
Reply == {"SUCCESS", "'SUCCESS'", "other"}
Answered(r) ==
  /\ At(r, "asked") /\ conn[r] \notin closed
  /\ \E reply \in Reply :
       /\ Returns(r, reply, FALSE)
       /\ said' = [said EXCEPT ![r] = @ \/ reply # "other"]
  /\ UNCHANGED <<input, answer, task, conn, cache, closed, stopped, crashed, seen>>

\* The body of an HTTP answer breaks off: the named error is overwritten by that
\* of the deferred Close, so the result is an empty reply without an error.
BrokenOff(r) ==
  /\ At(r, "asked") /\ input[r].schema # "GRPC"
  /\ Returns(r, "", FALSE)
  /\ UNCHANGED <<input, answer, task, conn, cache, closed, stopped, crashed, ghost>>

\* Mutant: the context has no deadline; the HTTP client has its 5 s.
ExpiresHttpOnly(r) ==
  /\ At(r, "asked") /\ input[r].schema # "GRPC" /\ Returns(r, "", TRUE)
  /\ UNCHANGED <<input, answer, task, conn, cache, closed, stopped, crashed, ghost>>

\* The deadline of the task, the 5 s of the HTTP client, or the network.
Expires(r) ==
  /\ At(r, "asked") /\ Returns(r, "", TRUE)
  /\ UNCHANGED <<input, answer, task, conn, cache, closed, stopped, crashed, ghost>>

-------------------------------------------------------------------------------
(* The verdict: Success, or Failure with its message appended.               *)

Done(r) == /\ result' = [result EXCEPT ![r] = None]
           /\ conn' = [conn EXCEPT ![r] = None]
           /\ tried' = [tried EXCEPT ![r] = Append(@, result[r])]

Success(r) ==
  /\ At(r, "judge") /\ IsSuccess(result[r][1], result[r][2])
  /\ row' = IF row[r].status = 1 THEN [row EXCEPT ![r].status = 2] ELSE row
  /\ Done(r) /\ Go(r, "end")
  /\ UNCHANGED <<input, answer, copy, cache, closed, stopped, crashed, ghost>>

\* Mutant: the row that waits for its retry does not get the messages.
FailureForgets(r) ==
  /\ At(r, "judge") /\ ~IsSuccess(result[r][1], result[r][2])
  /\ LET backoff == input[r].backoff
         msgs    == Append(copy[r].msgs, result[r])
         fails   == copy[r].count
     IN IF fails < Len(backoff)
        THEN IF backoff[fails + 1] <= FastPathTime
             THEN /\ row' = [row EXCEPT ![r].count = fails + 1, ![r].msgs = msgs]
                  /\ copy' = [copy EXCEPT ![r].count = fails + 1, ![r].msgs = msgs]
                  /\ Go(r, Armed(backoff[fails + 1]))
             ELSE /\ row' = [row EXCEPT ![r].status = 0, ![r].count = fails]
                  /\ copy' = [copy EXCEPT ![r] = None]
                  /\ Go(r, "stored")
        ELSE /\ row' = [row EXCEPT ![r].status = 3, ![r].msgs = msgs]
             /\ UNCHANGED copy /\ Go(r, "end")
  /\ Done(r)
  /\ UNCHANGED <<input, answer, cache, closed, stopped, crashed, ghost>>

\* A retry is armed at once when its delay allows, and else left to the cron.
Failure(r) ==
  /\ At(r, "judge") /\ ~IsSuccess(result[r][1], result[r][2])
  /\ LET backoff == input[r].backoff
         msgs    == Append(copy[r].msgs, result[r])
         fails   == copy[r].count
     IN IF fails < Len(backoff)
        THEN IF backoff[fails + 1] <= FastPathTime
             THEN /\ row' = [row EXCEPT ![r].count = fails + 1, ![r].msgs = msgs]
                  /\ copy' = [copy EXCEPT ![r].count = fails + 1, ![r].msgs = msgs]
                  /\ Go(r, Armed(backoff[fails + 1]))
             ELSE /\ row' = [row EXCEPT ![r].status = 0, ![r].count = fails,
                                        ![r].msgs = msgs]
                  /\ copy' = [copy EXCEPT ![r] = None]
                  /\ Go(r, "stored")
        ELSE /\ row' = [row EXCEPT ![r].status = 3, ![r].msgs = msgs]
             /\ UNCHANGED copy /\ Go(r, "end")
  /\ Done(r)
  /\ UNCHANGED <<input, answer, cache, closed, stopped, crashed, ghost>>

\* Storage.Stop closes the adapters before the wheel: attempts go on meanwhile.
Close ==
  /\ ~crashed /\ stopped = "running" /\ stopped' = "closed"
  /\ closed' = {clients[u] : u \in Urls} \ {None}
  /\ crashed' \in {FALSE, writing # {}}
  /\ UNCHANGED <<input, pc, answer, task, conn, result, cache, ghost>>

\* tw.Stop: the loop has left and the run of the cron is over; the attempts
\* under way, for which tw.Stop waits, go on, and handlers may still add tasks.
Halt ==
  /\ ~crashed /\ stopped = "closed" /\ stopped' = "halted"
  /\ UNCHANGED <<input, pc, answer, task, conn, result, cache, closed, crashed, ghost>>

-------------------------------------------------------------------------------
Attempt(r) ==
  \/ Execute(r) \/ Look(r) \/ DialFails(r) \/ PutBegin(r) \/ PutEnd(r) \/ Ask(r)
  \/ Expires(r) \/ Success(r) \/ Failure(r)

Next ==
  \/ \E r \in Req : \/ Reject(r) \/ Register(r) \/ Cron(r) \/ Attempt(r)
                    \/ Answered(r) \/ BrokenOff(r)
  \/ Close \/ Halt

\* Handlers and attempts go on, until the wheel has halted the cron comes back
\* and timers fire, and a request that nobody answers meets its deadline; no
\* receiver has to answer, and nobody has to stop the storage.
Fairness ==
  \A r \in Req : WF_vars(Reject(r) \/ Register(r)) /\ WF_vars(Cron(r)) /\ WF_vars(Attempt(r))

Spec == Init /\ [][Next]_vars
FairSpec == Spec /\ Fairness

-------------------------------------------------------------------------------
\* The states of an attempt, the shapes of row and copy, one live connection
\* per attempt.
TypeOK ==
  /\ pc \in [Req -> {"new", "rejected", "stored", "armed", "look", "put", "putting", "ask",
                     "asked", "judge", "end", "parked"}]
  /\ \A r \in Req :
       /\ row[r] = None <=> pc[r] \in {"new", "rejected"}
       /\ copy[r] = None <=> pc[r] \in {"new", "rejected", "stored"}
       /\ result[r] = None <=> pc[r] # "judge"
       /\ row[r] # None => row[r].status \in 0 .. 3 /\ row[r].count \in -1 .. 20
       /\ copy[r] # None => copy[r].count \in 0 .. Len(input[r].backoff)
  /\ writing = {r \in Req : pc[r] = "putting"}
  /\ stopped \in {"running", "closed", "halted"} /\ crashed \in BOOLEAN
  /\ closed \subseteq {conn[r] : r \in Req} \cup Urls \X Nat

\* The rules of delay.proto:21-29.
Documented(req) ==
  [Schema    |-> req.schema \in {"FMT", "HTTP", "HTTPS", "GRPC"},
   Url       |-> 1 <= Runes[req.url] /\ Runes[req.url] <= 255,
   Path      |-> 1 <= Runes[req.path] /\ Runes[req.path] <= 255,
   DelayTime |-> 0 <= req.delay /\ req.delay <= 86400,
   Timeout   |-> 0 <= req.timeout /\ req.timeout <= 3600,
   Backoff   |-> Len(req.backoff) <= 20]

\* Only a request within the documented rules becomes a task, any other is
\* refused with the message of every field that breaks its rule and of no other
\* (validate.go:92-146), and the trace id a task was registered under reaches
\* its receiver on every attempt, also after the cron has loaded it
\* (log.go:25-40, storage.go:146,313,388).
IntakeIsFaithful ==
  \A r \in Req :
    /\ row[r] # None => /\ Decodes(input[r])
                        /\ \A f \in DOMAIN Documented(input[r]) : Documented(input[r])[f]
    /\ pc[r] = "rejected" /\ Decodes(input[r]) =>
         answer[r][2] = {<<f, <<Snake[f], "custom">>>> :
                           f \in {g \in DOMAIN Snake : ~Documented(input[r])[g]}}
    /\ \A trace \in seen[r] :
         trace[Len(trace)] = IF input[r].via = "grpc" /\ input[r].trace # NoTrace
                               THEN input[r].trace[1] ELSE "generated"

\* A row says success only if the receiver answered SUCCESS in full and in time,
\* although errors of reading are overwritten (http.go:84-93); a row that says
\* failure has had all its attempts and keeps what each of them found out,
\* whichever of its retries went through the row (storage.go:393-454).
ResultIsTrue ==
  \A r \in Req : row[r] # None =>
    /\ row[r].status = 2 => said[r]
    /\ row[r].status = 3 => /\ row[r].msgs = tried[r]
                            /\ Len(tried[r]) = Len(input[r].backoff) + 1

\* However many attempts there are, a URL is dialled no more often than tasks
\* may first meet it at once: a connection is lost, unclosed, only when two
\* attempts find no connection before either has kept its own (grpc.go:35-48).
ConnectionsKept ==
  \A u \in Urls :
    dialled[u] <= Cardinality({r \in Req : input[r].schema = "GRPC" /\ input[r].url = u})

\* Every request is answered and every accepted task ends, though receivers may
\* never answer and connections be closed under an attempt, unless the runtime
\* ends the process, or the task waits for what this process does not do any
\* more: for a timer that a delay of 0 has not armed (storage.go:376, 483), or,
\* once Storage.Stop has stopped the wheel (storage.go:191), for a timer or the
\* cron; its row then is as it was when it last came to wait.  An attempt that
\* was under way is judged all the same.
Judged ==
  <>[](crashed \/ \A r \in Req :
         pc[r] \in {"rejected", "end", "parked"} \cup (IF Halted THEN {"stored", "armed"} ELSE {}))

=============================================================================
