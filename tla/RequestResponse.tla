-------------------------- MODULE RequestResponse ---------------------------
(***************************************************************************)
(* WifiCommand::requestResponse (wlan/hal/cpp_bindings.cpp): a request goes *)
(* out on cmd_sock and its answer is awaited there.  All threads of the    *)
(* process share the socket: besides the client's, the loop thread, when   *)
(* SetAlertHandler::handleEvent asks for the firmware dump.  Nothing locks *)
(* it, and no_seq_check accepts every answer.  MemoryDumpCommand           *)
(* (wlan/hal/wifi_logger.cpp) makes a second request from within the       *)
(* handleResponse of its first, before the first is acknowledged.          *)
(***************************************************************************)
EXTENDS Naturals, Sequences, FiniteSets

CONSTANTS Thread,       \* threads that make requests
          Dumper,       \* those that use MemoryDumpCommand
          MaxRequests,  \* bound: commands of each thread
          Faults        \* what may fail on this side

ASSUME RequestResponseAssumption ==
    /\ IsFiniteSet(Thread)
    /\ Dumper \subseteq Thread
    /\ MaxRequests \in Nat
    /\ Faults \subseteq {"cbAlloc", "create", "send", "put", "malloc"}

VARIABLES kind,      \* the command of each thread: "plain" or "dump"
          frames,    \* its calls of requestResponse that have not returned
          made,      \* its commands so far
          cmd_sock,  \* messages to be received, in order
          verdict,   \* what the driver made of the last request of each thread
          result,    \* what its outermost requestResponse returned
          mixed,     \* threads have swapped answers since all were idle
          mBuff,     \* MemoryDumpCommand::mBuff: "null", "live" or "freed"
          given      \* what on_firmware_memory_dump got

dumpVars == <<mBuff, given>>
vars == <<kind, frames, made, cmd_sock, verdict, result, mixed, mBuff, given>>

None == "none"

Init ==
    /\ kind = [t \in Thread |-> "plain"]
    /\ frames = [t \in Thread |-> 0]
    /\ made = [t \in Thread |-> 0]
    /\ cmd_sock = <<>>
    /\ verdict = [t \in Thread |-> None]
    /\ result = [t \in Thread |-> None]
    /\ mixed = [t \in Thread |-> FALSE]
    /\ mBuff = [t \in Thread |-> "null"]
    /\ given = [t \in Thread |-> None]

Msg(t, k) == [to |-> t, kind |-> k]

\* nl80211 handles a request within the send and queues what belongs to it:
\* an error, an acknowledgement, or a reply and the acknowledgement.
Answers(t, reply) == {<<Msg(t, "error")>>, <<Msg(t, "ack")>>,
                      <<Msg(t, reply), Msg(t, "ack")>>}

\* A message of kind k ends the wait.
Ends(k) == k \in {"ack", "error"}

\* Its outcome for the caller.
Outcome(k) == IF k = "error" THEN "refused" ELSE "ok"

\* A request of t is sent, one more wait begins.
Request(t, reply) ==
    \E a \in Answers(t, reply) :
        /\ cmd_sock' = cmd_sock \o a
        /\ verdict' = [verdict EXCEPT ![t] = Outcome(a[Len(a)].kind)]
        /\ frames' = [frames EXCEPT ![t] = @ + 1]

\* A new command of thread t.
NewCommand(t, k) ==
    /\ frames[t] = 0
    /\ made[t] < MaxRequests
    /\ k = "dump" => t \in Dumper
    /\ made' = [made EXCEPT ![t] = @ + 1]
    /\ kind' = [kind EXCEPT ![t] = k]
    /\ mixed' = [mixed EXCEPT ![t] =
                    \E u \in Thread : frames[u] > 0 /\ mixed[u]]
    /\ mBuff' = [mBuff EXCEPT ![t] = "null"]
    /\ given' = [given EXCEPT ![t] = None]

\* The request is sent; that of a MemoryDumpCommand triggers the dump and is
\* answered with its length.
Send(t, k) ==
    /\ NewCommand(t, k)
    /\ Request(t, IF k = "dump" THEN "len" ELSE "reply")
    /\ result' = [result EXCEPT ![t] = None]

\* The message cannot be created or sent: the error is returned.  Without
\* memory for the callbacks it is not sent either, but err is still 0.
SendFails(t, k) ==
    /\ NewCommand(t, k)
    /\ verdict' = [verdict EXCEPT ![t] = None]
    /\ \/ /\ Faults \cap {"create", "send"} # {}
          /\ result' = [result EXCEPT ![t] = "error"]
       \/ /\ "cbAlloc" \in Faults
          /\ result' = [result EXCEPT ![t] = "ok"]
    /\ UNCHANGED <<frames, cmd_sock>>

-----------------------------------------------------------------------------
(* The loop around nl_recvmsgs.  A call of it that fails is logged and made *)
(* again, err is still 1: it changes nothing here and is a stuttering step, *)
(* provided that the message it should have returned is still there.  That *)
(* the kernel loses no answer (ENOBUFS) is assumed; the loop has no timeout, *)
(* and a wait whose answer is lost goes on until it takes another one's.   *)

\* Thread t gets the next message on the socket, whoever asked for it.
Takes(t) ==
    /\ frames[t] > 0
    /\ cmd_sock # <<>>
    /\ LET o == Head(cmd_sock).to IN
       mixed' = IF o = t THEN mixed
                ELSE [mixed EXCEPT ![t] = TRUE, ![o] = TRUE]

\* Mutants of ReceiveEnd: a reply ends the wait like an acknowledgement; an
\* answer of another thread is thrown away.
ReceiveEndReply(t) ==
    /\ Takes(t)
    /\ cmd_sock' = Tail(cmd_sock)
    /\ frames' = [frames EXCEPT ![t] = @ - 1]
    /\ result' = IF frames[t] > 1 THEN result
                 ELSE [result EXCEPT ![t] = Outcome(Head(cmd_sock).kind)]
    /\ UNCHANGED <<kind, made, verdict, dumpVars>>

ReceiveEndOwn(t) ==
    /\ Takes(t)
    /\ Ends(Head(cmd_sock).kind)
    /\ cmd_sock' = Tail(cmd_sock)
    /\ IF Head(cmd_sock).to = t
       THEN /\ frames' = [frames EXCEPT ![t] = @ - 1]
            /\ result' = IF frames[t] > 1 THEN result
                         ELSE [result EXCEPT ![t] = Outcome(Head(cmd_sock).kind)]
       ELSE UNCHANGED <<frames, result>>
    /\ UNCHANGED <<kind, made, verdict, dumpVars>>

\* The innermost wait ends.  What an inner requestResponse returns is only
\* logged.
ReceiveEnd(t) ==
    /\ Takes(t)
    /\ Ends(Head(cmd_sock).kind)
    /\ cmd_sock' = Tail(cmd_sock)
    /\ frames' = [frames EXCEPT ![t] = @ - 1]
    /\ result' = IF frames[t] > 1 THEN result
                 ELSE [result EXCEPT ![t] = Outcome(Head(cmd_sock).kind)]
    /\ UNCHANGED <<kind, made, verdict, dumpVars>>

\* A reply goes to handleResponse of this thread's command and the wait goes
\* on.  A plain command saves what it knows.
ReceiveReply(t) ==
    /\ Takes(t)
    /\ ~Ends(Head(cmd_sock).kind)
    /\ kind[t] = "plain" \/ Head(cmd_sock).kind = "reply"
    /\ cmd_sock' = Tail(cmd_sock)
    /\ UNCHANGED <<kind, frames, made, verdict, result, dumpVars>>

\* MemoryDumpCommand::handleResponse with a length: a buffer and, from here,
\* the request for the dump.  Without memory, or when the request cannot be
\* built or sent, none is made; when it cannot be created the buffer is freed
\* and the pointer kept.
ReceiveLen(t) ==
    /\ Takes(t)
    /\ kind[t] = "dump"
    /\ Head(cmd_sock).kind = "len"
    /\ \/ /\ mBuff' = [mBuff EXCEPT ![t] = "live"]
          /\ \E a \in Answers(t, "data") :
                /\ cmd_sock' = Tail(cmd_sock) \o a
                /\ verdict' = [verdict EXCEPT ![t] = Outcome(a[Len(a)].kind)]
                /\ frames' = [frames EXCEPT ![t] = @ + 1]
       \/ /\ \/ "malloc" \in Faults /\ mBuff' = [mBuff EXCEPT ![t] = "null"]
             \/ "create" \in Faults /\ mBuff' = [mBuff EXCEPT ![t] = "freed"]
             \/ /\ Faults \cap {"put", "send", "cbAlloc"} # {}
                /\ mBuff' = [mBuff EXCEPT ![t] = "live"]
          /\ cmd_sock' = Tail(cmd_sock)
          /\ UNCHANGED <<verdict, frames>>
    /\ UNCHANGED <<kind, made, result, given>>

\* Mutant of ReceiveData: freed before the callback.
ReceiveDataFreed(t) ==
    /\ Takes(t)
    /\ kind[t] = "dump"
    /\ Head(cmd_sock).kind = "data"
    /\ cmd_sock' = Tail(cmd_sock)
    /\ given' = [given EXCEPT ![t] = IF mBuff[t] = "live" THEN "freed" ELSE "null"]
    /\ mBuff' = [mBuff EXCEPT ![t] = "null"]
    /\ UNCHANGED <<kind, frames, made, verdict, result>>

\* With data: on_firmware_memory_dump(mBuff, mBuffSize), then free.
ReceiveData(t) ==
    /\ Takes(t)
    /\ kind[t] = "dump"
    /\ Head(cmd_sock).kind = "data"
    /\ cmd_sock' = Tail(cmd_sock)
    /\ given' = [given EXCEPT ![t] = mBuff[t]]
    /\ mBuff' = [mBuff EXCEPT ![t] = "null"]
    /\ UNCHANGED <<kind, frames, made, verdict, result>>

Receive(t) ==
    ReceiveEnd(t) \/ ReceiveReply(t) \/ ReceiveLen(t) \/ ReceiveData(t)

Next ==
    \E t \in Thread :
        \/ \E k \in {"plain", "dump"} : Send(t, k) \/ SendFails(t, k)
        \/ Receive(t)

\* A thread that waits is scheduled; nobody has to make a request.
Spec == Init /\ [][Next]_vars
FairSpec == Spec /\ \A t \in Thread : WF_vars(Receive(t))

-----------------------------------------------------------------------------
(* Properties                                                              *)

\* The waits around nl_recvmsgs, the inner ones of a memory dump included, and
\* the messages on the socket that will end one.
Waits == UNION {{t} \X (1..frames[t]) : t \in Thread}
Endings == {i \in DOMAIN cmd_sock : Ends(cmd_sock[i].kind)}

\* There is one ending for each wait, even when threads take each other's:
\* nobody is left waiting.  When nobody waits the socket is empty: no later
\* request can meet an old answer.
AnswersBalance ==
    /\ Cardinality(Waits) = Cardinality(Endings)
    /\ (\A t \in Thread : frames[t] = 0) => cmd_sock = <<>>

\* Every request that was sent returns.
AllReturn == \A t \in Thread : frames[t] > 0 ~> frames[t] = 0

\* As long as no thread has taken another one's answer, requestResponse returns
\* what the driver made of the request.  For a memory dump this is the second
\* request although its inner call was ended by the answer to the first; and
\* on_firmware_memory_dump gets a live buffer, which is then freed.
OwnUnlessMixed ==
    \A t \in Thread :
        frames[t] = 0 /\ verdict[t] # None /\ ~mixed[t] =>
            /\ result[t] = verdict[t]
            /\ given[t] \in {None, "live"}
            /\ given[t] = "live" => mBuff[t] = "null"
=============================================================================
