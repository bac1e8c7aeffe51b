----------------------- MODULE LocationConsentProofs ------------------------
(***************************************************************************)
(* Proofs about LocationConsent, for any sessions, requests and packages:  *)
(* answers and cancellations keep to their request, the package is         *)
(* installed once, and nothing happens without consent.                    *)
(***************************************************************************)
EXTENDS LocationConsent, SequenceTheorems, TLAPS

(***************************************************************************)
(* The inductive invariant, in parts.                                      *)
(***************************************************************************)

Asks(s, i) == toHelper[s][i].kind = "Request"

Unasked(s) == \A i \in DOMAIN toHelper[s] : ~Asks(s, i)

\* The mutex of a session's socket is held by the request that waits.
LockInv ==
    /\ \A s \in Sessions : lock[s] # Absent => pc[lock[s]] = "waiting" /\ SessionOf[lock[s]] = s
    /\ \A r \in Requests : pc[r] = "waiting" => lock[SessionOf[r]] = r

\* The main loop joins a job for the Request it has read, and ends with the socket.
MainInv(s) ==
    /\ main[s] = "joining" => toHelper[s] # <<>> /\ Asks(s, 1)
    /\ main[s] \in {"exiting", "exited"} => closed[s] /\ toHelper[s] = <<>>

\* Where the exchange of the mutex's holder is while the socket is open: there is none,
\* its Request is queued, or its job runs until its answer is there.
ExchangeInv(s) ==
    ~closed[s] =>
        \/ lock[s] = Absent /\ Unasked(s) /\ ~Busy(s) /\ toWorker[s] = <<>>
        \/ /\ lock[s] # Absent /\ ~Busy(s) /\ toWorker[s] = <<>>
           /\ \E i \in DOMAIN toHelper[s] : Asks(s, i) /\ toHelper[s][i].req = lock[s]
        \/ /\ lock[s] # Absent /\ Unasked(s)
           /\ job[s] # Absent /\ job[s].req = lock[s]
           /\ Busy(s) <=> toWorker[s] = <<>>

\* One Request is queued at most, and a Cancel follows the Request it is for, or is for
\* the last job.
QueueInv(s) ==
    \A i \in DOMAIN toHelper[s] :
        /\ SessionOf[toHelper[s][i].req] = s
        /\ Asks(s, i) => \A j \in DOMAIN toHelper[s] : Asks(s, j) => i = j
        /\ ~Asks(s, i) =>
              /\ canceled[toHelper[s][i].req]
              /\ \/ \E j \in 1 .. i - 1 : Asks(s, j) /\ toHelper[s][j].req = toHelper[s][i].req
                 \/ /\ job[s] # Absent /\ job[s].req = toHelper[s][i].req
                    /\ \A j \in 1 .. i - 1 : ~Asks(s, j)

\* An answer is for the holder of the mutex, also after the socket was closed.
AnswersInv(s) ==
    /\ job[s] # Absent => SessionOf[job[s].req] = s
    /\ \A i \in DOMAIN toWorker[s] :
          /\ SessionOf[toWorker[s][i].req] = s
          /\ lock[s] \in {Absent, toWorker[s][i].req}

SessionInv(s) == MainInv(s) /\ ExchangeInv(s) /\ QueueInv(s) /\ AnswersInv(s)

SocketInv == LockInv /\ \A s \in Sessions : SessionInv(s)

\* The lock file is the session's while it looks again, and while it installs.
InstallInv ==
    \A s \in Sessions : At(s, "locked") \/ At(s, "transaction") => installLock = s

\* The user allowed the package of r in the session of r.
Granted(r) ==
    \E q \in consented : SessionOf[q] = SessionOf[r] /\ PackageOf[q] = PackageOf[r]

Permitted == {"allowed", "lock", "locked", "transaction", "installed", "enable", "final"}

\* What a consent was needed for has it.
ConsentInv ==
    /\ \A r \in Requests : pc[r] \in {"portal", "asking"} => Granted(r)
    /\ \A s \in Sessions : job[s] # Absent /\ job[s].at \in Permitted => job[s].req \in consented
    /\ \A s \in Sessions, p \in Packages : decisions[s][p] = "allow" =>
          \E q \in consented : SessionOf[q] = s /\ PackageOf[q] = p
    /\ \A s \in Sessions : At(s, "send") /\ job[s].ready => Granted(job[s].req)
    /\ \A s \in Sessions : \A i \in DOMAIN toWorker[s] :
          toWorker[s][i].ready => Granted(toWorker[s][i].req)

\* A running job has seen the host offer location if it does so now, and no job starts
\* while an answer waits to be read.
HostInv ==
    \A s \in Sessions :
        /\ Busy(s) /\ installed /\ enabled => wasOn[s]
        /\ toWorker[s] # <<>> => Unasked(s)

IInv ==
    /\ TypeOK /\ SocketInv
    /\ CancelHitsItsOwnRequest /\ NobodyIsAskedTwice
    /\ InstallInv /\ OneInstallation
    /\ ConsentInv /\ FixNeedsConsent
    /\ HostInv /\ ReadyMeansEnabled

-----------------------------------------------------------------------------
(***************************************************************************)
(* The job of a session.                                                   *)
(***************************************************************************)

Answers == [ready : BOOLEAN, req : Requests]

\* What the job leaves alone of its session.
besideJob == <<workerVars, lock, toHelper, closed, main>>

\* What a step of the job does, whichever it is: it moves on, or sends its answer and ends.
JobEffect(s) ==
    /\ Busy(s)
    /\ job' \in [Sessions -> Job \cup {Absent}]
    /\ job'[s] \in Job /\ job'[s].req = job[s].req /\ job'[s].canceled = job[s].canceled
    /\ toWorker' \in [Sessions -> Seq(Answers)]
    /\ \A t \in Sessions \ {s} : job'[t] = job[t] /\ toWorker'[t] = toWorker[t]
    /\ At(s, "send") <=> job'[s].at = "ended"
    /\ \/ toWorker'[s] = toWorker[s] /\ (job'[s].at # "ended" \/ closed[s])
       \/ /\ toWorker'[s] # <<>> /\ DOMAIN toWorker'[s] = {1} /\ Len(toWorker'[s]) = 1
          /\ toWorker'[s][1].req = job[s].req /\ toWorker'[s][1].ready = job[s].ready
          /\ job'[s].at = "ended" /\ ~closed[s]
    /\ UNCHANGED besideJob

\* What the main loop's cancellation does to the job.
LEMMA CancelFacts ==
    ASSUME TypeOK, NEW s \in Sessions,
           job' = [job EXCEPT ![s] = IF @ = Absent THEN @ ELSE [@ EXCEPT !.canceled = TRUE]]
    PROVE  /\ job' \in [Sessions -> Job \cup {Absent}]
           /\ \A t \in Sessions \ {s} : job'[t] = job[t]
           /\ job[s] = Absent => job'[s] = Absent
           /\ job[s] # Absent => /\ job'[s] # Absent /\ job'[s].req = job[s].req
                                 /\ job'[s].at = job[s].at /\ job'[s].ready = job[s].ready
<1>1. job \in [Sessions -> Job \cup {Absent}]
  BY DEF TypeOK
<1>2. CASE job[s] = Absent
  BY <1>1, <1>2
<1>3. CASE job[s] # Absent
  <2> DEFINE j == [job[s] EXCEPT !.canceled = TRUE]
  <2>1. job[s] \in Job
    BY <1>1, <1>3
  <2>2. j \in Job /\ j.req = job[s].req /\ j.at = job[s].at /\ j.ready = job[s].ready
    BY <2>1 DEF Job
  <2>3. job' = [job EXCEPT ![s] = j]
    BY <1>1, <1>3
  <2> HIDE DEF j
  <2>4. j # Absent
    BY <2>2, JobAssumption
  <2>5. QED
    BY <1>1, <1>3, <2>2, <2>3, <2>4
<1>4. QED
  BY <1>2, <1>3

\* A socket with one answer.
LEMMA OneAnswerFacts ==
    ASSUME NEW S, NEW a \in S
    PROVE  /\ <<a>> \in Seq(S) /\ <<a>> # <<>> /\ Len(<<a>>) = 1
           /\ DOMAIN <<a>> = {1} /\ <<a>>[1] = a
<1>1. <<a>> \in Seq(S) /\ Len(<<a>>) = 1 /\ <<a>>[1] = a
  OBVIOUS
<1>2. DOMAIN <<a>> = 1 .. 1
  OBVIOUS
<1>3. <<a>> # <<>>
  BY <1>1, EmptySeq
<1>4. QED
  BY <1>1, <1>2, <1>3

\* What a job's move does to the jobs.
LEMMA MoveFacts ==
    ASSUME TypeOK, NEW s \in Sessions, job[s] # Absent, NEW p \in Places, Move(s, p)
    PROVE  /\ job[s] \in Job
           /\ job' \in [Sessions -> Job \cup {Absent}]
           /\ job'[s] \in Job
           /\ job'[s] = [job[s] EXCEPT !.at = p]
           /\ job'[s].at = p
           /\ job'[s].req = job[s].req /\ job'[s].canceled = job[s].canceled
           /\ \A t \in Sessions \ {s} : job'[t] = job[t]
<1>1. job \in [Sessions -> Job \cup {Absent}] /\ job[s] \in Job
  BY DEF TypeOK
<1>2. job' = [job EXCEPT ![s] = [job[s] EXCEPT !.at = p]]
  BY DEF Move
<1>3. [job[s] EXCEPT !.at = p] \in Job
  BY <1>1 DEF Job
<1>4. job'[s] = [job[s] EXCEPT !.at = p]
  BY <1>1, <1>2
<1>5. /\ [job[s] EXCEPT !.at = p].at = p
      /\ [job[s] EXCEPT !.at = p].req = job[s].req
      /\ [job[s] EXCEPT !.at = p].canceled = job[s].canceled
  BY <1>1 DEF Job
<1>6. QED
  BY <1>1, <1>2, <1>3, <1>4, <1>5

\* prepare returns with its answer.
LEMMA ReplyFacts ==
    ASSUME TypeOK, NEW s \in Sessions, job[s] # Absent, NEW ready \in BOOLEAN, Reply(s, ready)
    PROVE  /\ job' \in [Sessions -> Job \cup {Absent}]
           /\ job'[s] \in Job /\ job'[s] # Absent
           /\ job'[s].at = "send" /\ job'[s].ready = ready
           /\ job'[s].req = job[s].req /\ job'[s].canceled = job[s].canceled
           /\ \A t \in Sessions \ {s} : job'[t] = job[t]
<1>1. job \in [Sessions -> Job \cup {Absent}] /\ job[s] \in Job
  BY DEF TypeOK
<1>2. PICK j : j = [job[s] EXCEPT !.at = "send", !.ready = ready]
  OBVIOUS
<1>3. /\ j \in Job /\ j.at = "send" /\ j.ready = ready
      /\ j.req = job[s].req /\ j.canceled = job[s].canceled
  BY <1>1, <1>2 DEF Job, Places
<1>4. job' = [job EXCEPT ![s] = j]
  BY <1>2 DEF Reply
<1>5. j # Absent
  BY <1>3, JobAssumption
<1>6. QED
  BY <1>1, <1>3, <1>4, <1>5

\* The first look at the host, and the second.
LEMMA LookFacts ==
    ASSUME TypeOK, NEW s \in Sessions, Look(s) \/ LookEnabled(s)
    PROVE  /\ job[s] # Absent
           /\ job' \in [Sessions -> Job \cup {Absent}]
           /\ job'[s] \in Job /\ job'[s] # Absent
           /\ job'[s].at = IF Look(s) THEN "looking" ELSE "dialog"
           /\ job'[s].req = job[s].req /\ job'[s].canceled = job[s].canceled
           /\ \A t \in Sessions \ {s} : job'[t] = job[t]
<1>1. job \in [Sessions -> Job \cup {Absent}] /\ job[s] \in Job /\ job[s] # Absent
  BY DEF TypeOK, Look, LookEnabled, At
<1>2. installed \in BOOLEAN /\ enabled \in BOOLEAN
  BY DEF TypeOK
<1>3. CASE Look(s)
  <2>1. PICK j : j = [job[s] EXCEPT !.at = "looking", !.missing = ~installed]
    OBVIOUS
  <2>2. /\ j \in Job /\ j.at = "looking"
        /\ j.req = job[s].req /\ j.canceled = job[s].canceled
    BY <1>1, <1>2, <2>1 DEF Job, Places
  <2>3. job' = [job EXCEPT ![s] = j] /\ j # Absent
    BY <1>3, <2>1, <2>2, JobAssumption DEF Look
  <2>4. QED
    BY <1>1, <1>3, <2>2, <2>3
<1>4. CASE ~Look(s)
  <2>1. PICK j : j = [job[s] EXCEPT !.at = "dialog", !.off = ~enabled]
    OBVIOUS
  <2>2. /\ j \in Job /\ j.at = "dialog"
        /\ j.req = job[s].req /\ j.canceled = job[s].canceled
    BY <1>1, <1>2, <2>1 DEF Job, Places
  <2>3. job' = [job EXCEPT ![s] = j] /\ j # Absent
    BY <1>4, <2>1, <2>2, JobAssumption DEF LookEnabled
  <2>4. QED
    BY <1>1, <1>4, <2>2, <2>3
<1>5. QED
  BY <1>3, <1>4

\* The answer goes into an empty socket, or is lost.
LEMMA SendReplyFacts ==
    ASSUME TypeOK, NEW s \in Sessions, ExchangeInv(s), SendReply(s)
    PROVE  JobEffect(s)
<1>1. job[s] # Absent /\ job[s] \in Job /\ At(s, "send") /\ Busy(s) /\ "ended" \in Places
  BY DEF SendReply, At, Busy, TypeOK, Places
<1>2. Move(s, "ended") /\ UNCHANGED besideJob
  BY DEF SendReply, besideJob
<1>3. /\ job' \in [Sessions -> Job \cup {Absent}] /\ job'[s] \in Job
      /\ job'[s].req = job[s].req /\ job'[s].canceled = job[s].canceled
      /\ \A t \in Sessions \ {s} : job'[t] = job[t]
      /\ job'[s].at = "ended"
  BY <1>1, <1>2, MoveFacts
<1>4. toWorker \in [Sessions -> Seq(Answers)] /\ (~closed[s] => toWorker[s] = <<>>)
  BY <1>1 DEF TypeOK, Answers, ExchangeInv
<1>5. PICK answer : answer = [ready |-> job[s].ready, req |-> job[s].req]
  OBVIOUS
<1>6. answer \in Answers /\ answer.req = job[s].req /\ answer.ready = job[s].ready
  BY <1>1, <1>5 DEF Answers, Job
<1>7. toWorker' = [toWorker EXCEPT ![s] =
                      IF closed[s] THEN toWorker[s] ELSE Append(toWorker[s], answer)]
  BY <1>5 DEF SendReply
<1>8. Append(<<>>, answer) = <<answer>> /\ <<answer>> \in Seq(Answers)
  BY <1>6
<1>9. /\ toWorker' \in [Sessions -> Seq(Answers)]
      /\ \A t \in Sessions \ {s} : toWorker'[t] = toWorker[t]
      /\ closed[s] => toWorker'[s] = toWorker[s]
      /\ ~closed[s] => toWorker'[s] = <<answer>>
  BY <1>4, <1>7, <1>8
<1>10. ~closed[s] => /\ toWorker'[s] # <<>> /\ DOMAIN toWorker'[s] = {1}
                     /\ Len(toWorker'[s]) = 1
                     /\ toWorker'[s][1].req = job[s].req
                     /\ toWorker'[s][1].ready = job[s].ready
  BY <1>6, <1>9, OneAnswerFacts
<1>11. QED
  BY <1>1, <1>2, <1>3, <1>9, <1>10 DEF JobEffect

Running == {"begin", "looking", "dialog", "allowed", "denied", "lock", "locked", "transaction",
            "installed", "enable", "final"}

\* Every step of a job is a move, or an answer.
LEMMA JobFacts ==
    ASSUME TypeOK, NEW s \in Sessions, ExchangeInv(s), JobStep(s)
    PROVE  JobEffect(s)
<1>1. ASSUME NEW p \in Running, At(s, p), UNCHANGED quietHelper,
             job' \in [Sessions -> Job \cup {Absent}], job'[s] \in Job,
             job'[s].at # "ended",
             job'[s].req = job[s].req, job'[s].canceled = job[s].canceled,
             \A t \in Sessions \ {s} : job'[t] = job[t]
      PROVE  JobEffect(s)
  <2>1. Busy(s) /\ ~At(s, "send")
    BY <1>1 DEF Running, At, Busy
  <2>2. toWorker \in [Sessions -> Seq(Answers)] /\ toWorker' = toWorker
    BY <1>1 DEF TypeOK, Answers, quietHelper, socketVars
  <2>3. UNCHANGED besideJob
    BY <1>1 DEF besideJob, quietHelper, socketVars
  <2>4. QED
    BY <1>1, <2>1, <2>2, <2>3 DEF JobEffect
<1>2. ASSUME NEW p \in Running, At(s, p), NEW q \in Running, Move(s, q), UNCHANGED quietHelper
      PROVE  JobEffect(s)
  <2>1. job[s] # Absent /\ q \in Places /\ q # "ended"
    BY <1>2 DEF At, Running, Places
  <2>2. QED
    BY <1>1, <1>2, <2>1, MoveFacts
<1>3. ASSUME NEW p \in Running, At(s, p), NEW ready \in BOOLEAN, Reply(s, ready),
             UNCHANGED quietHelper
      PROVE  JobEffect(s)
  <2>1. job[s] # Absent
    BY <1>3 DEF At
  <2>2. QED
    BY <1>1, <1>3, <2>1, ReplyFacts
<1>4. /\ "begin" \in Running /\ "looking" \in Running /\ "dialog" \in Running
      /\ "allowed" \in Running /\ "denied" \in Running /\ "lock" \in Running
      /\ "locked" \in Running /\ "transaction" \in Running /\ "installed" \in Running
      /\ "enable" \in Running /\ "final" \in Running
      /\ FALSE \in BOOLEAN
  BY DEF Running
<1>5. CASE Remembered(s)
  <2>1. (~job[s].canceled /\ Decision(s) = "allow" /\ installed /\ enabled) \in BOOLEAN
    OBVIOUS
  <2>2. QED
    BY <1>3, <1>4, <1>5, <2>1 DEF Remembered
<1>6. CASE Look(s) \/ LookEnabled(s)
  <2>1. UNCHANGED quietHelper /\ (At(s, "begin") \/ At(s, "looking"))
    BY <1>6 DEF Look, LookEnabled
  <2>2. job'[s].at # "ended"
    BY <1>6, LookFacts
  <2>3. QED
    BY <1>1, <1>4, <1>6, <2>1, <2>2, LookFacts
<1>7. CASE UserAnswers(s)
  BY <1>2, <1>4, <1>7 DEF UserAnswers
<1>8. CASE CloseDialog(s)
  BY <1>3, <1>4, <1>8 DEF CloseDialog
<1>9. CASE Denied(s)
  BY <1>3, <1>4, <1>9 DEF Denied
<1>10. CASE Allowed(s)
  BY <1>2, <1>3, <1>4, <1>10 DEF Allowed
<1>11. CASE TakeInstallLock(s)
  BY <1>2, <1>3, <1>4, <1>11 DEF TakeInstallLock
<1>12. CASE RecheckInstalled(s)
  BY <1>2, <1>3, <1>4, <1>12 DEF RecheckInstalled
<1>13. CASE Transact(s)
  BY <1>2, <1>3, <1>4, <1>13 DEF Transact
<1>14. CASE Installed(s)
  BY <1>2, <1>3, <1>4, <1>14 DEF Installed
<1>15. CASE Enable(s)
  BY <1>2, <1>3, <1>4, <1>15 DEF Enable
<1>16. CASE Finish(s)
  <2>1. (installed /\ enabled) \in BOOLEAN
    OBVIOUS
  <2>2. QED
    BY <1>3, <1>4, <1>16, <2>1 DEF Finish
<1>17. CASE SendReply(s)
  BY <1>17, SendReplyFacts
<1>18. QED
  BY <1>5, <1>6, <1>7, <1>8, <1>9, <1>10, <1>11, <1>12, <1>13, <1>14, <1>15, <1>16, <1>17
     DEF JobStep

-----------------------------------------------------------------------------
(***************************************************************************)
(* The queue to the helper.                                                *)
(***************************************************************************)

\* A message is written at the end.
LEMMA AppendFacts ==
    ASSUME NEW S, NEW q \in Seq(S), NEW m \in S
    PROVE  /\ Append(q, m) \in Seq(S) /\ Append(q, m) # <<>>
           /\ Len(q) \in Nat /\ DOMAIN q = 1 .. Len(q)
           /\ DOMAIN Append(q, m) = 1 .. Len(q) + 1
           /\ \A i \in 1 .. Len(q) : Append(q, m)[i] = q[i]
           /\ Append(q, m)[Len(q) + 1] = m
<1>1. /\ Append(q, m) \in Seq(S) /\ Len(Append(q, m)) = Len(q) + 1
      /\ Len(q) \in Nat /\ DOMAIN q = 1 .. Len(q)
      /\ DOMAIN Append(q, m) = 1 .. Len(q) + 1
      /\ \A i \in 1 .. Len(q) : Append(q, m)[i] = q[i]
      /\ Append(q, m)[Len(q) + 1] = m
  OBVIOUS
<1>2. Append(q, m) # <<>>
  BY <1>1, EmptySeq
<1>3. QED
  BY <1>1, <1>2

\* A message is read from the front.
LEMMA TailFacts ==
    ASSUME NEW S, NEW q \in Seq(S), q # <<>>
    PROVE  /\ Tail(q) \in Seq(S) /\ Head(q) = q[1] /\ q[1] \in S
           /\ Len(q) \in Nat /\ Len(q) # 0 /\ DOMAIN q = 1 .. Len(q)
           /\ Len(Tail(q)) = Len(q) - 1
           /\ DOMAIN Tail(q) = 1 .. Len(q) - 1
           /\ \A i \in 1 .. Len(q) - 1 : Tail(q)[i] = q[i + 1]
<1>1. Len(q) \in Nat /\ Len(q) # 0 /\ DOMAIN q = 1 .. Len(q)
  OBVIOUS
<1>2. Tail(q) \in Seq(S) /\ Len(Tail(q)) = Len(q) - 1 /\ Head(q) = q[1]
  BY <1>1
<1>3. QED
  BY <1>1, <1>2

\* What Send does.
LEMMA SendFacts ==
    ASSUME TypeOK, NEW s \in Sessions, NEW kind \in {"Request", "Cancel"},
           NEW r \in Requests, Send(s, kind, r)
    PROVE  /\ toHelper' \in [Sessions -> Seq(Message)]
           /\ \A t \in Sessions \ {s} : toHelper'[t] = toHelper[t]
           /\ toHelper'[s] # <<>>
           /\ Len(toHelper[s]) \in Nat /\ DOMAIN toHelper[s] = 1 .. Len(toHelper[s])
           /\ DOMAIN toHelper'[s] = 1 .. Len(toHelper[s]) + 1
           /\ \A i \in 1 .. Len(toHelper[s]) : toHelper'[s][i] = toHelper[s][i]
           /\ toHelper'[s][Len(toHelper[s]) + 1].kind = kind
           /\ toHelper'[s][Len(toHelper[s]) + 1].req = r
<1> DEFINE m == [kind |-> kind, req |-> r]
<1>1. m \in Message /\ m.kind = kind /\ m.req = r
  BY DEF Message
<1>2. toHelper \in [Sessions -> Seq(Message)]
  BY DEF TypeOK
<1>3. toHelper' = [toHelper EXCEPT ![s] = Append(toHelper[s], m)]
  BY DEF Send
<1> HIDE DEF m
<1>4. toHelper'[s] = Append(toHelper[s], m) /\ toHelper[s] \in Seq(Message)
  BY <1>2, <1>3
<1>5. /\ Append(toHelper[s], m) \in Seq(Message)
      /\ Append(toHelper[s], m) # <<>>
      /\ Len(toHelper[s]) \in Nat /\ DOMAIN toHelper[s] = 1 .. Len(toHelper[s])
      /\ DOMAIN Append(toHelper[s], m) = 1 .. Len(toHelper[s]) + 1
      /\ \A i \in 1 .. Len(toHelper[s]) : Append(toHelper[s], m)[i] = toHelper[s][i]
      /\ Append(toHelper[s], m)[Len(toHelper[s]) + 1] = m
  BY <1>1, <1>4, AppendFacts
<1>6. QED
  BY <1>1, <1>2, <1>3, <1>4, <1>5

\* What reading a message does.
LEMMA PopFacts ==
    ASSUME TypeOK, NEW s \in Sessions, toHelper[s] # <<>>,
           toHelper' = [toHelper EXCEPT ![s] = Tail(@)]
    PROVE  /\ toHelper' \in [Sessions -> Seq(Message)]
           /\ \A t \in Sessions \ {s} : toHelper'[t] = toHelper[t]
           /\ Head(toHelper[s]) = toHelper[s][1] /\ toHelper[s][1] \in Message
           /\ Len(toHelper[s]) \in Nat /\ Len(toHelper[s]) # 0
           /\ DOMAIN toHelper[s] = 1 .. Len(toHelper[s])
           /\ DOMAIN toHelper'[s] = 1 .. Len(toHelper[s]) - 1
           /\ \A i \in 1 .. Len(toHelper[s]) - 1 : toHelper'[s][i] = toHelper[s][i + 1]
<1>1. toHelper \in [Sessions -> Seq(Message)] /\ toHelper[s] \in Seq(Message)
  BY DEF TypeOK
<1>2. toHelper'[s] = Tail(toHelper[s])
  BY <1>1
<1>3. /\ Tail(toHelper[s]) \in Seq(Message)
      /\ Head(toHelper[s]) = toHelper[s][1] /\ toHelper[s][1] \in Message
      /\ Len(toHelper[s]) \in Nat /\ Len(toHelper[s]) # 0
      /\ DOMAIN toHelper[s] = 1 .. Len(toHelper[s])
      /\ DOMAIN Tail(toHelper[s]) = 1 .. Len(toHelper[s]) - 1
      /\ \A i \in 1 .. Len(toHelper[s]) - 1 : Tail(toHelper[s])[i] = toHelper[s][i + 1]
  BY <1>1, TailFacts
<1>4. QED
  BY <1>1, <1>2, <1>3

-----------------------------------------------------------------------------
(***************************************************************************)
(* Type correctness.                                                       *)
(***************************************************************************)
\* The initial state has the declared types.
LEMMA TypeInit == Init => TypeOK
<1> SUFFICES ASSUME Init PROVE TypeOK
  OBVIOUS
<1>1. <<>> \in Seq(Message) /\ <<>> \in Seq([ready : BOOLEAN, req : Requests]) /\ Len(<<>>) = 0
  OBVIOUS
<1>2. \A s \in Sessions : toWorker[s] = <<>>
  BY DEF Init
<1>3. \A s \in Sessions : Len(toWorker[s]) <= 1
  BY <1>1, <1>2
<1>4. QED
  BY <1>1, <1>3 DEF Init, TypeOK, Pcs

\* A request thread keeps the types.
LEMMA TypeRequest ==
    ASSUME TypeOK, NEW r \in Requests, RequestStep(r)
    PROVE  TypeOK'
<1>1. SessionOf[r] \in Sessions
  BY RequestAssumption
<1>2. ASSUME NEW p \in Pcs, Goto(r, p)
      PROVE  pc' \in [Requests -> Pcs]
  BY <1>2 DEF Goto, TypeOK
<1>3. {"none", "locking", "waiting", "portal", "asking", "answer", "told", "silent"} \subseteq Pcs
  BY DEF Pcs
<1> USE DEF elsewhere, socketVars, helperSide, helperVars, hostVars, histories
<1>4. CASE \/ Begin(r) \/ GiveUp(r) \/ PortalStart(r) \/ PortalUpdates(r) \/ PortalEnds(r)
           \/ Answer(r)
  <2>1. pc' \in [Requests -> Pcs]
    BY <1>2, <1>3, <1>4 DEF Begin, GiveUp, PortalStart, PortalUpdates, PortalEnds, Answer
  <2>2. fix' \in [Requests -> BOOLEAN]
    BY <1>4 DEF TypeOK, Begin, GiveUp, PortalStart, PortalUpdates, PortalEnds, Answer
  <2>3. UNCHANGED <<canceled, sentCancel, elsewhere>>
    BY <1>4 DEF Begin, GiveUp, PortalStart, PortalUpdates, PortalEnds, Answer
  <2>4. QED
    BY <2>1, <2>2, <2>3 DEF TypeOK
<1>5. CASE Cancel(r)
  BY <1>5 DEF Cancel, TypeOK
<1>6. CASE SendRequest(r)
  <2>1. pc' \in [Requests -> Pcs]
    BY <1>2, <1>3, <1>6 DEF SendRequest
  <2>2. lock' \in [Sessions -> Requests \cup {Absent}]
    BY ZenonT(60), <1>1, <1>6 DEF SendRequest, TypeOK
  <2>3. toHelper' \in [Sessions -> Seq(Message)]
    <3>1. CASE closed[SessionOf[r]]
      BY <1>6, <3>1 DEF SendRequest, TypeOK
    <3>2. CASE ~closed[SessionOf[r]]
      BY <1>1, <1>6, <3>2, SendFacts DEF SendRequest
    <3>3. QED
      BY <3>1, <3>2
  <2>4. QED
    BY <1>6, <2>1, <2>2, <2>3 DEF SendRequest, TypeOK
<1>7. CASE SendCancel(r)
  <2>1. toHelper' \in [Sessions -> Seq(Message)]
    BY <1>1, <1>7, SendFacts DEF SendCancel
  <2>2. sentCancel' \in [Requests -> BOOLEAN]
    BY <1>7 DEF SendCancel, TypeOK
  <2>3. QED
    BY <1>7, <2>1, <2>2 DEF SendCancel, TypeOK
<1>8. CASE ReadReply(r)
  <2> DEFINE s == SessionOf[r]
  <2>1. pc' \in [Requests -> Pcs]
    BY <1>2, <1>3, <1>8 DEF ReadReply
  <2>2. lock' \in [Sessions -> Requests \cup {Absent}]
    BY <1>1, <1>8 DEF ReadReply, TypeOK
  <2>3. toWorker \in [Sessions -> Seq(Answers)] /\ toWorker[s] # <<>>
    BY <1>8 DEF ReadReply, TypeOK, Answers
  <2>4. /\ Tail(toWorker[s]) \in Seq(Answers) /\ Len(toWorker[s]) \in Nat
        /\ Len(Tail(toWorker[s])) = Len(toWorker[s]) - 1
    BY <1>1, <2>3, TailFacts
  <2>5. toWorker' = [toWorker EXCEPT ![s] = Tail(toWorker[s])]
    BY <1>8 DEF ReadReply
  <2>6. toWorker' \in [Sessions -> Seq(Answers)]
    BY <2>3, <2>4, <2>5
  <2>7. \A t \in Sessions : Len(toWorker'[t]) <= 1
    <3>1. Len(toWorker'[s]) <= 1
      BY <1>1, <2>3, <2>4, <2>5 DEF TypeOK
    <3>2. \A t \in Sessions \ {s} : toWorker'[t] = toWorker[t]
      BY <2>3, <2>5
    <3>3. QED
      BY <3>1, <3>2 DEF TypeOK
  <2>8. QED
    BY <1>8, <2>1, <2>2, <2>6, <2>7 DEF ReadReply, TypeOK, Answers
<1>9. CASE Disconnected(r)
  <2>1. pc' \in [Requests -> Pcs]
    BY <1>2, <1>3, <1>9 DEF Disconnected
  <2>2. lock' \in [Sessions -> Requests \cup {Absent}]
    BY <1>1, <1>9 DEF Disconnected, TypeOK
  <2>3. QED
    BY <1>9, <2>1, <2>2 DEF Disconnected, TypeOK
<1>10. QED
  BY <1>4, <1>5, <1>6, <1>7, <1>8, <1>9 DEF RequestStep

\* A change of the host.
LEMMA HostBecomesFacts ==
    ASSUME TypeOK, NEW a \in BOOLEAN, NEW e \in BOOLEAN, HostBecomes(a, e)
    PROVE  /\ installed' = a /\ enabled' = e /\ wasOn' \in [Sessions -> BOOLEAN]
           /\ \A t \in Sessions : /\ wasOn[t] => wasOn'[t]
                                  /\ Busy(t) /\ a /\ e => wasOn'[t]
<1>1. \A t \in Sessions : (wasOn[t] \/ (Busy(t) /\ a /\ e)) \in BOOLEAN
  OBVIOUS
<1>2. wasOn' = [t \in Sessions |-> wasOn[t] \/ (Busy(t) /\ a /\ e)]
  BY DEF HostBecomes
<1> HIDE DEF Busy
<1>3. wasOn' \in [Sessions -> BOOLEAN]
  BY <1>1, <1>2
<1>4. \A t \in Sessions : (wasOn[t] => wasOn'[t]) /\ (Busy(t) /\ a /\ e => wasOn'[t])
  BY <1>2
<1>5. QED
  BY <1>3, <1>4 DEF HostBecomes

\* What a job's step may do to the decisions and to the host.
LEMMA HostFacts ==
    ASSUME TypeOK, NEW s \in Sessions, JobStep(s)
    PROVE  /\ decisions' \in [Sessions -> [Packages -> {"unknown", "allow", "deny"}]]
           /\ installed' \in BOOLEAN /\ enabled' \in BOOLEAN
           /\ installLock' \in Sessions \cup {Absent}
           /\ consented' \subseteq Requests /\ consented \subseteq consented'
           /\ wasOn' \in [Sessions -> BOOLEAN]
           /\ \A t \in Sessions \ {s} : decisions'[t] = decisions[t]
<1> DEFINE Decided == decisions' = decisions \/ \E d \in {"allow", "deny"} : Decide(s, d)
           Recorded == consented' = consented \/ (At(s, "dialog") /\ consented' = consented \cup {job[s].req})
<1>1. Decided /\ Recorded /\ installed' \in BOOLEAN /\ enabled' \in BOOLEAN
      /\ installLock' \in {installLock, Absent, s} /\ wasOn' \in [Sessions -> BOOLEAN]
  <2> USE DEF hostVars, histories
  <2>1. CASE Remembered(s) \/ Look(s) \/ LookEnabled(s) \/ CloseDialog(s) \/ Allowed(s)
             \/ Installed(s) \/ SendReply(s)
    BY <2>1 DEF Remembered, Look, LookEnabled, CloseDialog, Allowed, Installed, SendReply, TypeOK
  <2>2. CASE UserAnswers(s)
    BY <2>2 DEF UserAnswers, TypeOK
  <2>3. CASE Denied(s) \/ Finish(s)
    BY <2>3 DEF Denied, Finish, TypeOK
  <2>4. CASE TakeInstallLock(s) \/ RecheckInstalled(s)
    BY <2>4 DEF TakeInstallLock, RecheckInstalled, TypeOK
  <2>5. CASE Transact(s) \/ Enable(s)
    <3>1. ASSUME NEW a \in BOOLEAN, NEW e \in BOOLEAN, HostBecomes(a, e)
          PROVE  installed' \in BOOLEAN /\ enabled' \in BOOLEAN /\ wasOn' \in [Sessions -> BOOLEAN]
      BY <3>1, HostBecomesFacts
    <3>2. installed \in BOOLEAN /\ enabled \in BOOLEAN /\ TRUE \in BOOLEAN
          /\ wasOn \in [Sessions -> BOOLEAN]
      BY DEF TypeOK
    <3>3. installed' \in BOOLEAN /\ enabled' \in BOOLEAN /\ wasOn' \in [Sessions -> BOOLEAN]
      BY <2>5, <3>1, <3>2 DEF Transact, Enable
    <3>4. Decided /\ Recorded /\ installLock' \in {installLock, Absent, s}
      BY <2>5 DEF Transact, Enable
    <3>5. QED
      BY <3>3, <3>4
  <2>6. QED
    BY <2>1, <2>2, <2>3, <2>4, <2>5 DEF JobStep
<1>2. /\ decisions' \in [Sessions -> [Packages -> {"unknown", "allow", "deny"}]]
      /\ \A t \in Sessions \ {s} : decisions'[t] = decisions[t]
  <2>1. CASE decisions' = decisions
    BY <2>1 DEF TypeOK
  <2>2. ASSUME NEW d \in {"allow", "deny"}, Decide(s, d)
        PROVE  /\ decisions' \in [Sessions -> [Packages -> {"unknown", "allow", "deny"}]]
               /\ \A t \in Sessions \ {s} : decisions'[t] = decisions[t]
    BY <2>2 DEF Decide, TypeOK
  <2>3. QED
    BY <1>1, <2>1, <2>2
<1>3. At(s, "dialog") => job[s].req \in Requests
  BY DEF TypeOK, At, Job
<1>4. consented' \subseteq Requests /\ consented \subseteq consented'
  BY <1>1, <1>3 DEF TypeOK
<1>5. QED
  BY <1>1, <1>2, <1>4 DEF TypeOK

\* A job thread keeps the types.
LEMMA TypeJob ==
    ASSUME TypeOK, NEW s \in Sessions, ExchangeInv(s), JobStep(s)
    PROVE  TypeOK'
<1>1. JobEffect(s)
  BY JobFacts
<1>2. job' \in [Sessions -> Job \cup {Absent}] /\ toWorker' \in [Sessions -> Seq(Answers)]
  BY <1>1 DEF JobEffect
<1>3. ASSUME NEW t \in Sessions PROVE Len(toWorker'[t]) <= 1
  <2>1. Len(toWorker[t]) <= 1
    BY DEF TypeOK
  <2>2. CASE toWorker'[t] = toWorker[t]
    BY <2>1, <2>2
  <2>3. CASE toWorker'[t] # toWorker[t]
    <3>1. t = s /\ Len(toWorker'[s]) = 1
      BY <1>1, <2>3 DEF JobEffect
    <3>2. QED
      BY <3>1
  <2>4. QED
    BY <2>2, <2>3
<1>4. QED
  BY <1>1, <1>2, <1>3, HostFacts DEF JobEffect, TypeOK, Answers, besideJob, workerVars

\* The helper's main loop keeps the types.
LEMMA TypeHelper ==
    ASSUME TypeOK, NEW s \in Sessions, MainInv(s), HelperStep(s)
    PROVE  TypeOK'
<1> USE DEF workerVars, socketVars, hostVars, histories
<1>1. CASE ReadRequest(s) \/ HelperExits(s)
  BY <1>1 DEF ReadRequest, HelperExits, TypeOK
<1>3. CASE ReadCancel(s)
  <2>1. toHelper' \in [Sessions -> Seq(Message)]
    BY <1>3, PopFacts DEF ReadCancel
  <2>2. job' \in [Sessions -> Job \cup {Absent}]
    BY <1>3, CancelFacts DEF ReadCancel
  <2>3. QED
    BY <1>3, <2>1, <2>2 DEF ReadCancel, TypeOK
<1>4. CASE StartJob(s)
  <2>1. toHelper[s] # <<>>
    BY <1>4 DEF StartJob, MainInv
  <2>2. /\ toHelper' \in [Sessions -> Seq(Message)]
        /\ Head(toHelper[s]) \in Message
    BY <1>4, <2>1, PopFacts DEF StartJob
  <2>3. job' \in [Sessions -> Job \cup {Absent}]
    BY <1>4, <2>2 DEF StartJob, TypeOK, Job, Places, Message
  <2>4. wasOn' \in [Sessions -> BOOLEAN]
    BY <1>4 DEF StartJob, TypeOK
  <2>5. QED
    BY <1>4, <2>2, <2>3, <2>4 DEF StartJob, TypeOK
<1>5. CASE ReadEnd(s)
  BY <1>5, CancelFacts DEF ReadEnd, TypeOK
<1>6. QED
  BY <1>1, <1>3, <1>4, <1>5 DEF HelperStep

\* Every step keeps the types.
LEMMA TypeStep ==
    ASSUME TypeOK, SocketInv, [Next]_vars
    PROVE  TypeOK'
<1>1. CASE \E r \in Requests : RequestStep(r)
  BY <1>1, TypeRequest
<1>2. CASE \E s \in Sessions : JobStep(s)
  BY <1>2, TypeJob DEF SocketInv, SessionInv
<1>3. CASE \E s \in Sessions : HelperStep(s)
  BY <1>3, TypeHelper DEF SocketInv, SessionInv
<1>4. CASE \E s \in Sessions : Shutdown(s)
  BY <1>4 DEF Shutdown, TypeOK, workerVars, helperSide, helperVars, hostVars, histories
<1>5. CASE HostToggles
  <2>1. installed \in BOOLEAN /\ (~enabled) \in BOOLEAN
    BY DEF TypeOK
  <2>a. HostBecomes(installed, ~enabled)
    BY <1>5 DEF HostToggles
  <2>2. installed' \in BOOLEAN /\ enabled' \in BOOLEAN /\ wasOn' \in [Sessions -> BOOLEAN]
    BY ZenonT(30), <2>1, <2>a, HostBecomesFacts
  <2>3. QED
    BY <1>5, <2>2 DEF HostToggles, TypeOK, workerVars, socketVars, helperVars
<1>6. CASE UNCHANGED vars
  BY <1>6 DEF vars, TypeOK, workerVars, socketVars, helperVars, hostVars, histories
<1>7. QED
  BY <1>1, <1>2, <1>3, <1>4, <1>5, <1>6 DEF Next

-----------------------------------------------------------------------------
(***************************************************************************)
(* The socket: its mutex, its messages and its answers.                    *)
(***************************************************************************)
\* What a move of a request thread does.
LEMMA GotoFacts ==
    ASSUME TypeOK, NEW r \in Requests, NEW p, Goto(r, p)
    PROVE  pc'[r] = p /\ \A q \in Requests \ {r} : pc'[q] = pc[q]
BY DEF Goto, TypeOK

\* A thread that moves on with the mutex where it was: it neither waited nor waits.
LEMMA LockKept ==
    ASSUME TypeOK, LockInv, NEW r \in Requests, pc[r] # "waiting",
           NEW p, p # "waiting", Goto(r, p), UNCHANGED lock
    PROVE  LockInv'
<1>1. pc'[r] = p /\ \A q \in Requests \ {r} : pc'[q] = pc[q]
  BY GotoFacts
<1>2. \A s \in Sessions : lock[s] # Absent => lock[s] \in Requests \ {r}
  BY DEF LockInv, TypeOK
<1>3. QED
  BY <1>1, <1>2 DEF LockInv

\* The thread that waits gives the mutex back.
LEMMA LockGivenBack ==
    ASSUME TypeOK, LockInv, NEW r \in Requests, pc[r] = "waiting",
           NEW p, p # "waiting", Goto(r, p), lock' = [lock EXCEPT ![SessionOf[r]] = Absent]
    PROVE  LockInv'
<1>1. pc'[r] = p /\ \A q \in Requests \ {r} : pc'[q] = pc[q]
  BY GotoFacts
<1>2. SessionOf[r] \in Sessions /\ \A q \in Requests : SessionOf[q] \in Sessions
  BY RequestAssumption
<1>3. lock'[SessionOf[r]] = Absent /\ \A t \in Sessions \ {SessionOf[r]} : lock'[t] = lock[t]
  BY <1>2 DEF TypeOK
<1>4. \A q \in Requests \ {r} : pc[q] = "waiting" => SessionOf[q] # SessionOf[r]
  BY DEF LockInv
<1>5. \A s \in Sessions : lock'[s] # Absent => lock'[s] = lock[s] /\ lock[s] \in Requests \ {r}
  BY <1>3 DEF LockInv, TypeOK
<1>6. QED
  BY <1>1, <1>2, <1>3, <1>4, <1>5 DEF LockInv

\* Every step keeps the mutex of a socket with the request that waits.
LEMMA LockStep ==
    ASSUME TypeOK, SocketInv, [Next]_vars
    PROVE  LockInv'
<1> USE DEF elsewhere, socketVars
<1>1. LockInv
  BY DEF SocketInv
<1>2. ASSUME NEW r \in Requests, RequestStep(r)
      PROVE  LockInv'
  <2>1. CASE \/ Begin(r) \/ GiveUp(r) \/ PortalStart(r) \/ PortalUpdates(r) \/ PortalEnds(r)
             \/ Answer(r)
    <3>1. UNCHANGED lock /\ pc[r] # "waiting"
      BY <2>1 DEF Begin, GiveUp, PortalStart, PortalUpdates, PortalEnds, Answer
    <3>2. \E p \in {"locking", "answer", "asking", "silent", "told"} : Goto(r, p)
      BY <2>1 DEF Begin, GiveUp, PortalStart, PortalUpdates, PortalEnds, Answer
    <3>3. QED
      BY <1>1, <3>1, <3>2, LockKept
  <2>2. CASE Cancel(r) \/ SendCancel(r)
    BY <1>1, <2>2 DEF Cancel, SendCancel, LockInv
  <2>3. CASE SendRequest(r)
    <3>1. CASE closed[SessionOf[r]]
      BY <1>1, <2>3, <3>1, LockKept DEF SendRequest
    <3>2. CASE ~closed[SessionOf[r]]
      <4> DEFINE s == SessionOf[r]
      <4>1. s \in Sessions /\ r # Absent
        BY RequestAssumption
      <4>2. /\ pc'[r] = "waiting" /\ \A q \in Requests \ {r} : pc'[q] = pc[q]
            /\ pc[r] # "waiting" /\ lock[s] = Absent
        BY <2>3, <3>2, GotoFacts DEF SendRequest
      <4>3. lock'[s] = r /\ \A t \in Sessions \ {s} : lock'[t] = lock[t]
        BY <2>3, <3>2, <4>1 DEF SendRequest, TypeOK
      <4>4. \A q \in Requests : pc[q] = "waiting" => SessionOf[q] # s
        BY <1>1, <4>1, <4>2, RequestAssumption DEF LockInv
      <4>5. \A t \in Sessions : lock[t] # Absent => lock[t] \in Requests \ {r}
        BY <1>1, <4>2 DEF LockInv, TypeOK
      <4>6. \A q \in Requests : SessionOf[q] \in Sessions
        BY RequestAssumption
      <4>7. ASSUME NEW t \in Sessions, lock'[t] # Absent
            PROVE  pc'[lock'[t]] = "waiting" /\ SessionOf[lock'[t]] = t
        <5>1. CASE t = s
          BY <4>2, <4>3, <5>1
        <5>2. CASE t # s
          <6>1. lock'[t] = lock[t] /\ lock[t] \in Requests \ {r}
            BY <4>3, <4>5, <4>7, <5>2
          <6>2. QED
            BY <1>1, <4>2, <4>7, <6>1 DEF LockInv
        <5>3. QED
          BY <5>1, <5>2
      <4>8. ASSUME NEW q \in Requests, pc'[q] = "waiting"
            PROVE  lock'[SessionOf[q]] = q
        <5>1. CASE q = r
          BY <4>3, <5>1
        <5>2. CASE q # r
          <6>1. pc[q] = "waiting" /\ SessionOf[q] \in Sessions \ {s}
            BY <4>2, <4>4, <4>6, <4>8, <5>2
          <6>2. QED
            BY <1>1, <4>3, <6>1 DEF LockInv
        <5>3. QED
          BY <5>1, <5>2
      <4>9. QED
        BY <4>7, <4>8 DEF LockInv
    <3>3. QED
      BY <3>1, <3>2
  <2>4. CASE ReadReply(r)
    BY <1>1, <2>4, LockGivenBack DEF ReadReply
  <2>5. CASE Disconnected(r)
    BY <1>1, <2>5, LockGivenBack DEF Disconnected
  <2>6. QED
    BY <1>2, <2>1, <2>2, <2>3, <2>4, <2>5 DEF RequestStep
<1>3. CASE UNCHANGED <<pc, lock>>
  BY <1>1, <1>3 DEF LockInv
<1>4. ASSUME NEW s \in Sessions, JobStep(s)
      PROVE  UNCHANGED <<pc, lock>>
  BY <1>4, JobFacts DEF SocketInv, SessionInv, JobEffect, besideJob, workerVars
<1>5. ASSUME NEW s \in Sessions, HelperStep(s) \/ Shutdown(s)
      PROVE  UNCHANGED <<pc, lock>>
  BY <1>5 DEF HelperStep, ReadCancel, ReadRequest, StartJob, ReadEnd, HelperExits, Shutdown,
              workerVars
<1>6. HostToggles => UNCHANGED <<pc, lock>>
  BY DEF HostToggles, workerVars
<1>7. UNCHANGED vars => UNCHANGED <<pc, lock>>
  BY DEF vars, workerVars
<1>8. QED
  BY <1>2, <1>3, <1>4, <1>5, <1>6, <1>7 DEF Next

\* A step that leaves a session's socket and helper alone keeps what holds there: a
\* cancellation is never taken back.
Untouched(t) ==
    /\ lock'[t] = lock[t] /\ toHelper'[t] = toHelper[t] /\ toWorker'[t] = toWorker[t]
    /\ closed'[t] = closed[t] /\ main'[t] = main[t] /\ job'[t] = job[t]

CancelsStay == \A r \in Requests : canceled[r] => canceled'[r]

\* The messages of a queue name requests.
LEMMA MessageFacts ==
    ASSUME TypeOK, NEW s \in Sessions, NEW i \in DOMAIN toHelper[s]
    PROVE  toHelper[s][i] \in Message /\ toHelper[s][i].req \in Requests
           /\ (~Asks(s, i) => toHelper[s][i].kind = "Cancel")
<1>1. toHelper[s] \in Seq(Message)
  BY DEF TypeOK
<1>2. toHelper[s][i] \in Message
  BY <1>1
<1>3. QED
  BY <1>2 DEF Message, Asks

\* A session nobody touched keeps its invariant.
LEMMA SessionKept ==
    ASSUME TypeOK, NEW t \in Sessions, SessionInv(t), Untouched(t), CancelsStay
    PROVE  SessionInv(t)'
<1>1. MainInv(t)'
  BY DEF SessionInv, Untouched, MainInv, Asks
<1>2. ExchangeInv(t)'
  BY DEF SessionInv, Untouched, ExchangeInv, Unasked, Asks, Busy
<1>3. QueueInv(t)'
  <2>1. \A i \in DOMAIN toHelper[t] : toHelper[t][i].req \in Requests
    BY MessageFacts
  <2>2. QED
    BY <2>1 DEF SessionInv, Untouched, QueueInv, Asks, CancelsStay
<1>4. AnswersInv(t)'
  BY DEF SessionInv, Untouched, AnswersInv
<1>5. QED
  BY <1>1, <1>2, <1>3, <1>4 DEF SessionInv

\* A Request is only written into a socket that carries none.
LEMMA SessionSendRequest ==
    ASSUME TypeOK, NEW r \in Requests, NEW s, s = SessionOf[r], s \in Sessions, SessionInv(s),
           SendRequest(r)
    PROVE  SessionInv(s)'
<1>1. CASE closed[s]
  <2>1. Untouched(s) /\ CancelsStay
    BY <1>1 DEF SendRequest, Untouched, CancelsStay, helperSide, helperVars
  <2>2. QED
    BY <2>1, SessionKept
<1>2. CASE ~closed[s]
  <2>1. /\ lock[s] = Absent /\ lock'[s] = r /\ r # Absent
        /\ Send(s, "Request", r)
        /\ UNCHANGED <<canceled, toWorker, closed, main, job>>
    BY <1>2, RequestAssumption DEF SendRequest, TypeOK, helperSide, helperVars
  <2>2. Unasked(s) /\ ~Busy(s) /\ toWorker[s] = <<>>
    BY <1>2, <2>1 DEF SessionInv, ExchangeInv
  <2>3. PICK n \in Nat :
          /\ toHelper'[s] # <<>> /\ DOMAIN toHelper[s] = 1 .. n
          /\ DOMAIN toHelper'[s] = 1 .. n + 1
          /\ \A i \in 1 .. n : toHelper'[s][i] = toHelper[s][i]
          /\ toHelper'[s][n + 1].kind = "Request" /\ toHelper'[s][n + 1].req = r
    BY ZenonT(60), <2>1, SendFacts
  <2>4. /\ \A i \in 1 .. n : Asks(s, i)' <=> Asks(s, i)
        /\ \A i \in 1 .. n : ~Asks(s, i)
        /\ Asks(s, n + 1)'
        /\ n + 1 \in DOMAIN toHelper'[s]
    <3>1. \A i \in 1 .. n : ~Asks(s, i)
      BY <2>2, <2>3 DEF Unasked
    <3>2. \A i \in 1 .. n : Asks(s, i)' <=> Asks(s, i)
      BY <2>3 DEF Asks
    <3>3. Asks(s, n + 1)'
      BY <2>3 DEF Asks
    <3>4. n + 1 \in 1 .. n + 1
      OBVIOUS
    <3>5. QED
      BY <2>3, <3>1, <3>2, <3>3, <3>4
  <2>5. MainInv(s)'
    <3>1. main[s] # "joining" /\ main[s] \notin {"exiting", "exited"}
      <4>1. main[s] = "joining" => 1 \in DOMAIN toHelper[s]
        <5>1. main[s] = "joining" => toHelper[s] # <<>>
          BY DEF SessionInv, MainInv
        <5>2. toHelper[s] \in Seq(Message)
          BY DEF TypeOK
        <5>3. QED
          BY <5>1, <5>2
      <4>2. QED
        BY <1>2, <2>2, <4>1 DEF SessionInv, MainInv, Unasked
    <3>2. QED
      BY <2>1, <3>1 DEF MainInv
  <2>6. ExchangeInv(s)'
    <3>1. toHelper'[s][n + 1].req = lock'[s] /\ lock'[s] # Absent
      BY <2>1, <2>3
    <3>2. ~Busy(s)' /\ toWorker'[s] = <<>>
      BY <2>1, <2>2 DEF Busy
    <3>3. QED
      BY <2>4, <3>1, <3>2 DEF ExchangeInv
  <2>7. QueueInv(s)'
    <3> SUFFICES ASSUME NEW i \in DOMAIN toHelper'[s]
                 PROVE  /\ SessionOf[toHelper'[s][i].req] = s
                        /\ Asks(s, i)' => \A j \in DOMAIN toHelper'[s] : Asks(s, j)' => i = j
                        /\ ~Asks(s, i)' =>
                              /\ canceled'[toHelper'[s][i].req]
                              /\ job'[s] # Absent /\ job'[s].req = toHelper'[s][i].req
                              /\ \A j \in 1 .. i - 1 : ~Asks(s, j)'
      BY DEF QueueInv
    <3>1. CASE i = n + 1
      BY <2>3, <2>4, <3>1
    <3>2. CASE i # n + 1
      <4>1. i \in 1 .. n /\ toHelper'[s][i] = toHelper[s][i] /\ ~Asks(s, i) /\ ~Asks(s, i)'
        BY <2>3, <2>4, <3>2
      <4>2. /\ SessionOf[toHelper[s][i].req] = s
            /\ canceled[toHelper[s][i].req]
            /\ \A j \in 1 .. i - 1 : j \in 1 .. n
        BY <2>3, <4>1 DEF SessionInv, QueueInv
      <4>3. job[s] # Absent /\ job[s].req = toHelper[s][i].req
        BY <2>3, <2>4, <4>1, <4>2 DEF SessionInv, QueueInv
      <4>4. QED
        BY <2>1, <2>4, <4>1, <4>2, <4>3
    <3>3. QED
      BY <3>1, <3>2
  <2>8. AnswersInv(s)'
    BY <2>1, <2>2 DEF SessionInv, AnswersInv
  <2>9. QED
    BY <2>5, <2>6, <2>7, <2>8 DEF SessionInv
<1>3. QED
  BY <1>1, <1>2

\* A Cancel is written behind the Request of the thread that waits.
LEMMA SessionSendCancel ==
    ASSUME TypeOK, LockInv, NEW r \in Requests, NEW s, s = SessionOf[r], s \in Sessions,
           SessionInv(s), SendCancel(r)
    PROVE  SessionInv(s)'
<1>1. /\ ~closed[s] /\ pc[r] = "waiting" /\ canceled[r] /\ Send(s, "Cancel", r)
      /\ UNCHANGED <<canceled, lock, toWorker, closed, main, job>>
  BY DEF SendCancel, helperSide, helperVars
<1>2. lock[s] = r /\ r # Absent
  BY <1>1, RequestAssumption DEF LockInv
<1>3. PICK n \in Nat :
        /\ toHelper'[s] # <<>> /\ DOMAIN toHelper[s] = 1 .. n
        /\ DOMAIN toHelper'[s] = 1 .. n + 1
        /\ \A i \in 1 .. n : toHelper'[s][i] = toHelper[s][i]
        /\ toHelper'[s][n + 1].kind = "Cancel" /\ toHelper'[s][n + 1].req = r
  BY <1>1, SendFacts
<1>4. \A i \in 1 .. n : Asks(s, i)' <=> Asks(s, i)
  BY <1>3 DEF Asks
<1>5. ~Asks(s, n + 1)'
  BY <1>3 DEF Asks
<1>6. MainInv(s)'
  <2>1. main[s] \notin {"exiting", "exited"}
    BY <1>1 DEF SessionInv, MainInv
  <2>2. CASE main[s] = "joining"
    <3>1. toHelper[s] # <<>> /\ Asks(s, 1) /\ toHelper[s] \in Seq(Message)
      BY <2>2 DEF SessionInv, MainInv, TypeOK
    <3>2. 1 \in 1 .. n
      BY <1>3, <3>1
    <3>3. QED
      BY <1>1, <1>3, <1>4, <2>1, <3>1, <3>2 DEF MainInv
  <2>3. CASE main[s] # "joining"
    BY <1>1, <2>1, <2>3 DEF MainInv
  <2>4. QED
    BY <2>2, <2>3
<1>7. \/ /\ ~Busy(s) /\ toWorker[s] = <<>>
         /\ \E i \in 1 .. n : Asks(s, i) /\ toHelper[s][i].req = r
      \/ /\ \A i \in 1 .. n : ~Asks(s, i)
         /\ job[s] # Absent /\ job[s].req = r
         /\ Busy(s) <=> toWorker[s] = <<>>
  BY <1>1, <1>2, <1>3 DEF SessionInv, ExchangeInv, Unasked
<1>8. ExchangeInv(s)'
  <2>1. Busy(s)' <=> Busy(s)
    BY <1>1 DEF Busy
  <2>2. CASE \E i \in 1 .. n : Asks(s, i) /\ toHelper[s][i].req = r
    <3>1. PICK i \in 1 .. n : Asks(s, i) /\ toHelper[s][i].req = r
      BY <2>2
    <3>2. i \in DOMAIN toHelper'[s] /\ Asks(s, i)' /\ toHelper'[s][i].req = r
      BY <1>3, <1>4, <3>1
    <3>3. ~Busy(s) /\ toWorker[s] = <<>>
      BY <1>7, <3>1
    <3>4. QED
      BY <1>1, <1>2, <2>1, <3>2, <3>3 DEF ExchangeInv
  <2>3. CASE ~\E i \in 1 .. n : Asks(s, i) /\ toHelper[s][i].req = r
    <3>1. \A i \in 1 .. n + 1 : ~Asks(s, i)'
      BY <1>4, <1>5, <1>7, <2>3
    <3>2. Unasked(s)'
      BY <1>3, <3>1 DEF Unasked
    <3>3. QED
      BY <1>1, <1>2, <1>7, <2>1, <2>3, <3>2 DEF ExchangeInv
  <2>4. QED
    BY <2>2, <2>3
<1>9. QueueInv(s)'
  <2> SUFFICES ASSUME NEW i \in 1 .. n + 1
               PROVE  /\ SessionOf[toHelper'[s][i].req] = s
                      /\ Asks(s, i)' => \A j \in 1 .. n + 1 : Asks(s, j)' => i = j
                      /\ ~Asks(s, i)' =>
                            /\ canceled[toHelper'[s][i].req]
                            /\ \/ \E j \in 1 .. i - 1 : /\ Asks(s, j)'
                                                       /\ toHelper'[s][j].req = toHelper'[s][i].req
                               \/ /\ job[s] # Absent /\ job[s].req = toHelper'[s][i].req
                                  /\ \A j \in 1 .. i - 1 : ~Asks(s, j)'
    BY <1>1, <1>3, SMTT(20) DEF QueueInv
  <2>1. CASE i = n + 1
    <3>1. i - 1 = n
      BY <2>1
    <3>2. \A j \in 1 .. n : toHelper'[s][j].req = toHelper[s][j].req
      BY <1>3
    <3>3. QED
      BY <1>1, <1>3, <1>4, <1>5, <1>7, <2>1, <3>1, <3>2
  <2>2. CASE i # n + 1
    <3>1. /\ i \in 1 .. n /\ toHelper'[s][i] = toHelper[s][i] /\ (Asks(s, i)' <=> Asks(s, i))
          /\ \A j \in 1 .. i - 1 : j \in 1 .. n
      BY <1>3, <1>4, <2>2
    <3>2. /\ SessionOf[toHelper[s][i].req] = s
          /\ Asks(s, i) => \A j \in 1 .. n : Asks(s, j) => i = j
          /\ ~Asks(s, i) =>
                /\ canceled[toHelper[s][i].req]
                /\ \/ \E j \in 1 .. i - 1 : Asks(s, j) /\ toHelper[s][j].req = toHelper[s][i].req
                   \/ /\ job[s] # Absent /\ job[s].req = toHelper[s][i].req
                      /\ \A j \in 1 .. i - 1 : ~Asks(s, j)
      BY SMTT(30), <1>3, <3>1 DEF SessionInv, QueueInv
    <3>3. Asks(s, i)' => \A j \in 1 .. n + 1 : Asks(s, j)' => i = j
      <4> SUFFICES ASSUME Asks(s, i)', NEW j \in 1 .. n + 1, Asks(s, j)'
                   PROVE  i = j
        OBVIOUS
      <4>1. j \in 1 .. n
        BY <1>5
      <4>2. QED
        BY <1>4, <3>1, <3>2, <4>1
    <3>4. \A j \in 1 .. i - 1 : (Asks(s, j)' <=> Asks(s, j)) /\ toHelper'[s][j] = toHelper[s][j]
      BY <1>3, <1>4, <3>1
    <3>5. QED
      BY <3>1, <3>2, <3>3, <3>4
  <2>3. QED
    BY <2>1, <2>2
<1>10. AnswersInv(s)'
  BY <1>1 DEF SessionInv, AnswersInv
<1>11. QED
  BY <1>6, <1>8, <1>9, <1>10 DEF SessionInv

\* The thread that waits takes its answer, or the end of the socket.
LEMMA SessionReadReply ==
    ASSUME TypeOK, LockInv, NEW r \in Requests, NEW s, s = SessionOf[r], s \in Sessions,
           SessionInv(s), ReadReply(r) \/ Disconnected(r)
    PROVE  SessionInv(s)'
<1>1. /\ lock'[s] = Absent
      /\ UNCHANGED <<canceled, toHelper, closed, main, job>>
  BY DEF ReadReply, Disconnected, helperSide, helperVars, TypeOK
<1>2. MainInv(s)' /\ QueueInv(s)'
  BY <1>1 DEF SessionInv, MainInv, QueueInv, Asks
<1>3. CASE Disconnected(r)
  <2>1. closed[s] /\ UNCHANGED toWorker
    BY <1>3 DEF Disconnected
  <2>2. ExchangeInv(s)' /\ AnswersInv(s)'
    BY <1>1, <2>1 DEF SessionInv, ExchangeInv, AnswersInv
  <2>3. QED
    BY <1>2, <2>2 DEF SessionInv
<1>4. CASE ReadReply(r)
  <2>1. /\ toWorker[s] # <<>> /\ toWorker[s] \in Seq(Answers) /\ Len(toWorker[s]) <= 1
        /\ toWorker'[s] = Tail(toWorker[s])
    BY <1>4 DEF ReadReply, TypeOK, Answers
  <2>2. toWorker'[s] = <<>>
    <3>1. /\ Tail(toWorker[s]) \in Seq(Answers) /\ Len(toWorker[s]) \in Nat
          /\ Len(toWorker[s]) # 0 /\ Len(Tail(toWorker[s])) = Len(toWorker[s]) - 1
      BY <2>1, TailFacts
    <3>2. \A k \in Nat : k <= 1 /\ k # 0 => k - 1 = 0
      OBVIOUS
    <3>3. Len(Tail(toWorker[s])) = 0
      BY <2>1, <3>1, <3>2
    <3>4. QED
      BY <2>1, <3>1, <3>3, EmptySeq
  <2>3. ExchangeInv(s)'
    BY <1>1, <2>1, <2>2 DEF SessionInv, ExchangeInv, Unasked, Asks, Busy
  <2>4. AnswersInv(s)'
    <3>1. DOMAIN toWorker'[s] = {}
      BY <2>2
    <3>2. QED
      BY <1>1, <3>1 DEF SessionInv, AnswersInv
  <2>5. QED
    BY <1>2, <2>3, <2>4 DEF SessionInv
<1>5. QED
  BY <1>3, <1>4

\* The job moves on, or answers the request that waits.
LEMMA SessionJob ==
    ASSUME TypeOK, NEW s \in Sessions, SessionInv(s), JobStep(s)
    PROVE  SessionInv(s)'
<1>1. JobEffect(s)
  BY JobFacts DEF SessionInv
<1>2. /\ Busy(s) /\ job[s] # Absent /\ job'[s] # Absent
      /\ job'[s].req = job[s].req
      /\ UNCHANGED <<canceled, lock, toHelper, closed, main>>
  BY <1>1, JobAssumption DEF JobEffect, besideJob, workerVars, Busy
<1>3. ~closed[s] => /\ lock[s] # Absent /\ Unasked(s) /\ job[s].req = lock[s]
                   /\ toWorker[s] = <<>>
  BY <1>2 DEF SessionInv, ExchangeInv
<1>4. MainInv(s)'
  BY <1>2 DEF SessionInv, MainInv, Asks
<1>5. QueueInv(s)'
  BY <1>2 DEF SessionInv, QueueInv, Asks
<1>6. ExchangeInv(s)'
  BY <1>1, <1>2, <1>3 DEF JobEffect, ExchangeInv, Unasked, Asks, Busy
<1>7. AnswersInv(s)'
  BY <1>1, <1>2, <1>3 DEF JobEffect, SessionInv, AnswersInv
<1>8. QED
  BY <1>4, <1>5, <1>6, <1>7 DEF SessionInv

\* The main loop takes the Cancel at the head of the queue: it is for the last job.
LEMMA HeadCancelFacts ==
    ASSUME TypeOK, NEW s \in Sessions, SessionInv(s), ReadCancel(s)
    PROVE  job[s] # Absent /\ job[s].req = toHelper[s][1].req /\ canceled[job[s].req]
<1>1. toHelper[s] # <<>> /\ Head(toHelper[s]).kind = "Cancel"
      /\ toHelper' = [toHelper EXCEPT ![s] = Tail(@)]
  BY DEF ReadCancel
<1>2. /\ Head(toHelper[s]) = toHelper[s][1] /\ Len(toHelper[s]) \in Nat /\ Len(toHelper[s]) # 0
      /\ DOMAIN toHelper[s] = 1 .. Len(toHelper[s])
  BY <1>1, PopFacts
<1>3. 1 \in DOMAIN toHelper[s] /\ ~Asks(s, 1)
  BY <1>1, <1>2 DEF Asks
<1>4. \A j \in 1 .. 1 - 1 : FALSE
  OBVIOUS
<1>5. QED
  BY <1>3, <1>4 DEF SessionInv, QueueInv

\* The main loop reads a Cancel.
LEMMA SessionReadCancel ==
    ASSUME TypeOK, NEW s \in Sessions, SessionInv(s), ReadCancel(s)
    PROVE  SessionInv(s)'
<1>1. /\ main[s] = "serving" /\ toHelper[s] # <<>> /\ Head(toHelper[s]).kind = "Cancel"
      /\ UNCHANGED <<canceled, lock, toWorker, closed, main>>
  BY DEF ReadCancel, workerVars
<1>2. job[s] # Absent /\ job'[s] # Absent /\ job'[s].req = job[s].req /\ job'[s].at = job[s].at
  BY HeadCancelFacts, CancelFacts DEF ReadCancel
<1>3. PICK n \in Nat :
        /\ n # 0 /\ DOMAIN toHelper[s] = 1 .. n /\ DOMAIN toHelper'[s] = 1 .. n - 1
        /\ \A i \in 1 .. n - 1 : toHelper'[s][i] = toHelper[s][i + 1]
        /\ Head(toHelper[s]) = toHelper[s][1]
  BY PopFacts DEF ReadCancel
<1>4. \A i \in 1 .. n - 1 : (Asks(s, i)' <=> Asks(s, i + 1)) /\ i + 1 \in 1 .. n
  BY <1>3 DEF Asks
<1>5. ~Asks(s, 1)
  BY <1>1, <1>3 DEF Asks
<1>6. MainInv(s)'
  BY <1>1 DEF MainInv
<1>7. ExchangeInv(s)'
  <2>1. Busy(s)' <=> Busy(s)
    BY <1>2 DEF Busy
  <2>2. Unasked(s) => Unasked(s)'
    BY <1>3, <1>4 DEF Unasked
  <2>3. ASSUME NEW i \in DOMAIN toHelper[s], Asks(s, i), toHelper[s][i].req = lock[s]
        PROVE  \E j \in DOMAIN toHelper'[s] : Asks(s, j)' /\ toHelper'[s][j].req = lock[s]
    <3>1. i # 1 /\ i \in 1 .. n
      BY <1>3, <1>5, <2>3
    <3>2. i - 1 \in 1 .. n - 1 /\ (i - 1) + 1 = i
      BY <3>1
    <3>3. QED
      BY <1>3, <1>4, <2>3, <3>2
  <2>4. QED
    BY <1>1, <1>2, <2>1, <2>2, <2>3 DEF SessionInv, ExchangeInv
<1>8. QueueInv(s)'
  <2> SUFFICES ASSUME NEW i \in 1 .. n - 1
               PROVE  /\ SessionOf[toHelper'[s][i].req] = s
                      /\ Asks(s, i)' => \A j \in 1 .. n - 1 : Asks(s, j)' => i = j
                      /\ ~Asks(s, i)' =>
                            /\ canceled[toHelper'[s][i].req]
                            /\ \/ \E j \in 1 .. i - 1 : /\ Asks(s, j)'
                                                       /\ toHelper'[s][j].req = toHelper'[s][i].req
                               \/ /\ job[s].req = toHelper'[s][i].req
                                  /\ \A j \in 1 .. i - 1 : ~Asks(s, j)'
    BY ZenonT(60), <1>1, <1>2, <1>3 DEF QueueInv
  <2>1. /\ i + 1 \in 1 .. n /\ toHelper'[s][i] = toHelper[s][i + 1]
        /\ (Asks(s, i)' <=> Asks(s, i + 1))
        /\ \A j \in 1 .. i - 1 : j \in 1 .. n - 1 /\ j + 1 \in 1 .. i
    BY <1>3, <1>4
  <2>2. /\ SessionOf[toHelper[s][i + 1].req] = s
        /\ Asks(s, i + 1) => \A j \in 1 .. n : Asks(s, j) => i + 1 = j
        /\ ~Asks(s, i + 1) =>
              /\ canceled[toHelper[s][i + 1].req]
              /\ \/ \E j \in 1 .. (i + 1) - 1 :
                       Asks(s, j) /\ toHelper[s][j].req = toHelper[s][i + 1].req
                 \/ /\ job[s].req = toHelper[s][i + 1].req
                    /\ \A j \in 1 .. (i + 1) - 1 : ~Asks(s, j)
    BY <1>3, <2>1 DEF SessionInv, QueueInv
  <2>3. ASSUME Asks(s, i)', NEW j \in 1 .. n - 1, Asks(s, j)'
        PROVE  i = j
    <3>1. i + 1 = j + 1
      BY <1>4, <2>1, <2>2, <2>3
    <3>2. QED
      BY <3>1
  <2>4. (i + 1) - 1 = i
    OBVIOUS
  <2>5. ASSUME NEW j \in 1 .. i, Asks(s, j), toHelper[s][j].req = toHelper[s][i + 1].req
        PROVE  \E k \in 1 .. i - 1 : Asks(s, k)' /\ toHelper'[s][k].req = toHelper'[s][i].req
    <3>1. j - 1 \in 1 .. i - 1 /\ (j - 1) + 1 = j /\ j - 1 \in 1 .. n - 1
      BY <1>5, <2>5
    <3>2. QED
      BY <1>3, <1>4, <2>1, <2>5, <3>1
  <2>6. (\A j \in 1 .. i : ~Asks(s, j)) => \A j \in 1 .. i - 1 : ~Asks(s, j)'
    BY <1>4, <2>1
  <2>7. QED
    BY <2>1, <2>2, <2>3, <2>4, <2>5, <2>6
<1>9. AnswersInv(s)'
  BY <1>1, <1>2 DEF SessionInv, AnswersInv
<1>10. QED
  BY <1>6, <1>7, <1>8, <1>9 DEF SessionInv

\* The Request at the head of the queue is the only one: what follows is for its job.
LEMMA SessionStartJob ==
    ASSUME TypeOK, NEW s \in Sessions, SessionInv(s), StartJob(s)
    PROVE  SessionInv(s)'
<1>1. /\ toHelper[s] # <<>> /\ Asks(s, 1) /\ ~Busy(s)
      /\ UNCHANGED <<canceled, lock, toWorker, closed>> /\ main'[s] = "serving"
  BY DEF StartJob, workerVars, SessionInv, MainInv, TypeOK
<1>2. PICK n \in Nat :
        /\ n # 0 /\ DOMAIN toHelper[s] = 1 .. n /\ DOMAIN toHelper'[s] = 1 .. n - 1
        /\ \A i \in 1 .. n - 1 : toHelper'[s][i] = toHelper[s][i + 1]
        /\ Head(toHelper[s]) = toHelper[s][1] /\ toHelper[s][1] \in Message
  BY <1>1, PopFacts DEF StartJob
<1>3. job'[s] # Absent /\ job'[s].req = toHelper[s][1].req /\ job'[s].at # "ended"
  <2> DEFINE j == [req |-> Head(toHelper[s]).req, at |-> "begin",
                   canceled |-> FALSE, missing |-> FALSE, off |-> FALSE, ready |-> FALSE]
  <2>1. j \in Job /\ j.req = toHelper[s][1].req /\ j.at # "ended"
    BY <1>2 DEF Job, Places, Message
  <2>2. job'[s] = j
    BY DEF StartJob, TypeOK
  <2> HIDE DEF j
  <2>3. QED
    BY <2>1, <2>2, JobAssumption
<1>4. \A i \in 1 .. n : Asks(s, i) => i = 1
  <2>1. 1 \in 1 .. n
    BY <1>2
  <2>2. QED
    BY <1>1, <1>2, <2>1 DEF SessionInv, QueueInv
<1>5. \A i \in 1 .. n - 1 : ~Asks(s, i)' /\ i + 1 \in 1 .. n /\ ~Asks(s, i + 1)
  <2>1. \A i \in 1 .. n - 1 : (Asks(s, i)' <=> Asks(s, i + 1)) /\ i + 1 \in 1 .. n /\ i + 1 # 1
    BY <1>2 DEF Asks
  <2>2. QED
    BY <1>4, <2>1
<1>6. MainInv(s)'
  BY <1>1 DEF MainInv
<1>7. ExchangeInv(s)'
  <2> SUFFICES ASSUME ~closed[s] PROVE ExchangeInv(s)'
    BY <1>1 DEF ExchangeInv
  <2>1. 1 \in DOMAIN toHelper[s]
    BY <1>2
  <2>2. ~Unasked(s)
    BY <1>1, <2>1 DEF Unasked
  <2>3. lock[s] # Absent /\ toWorker[s] = <<>> /\ toHelper[s][1].req = lock[s]
    BY <1>2, <1>4, <2>2 DEF SessionInv, ExchangeInv
  <2>4. Unasked(s)' /\ Busy(s)'
    BY <1>2, <1>3, <1>5 DEF Unasked, Busy
  <2>5. QED
    BY <1>1, <1>3, <2>3, <2>4 DEF ExchangeInv
<1>8. QueueInv(s)'
  <2> SUFFICES ASSUME NEW i \in 1 .. n - 1
               PROVE  /\ SessionOf[toHelper'[s][i].req] = s
                      /\ ~Asks(s, i)'
                      /\ canceled[toHelper'[s][i].req]
                      /\ job'[s].req = toHelper'[s][i].req
                      /\ \A j \in 1 .. i - 1 : ~Asks(s, j)'
    BY <1>1, <1>2, <1>3 DEF QueueInv
  <2>1. /\ i + 1 \in 1 .. n /\ toHelper'[s][i] = toHelper[s][i + 1]
        /\ ~Asks(s, i)' /\ ~Asks(s, i + 1)
        /\ \A j \in 1 .. i - 1 : j \in 1 .. n - 1
    <3>1. \A j \in 1 .. i - 1 : j \in 1 .. n - 1
      OBVIOUS
    <3>2. QED
      BY <1>2, <1>5, <3>1
  <2>2. /\ SessionOf[toHelper[s][i + 1].req] = s
        /\ canceled[toHelper[s][i + 1].req]
        /\ \/ \E j \in 1 .. i : Asks(s, j) /\ toHelper[s][j].req = toHelper[s][i + 1].req
           \/ \A j \in 1 .. i : ~Asks(s, j)
    <3>1. i + 1 \in DOMAIN toHelper[s] /\ (i + 1) - 1 = i
      BY <1>2, <2>1
    <3>2. QED
      BY <2>1, <3>1 DEF SessionInv, QueueInv
  <2>3. 1 \in 1 .. i /\ \A j \in 1 .. i : j \in 1 .. n
    BY <2>1
  <2>4. toHelper[s][1].req = toHelper[s][i + 1].req
    BY <1>1, <1>4, <2>2, <2>3
  <2>5. QED
    BY <1>3, <1>5, <2>1, <2>2, <2>4
<1>9. AnswersInv(s)'
  <2>1. 1 \in DOMAIN toHelper[s]
    BY <1>2
  <2>2. SessionOf[toHelper[s][1].req] = s
    BY <2>1 DEF SessionInv, QueueInv
  <2>3. QED
    BY <1>1, <1>3, <2>2 DEF SessionInv, AnswersInv
<1>10. QED
  BY <1>6, <1>7, <1>8, <1>9 DEF SessionInv

\* A step of the main loop keeps the invariant of its session.
LEMMA SessionHelper ==
    ASSUME TypeOK, NEW s \in Sessions, SessionInv(s), HelperStep(s)
    PROVE  SessionInv(s)'
<1> USE DEF workerVars, socketVars
<1>1. CASE ReadCancel(s)
  BY <1>1, SessionReadCancel
<1>2. CASE StartJob(s)
  BY <1>2, SessionStartJob
<1>3. CASE ReadRequest(s)
  <2>1. toHelper[s] # <<>> /\ Asks(s, 1)
    <3>1. toHelper[s] # <<>> /\ toHelper[s] \in Seq(Message) /\ Head(toHelper[s]).kind = "Request"
      BY <1>3 DEF ReadRequest, TypeOK
    <3>2. Head(toHelper[s]) = toHelper[s][1]
      BY <3>1, TailFacts
    <3>3. QED
      BY <3>1, <3>2 DEF Asks
  <2>2. main'[s] = "joining" /\ UNCHANGED <<canceled, lock, toHelper, toWorker, closed, job>>
    BY <1>3 DEF ReadRequest, TypeOK
  <2>3. MainInv(s)'
    BY <2>1, <2>2 DEF MainInv, Asks
  <2>4. ExchangeInv(s)' /\ QueueInv(s)' /\ AnswersInv(s)'
    BY <2>2 DEF SessionInv, ExchangeInv, QueueInv, AnswersInv, Unasked, Asks, Busy
  <2>5. QED
    BY <2>3, <2>4 DEF SessionInv
<1>4. CASE ReadEnd(s)
  <2>1. /\ closed[s] /\ toHelper[s] = <<>> /\ main'[s] = "exiting"
        /\ UNCHANGED <<canceled, lock, toHelper, toWorker, closed>>
        /\ job[s] = Absent => job'[s] = Absent
        /\ job[s] # Absent => job'[s] # Absent /\ job'[s].req = job[s].req
    BY <1>4, CancelFacts DEF ReadEnd, TypeOK
  <2>2. MainInv(s)' /\ ExchangeInv(s)'
    BY <2>1 DEF MainInv, ExchangeInv
  <2>3. QueueInv(s)'
    <3>1. DOMAIN toHelper'[s] = {}
      BY <2>1
    <3>2. QED
      BY <3>1 DEF QueueInv
  <2>4. AnswersInv(s)'
    BY <2>1 DEF SessionInv, AnswersInv
  <2>5. QED
    BY <2>2, <2>3, <2>4 DEF SessionInv
<1>5. CASE HelperExits(s)
  <2>1. /\ closed[s] /\ toHelper[s] = <<>> /\ main'[s] = "exited"
        /\ UNCHANGED <<canceled, lock, toHelper, toWorker, closed, job>>
    BY <1>5 DEF HelperExits, SessionInv, MainInv, TypeOK
  <2>2. MainInv(s)' /\ ExchangeInv(s)'
    BY <2>1 DEF MainInv, ExchangeInv
  <2>3. QueueInv(s)' /\ AnswersInv(s)'
    BY <2>1 DEF SessionInv, QueueInv, AnswersInv, Asks
  <2>4. QED
    BY <2>2, <2>3 DEF SessionInv
<1>6. QED
  BY <1>1, <1>2, <1>3, <1>4, <1>5 DEF HelperStep

\* A cancellation is never taken back.
LEMMA CancelsStayAlways ==
    ASSUME TypeOK, SocketInv, [Next]_vars
    PROVE  CancelsStay
<1>1. CASE UNCHANGED canceled
  BY <1>1 DEF CancelsStay
<1>2. ASSUME NEW r \in Requests, RequestStep(r)
      PROVE  CancelsStay
  <2>1. CASE Cancel(r)
    BY <2>1 DEF Cancel, CancelsStay, TypeOK
  <2>2. CASE ~Cancel(r)
    <3>1. UNCHANGED canceled
      BY <1>2, <2>2 DEF RequestStep, Begin, GiveUp, SendRequest, SendCancel, ReadReply,
         Disconnected, PortalStart, PortalUpdates, PortalEnds, Answer
    <3>2. QED
      BY <1>1, <3>1
  <2>3. QED
    BY <2>1, <2>2
<1>3. ASSUME NEW s \in Sessions, JobStep(s)
      PROVE  UNCHANGED canceled
  BY <1>3, JobFacts DEF SocketInv, SessionInv, JobEffect, besideJob, workerVars
<1>4. ASSUME NEW s \in Sessions, HelperStep(s) \/ Shutdown(s)
      PROVE  UNCHANGED canceled
  BY <1>4 DEF HelperStep, ReadCancel, ReadRequest, StartJob, ReadEnd, HelperExits, Shutdown,
              workerVars
<1>5. HostToggles \/ UNCHANGED vars => UNCHANGED canceled
  BY DEF HostToggles, vars, workerVars
<1>6. QED
  BY <1>1, <1>2, <1>3, <1>4, <1>5 DEF Next

\* A step of one session does not touch the others.
LEMMA RequestElsewhere ==
    ASSUME TypeOK, NEW r \in Requests, RequestStep(r), NEW t \in Sessions,
           \/ t # SessionOf[r]
           \/ ~(SendRequest(r) \/ SendCancel(r) \/ ReadReply(r) \/ Disconnected(r))
    PROVE  Untouched(t)
<1> USE DEF Untouched, elsewhere, socketVars, helperSide, helperVars
<1>1. CASE \/ Begin(r) \/ Cancel(r) \/ GiveUp(r) \/ PortalStart(r) \/ PortalUpdates(r)
           \/ PortalEnds(r) \/ Answer(r)
  BY <1>1 DEF Begin, Cancel, GiveUp, PortalStart, PortalUpdates, PortalEnds, Answer
<1>2. CASE SendRequest(r) \/ SendCancel(r)
  BY <1>2 DEF SendRequest, SendCancel, Send, TypeOK
<1>3. CASE ReadReply(r) \/ Disconnected(r)
  BY <1>3 DEF ReadReply, Disconnected, TypeOK
<1>4. QED
  BY <1>1, <1>2, <1>3 DEF RequestStep

\* A job of one session leaves the other sessions alone.
LEMMA JobElsewhere ==
    ASSUME TypeOK, NEW s \in Sessions, SessionInv(s), JobStep(s), NEW t \in Sessions \ {s}
    PROVE  Untouched(t)
BY JobFacts DEF SessionInv, JobEffect, Untouched, besideJob

\* A main loop leaves the other sessions alone.
LEMMA HelperElsewhere ==
    ASSUME TypeOK, NEW s \in Sessions, HelperStep(s) \/ Shutdown(s), NEW t \in Sessions \ {s}
    PROVE  Untouched(t)
<1> USE DEF Untouched, socketVars, helperSide, helperVars
<1>1. CASE ReadCancel(s) \/ ReadEnd(s)
  BY <1>1, CancelFacts DEF ReadCancel, ReadEnd, TypeOK
<1>2. CASE StartJob(s)
  BY <1>2 DEF StartJob, TypeOK
<1>3. CASE ReadRequest(s) \/ HelperExits(s)
  BY <1>3 DEF ReadRequest, HelperExits, TypeOK
<1>4. CASE Shutdown(s)
  BY <1>4 DEF Shutdown, TypeOK
<1>5. QED
  BY <1>1, <1>2, <1>3, <1>4 DEF HelperStep

\* Every step keeps the invariants of the sockets.
LEMMA SocketStep ==
    ASSUME TypeOK, SocketInv, [Next]_vars
    PROVE  SocketInv'
<1>1. LockInv' /\ CancelsStay /\ LockInv
  BY LockStep, CancelsStayAlways DEF SocketInv
<1> SUFFICES ASSUME NEW t \in Sessions PROVE SessionInv(t)'
  BY <1>1 DEF SocketInv
<1>2. SessionInv(t)
  BY DEF SocketInv
<1>3. CASE Untouched(t)
  BY <1>1, <1>2, <1>3, SessionKept
<1>4. ASSUME NEW r \in Requests, RequestStep(r)
      PROVE  SessionInv(t)'
  <2>1. CASE t = SessionOf[r] /\ SendRequest(r)
    BY <1>2, <2>1, SessionSendRequest
  <2>2. CASE t = SessionOf[r] /\ SendCancel(r)
    BY <1>1, <1>2, <2>2, SessionSendCancel
  <2>3. CASE t = SessionOf[r] /\ (ReadReply(r) \/ Disconnected(r))
    BY <1>1, <1>2, <2>3, SessionReadReply
  <2>4. QED
    BY <1>3, <1>4, <2>1, <2>2, <2>3, RequestElsewhere
<1>5. ASSUME NEW s \in Sessions, JobStep(s)
      PROVE  SessionInv(t)'
  <2>1. SessionInv(s)
    BY DEF SocketInv
  <2>2. QED
    BY <1>2, <1>3, <1>5, <2>1, SessionJob, JobElsewhere
<1>6. ASSUME NEW s \in Sessions, HelperStep(s)
      PROVE  SessionInv(t)'
  BY <1>2, <1>3, <1>6, SessionHelper, HelperElsewhere
<1>7. ASSUME NEW s \in Sessions, Shutdown(s)
      PROVE  SessionInv(t)'
  <2>1. CASE s = t
    <3>1. /\ closed'[t] /\ UNCHANGED <<canceled, lock, toHelper, toWorker, main, job>>
      BY <1>7, <2>1 DEF Shutdown, TypeOK, workerVars, helperSide, helperVars
    <3>2. MainInv(t)' /\ ExchangeInv(t)' /\ QueueInv(t)' /\ AnswersInv(t)'
      BY <1>2, <3>1 DEF SessionInv, MainInv, ExchangeInv, QueueInv, AnswersInv, Asks
    <3>3. QED
      BY <3>2 DEF SessionInv
  <2>2. QED
    BY <1>3, <1>7, <2>1, HelperElsewhere
<1>8. HostToggles \/ UNCHANGED vars => Untouched(t)
  BY DEF HostToggles, vars, workerVars, socketVars, helperVars, Untouched
<1>9. QED
  BY <1>3, <1>4, <1>5, <1>6, <1>7, <1>8 DEF Next

-----------------------------------------------------------------------------
(***************************************************************************)
(* What the job of a session does to the decisions and to the host.        *)
(***************************************************************************)

\* The job goes on with nothing decided about its package, and decides when it answers.
Deciding(s) ==
    \/ /\ decisions' = decisions
       /\ job'[s].at \notin {"send", "ended"} /\ At(s, "begin") => Decision(s) = "unknown"
    \/ /\ job'[s].at = "send"
       /\ \E d \in {"allow", "deny"} : Decide(s, d) /\ (d = "allow" => At(s, "final"))

\* The lock file is taken before the second look, held through the transaction, and
\* given back; only the transaction installs the package.
Installing(s) ==
    LET inside == At(s, "locked") \/ At(s, "transaction") IN
    \/ /\ UNCHANGED <<installLock, installed>>
       /\ inside' => At(s, "locked") /\ At(s, "transaction")' /\ ~installed
    \/ /\ installLock = Absent /\ installLock' = s /\ UNCHANGED installed
       /\ At(s, "locked")'
    \/ /\ inside /\ ~inside' /\ installLock' = Absent
       /\ installed' = installed \/ At(s, "transaction")

\* It goes past the dialog only with the user's consent, and enables location only if it
\* is not canceled by then.
Permitting(s) ==
    /\ job'[s].at \in Permitted => job[s].at \in Permitted \/ job[s].req \in consented'
    /\ At(s, "enable")' => At(s, "enable") \/ (At(s, "installed") /\ ~job[s].canceled)

\* It answers ready from what the host says now, to a request that was allowed.
Readying(s) ==
    job'[s].at = "send" /\ job'[s].ready =>
        installed /\ enabled /\ (At(s, "final") \/ Decision(s) = "allow")

\* Where a step of the job leads to, and what it has seen when it gets there.
LEMMA JobDetails ==
    ASSUME TypeOK, NEW s \in Sessions, ExchangeInv(s), JobStep(s)
    PROVE  Deciding(s) /\ Installing(s) /\ Permitting(s) /\ Readying(s)
<1>1. ASSUME NEW p \in Places, job[s] # Absent, Move(s, p)
      PROVE  job'[s] # Absent /\ job'[s].at = p
  BY <1>1, MoveFacts, JobAssumption
<1>2. ASSUME NEW ready \in BOOLEAN, NEW p, At(s, p), Reply(s, ready)
      PROVE  job'[s] # Absent /\ job'[s].at = "send" /\ job'[s].ready = ready
  <2>1. job[s] # Absent
    BY <1>2 DEF At
  <2>2. QED
    BY <1>2, <2>1, ReplyFacts
<1>3. /\ {"begin", "dialog", "allowed", "denied", "lock", "locked", "transaction",
          "installed", "enable", "final", "ended"} \subseteq Places
      /\ TRUE \in BOOLEAN /\ FALSE \in BOOLEAN
  BY DEF Places
<1> USE DEF Deciding, Installing, Permitting, Readying, Permitted, At, hostVars, histories
<1>5. CASE Remembered(s)
  <2>1. PICK ready \in BOOLEAN : ready = (~job[s].canceled /\ Decision(s) = "allow" /\ installed /\ enabled)
    OBVIOUS
  <2>2. Reply(s, ready)
    BY <1>5, <2>1 DEF Remembered
  <2>3. job'[s] # Absent /\ job'[s].at = "send" /\ job'[s].ready = ready
    BY <1>2, <1>3, <1>5, <2>2 DEF Remembered
  <2>4. QED
    BY <1>5, <2>1, <2>3 DEF Remembered
<1>6. CASE Look(s) \/ LookEnabled(s)
  <2>1. job'[s] # Absent /\ job'[s].at \in {"looking", "dialog"} /\ (At(s, "begin") => Look(s))
    BY <1>6, LookFacts DEF LookEnabled
  <2>2. QED
    BY <1>6, <2>1 DEF Look, LookEnabled
<1>7. CASE UserAnswers(s)
  <2>1. job'[s] # Absent
        /\ \/ job'[s].at = "allowed" /\ consented' = consented \cup {job[s].req}
           \/ job'[s].at = "denied" /\ UNCHANGED consented
    BY <1>1, <1>3, <1>7 DEF UserAnswers
  <2>2. QED
    BY <1>7, <2>1 DEF UserAnswers
<1>8. CASE CloseDialog(s)
  <2>1. job'[s] # Absent /\ job'[s].at = "send" /\ ~job'[s].ready
    BY <1>2, <1>3, <1>8 DEF CloseDialog
  <2>2. QED
    BY <1>8, <2>1 DEF CloseDialog
<1>9. CASE Denied(s)
  <2>1. job'[s] # Absent /\ job'[s].at = "send" /\ ~job'[s].ready
    BY <1>2, <1>3, <1>9 DEF Denied
  <2>2. QED
    BY <1>9, <2>1 DEF Denied
<1>10. CASE Allowed(s)
  <2>1. CASE job[s].canceled
    <3>1. job'[s] # Absent /\ job'[s].at = "send" /\ ~job'[s].ready
      BY <1>1, <1>2, <1>3, <1>10, <2>1 DEF Allowed
    <3>2. QED
      BY <1>10, <2>1, <3>1 DEF Allowed
  <2>2. CASE ~job[s].canceled
    <3>1. job'[s] # Absent /\ job'[s].at \in {"lock", "installed"}
      BY <1>1, <1>2, <1>3, <1>10, <2>2 DEF Allowed
    <3>2. QED
      BY <1>10, <2>2, <3>1 DEF Allowed
  <2>3. QED
    BY <1>10, <2>1, <2>2 DEF Allowed
<1>11. CASE TakeInstallLock(s)
  <2>1. CASE Reply(s, FALSE) /\ UNCHANGED installLock
    <3>1. job'[s] # Absent /\ job'[s].at = "send" /\ ~job'[s].ready
      BY <1>1, <1>2, <1>3, <1>11, <2>1 DEF TakeInstallLock
    <3>2. QED
      BY <1>11, <2>1, <3>1 DEF TakeInstallLock
  <2>2. CASE installLock = Absent /\ installLock' = s /\ Move(s, "locked")
    <3>1. job'[s] # Absent /\ job'[s].at = "locked"
      BY <1>1, <1>2, <1>3, <1>11, <2>2 DEF TakeInstallLock
    <3>2. QED
      BY <1>11, <2>2, <3>1 DEF TakeInstallLock
  <2>3. QED
    BY <1>11, <2>1, <2>2 DEF TakeInstallLock
<1>12. CASE RecheckInstalled(s)
  <2>1. CASE installed /\ Move(s, "installed") /\ installLock' = Absent
    <3>1. job'[s] # Absent /\ job'[s].at = "installed"
      BY <1>1, <1>2, <1>3, <1>12, <2>1 DEF RecheckInstalled
    <3>2. QED
      BY <1>12, <2>1, <3>1 DEF RecheckInstalled
  <2>2. CASE Reply(s, FALSE) /\ installLock' = Absent
    <3>1. job'[s] # Absent /\ job'[s].at = "send" /\ ~job'[s].ready
      BY <1>1, <1>2, <1>3, <1>12, <2>2 DEF RecheckInstalled
    <3>2. QED
      BY <1>12, <2>2, <3>1 DEF RecheckInstalled
  <2>3. CASE ~installed /\ Move(s, "transaction") /\ UNCHANGED installLock
    <3>1. job'[s] # Absent /\ job'[s].at = "transaction"
      BY <1>1, <1>2, <1>3, <1>12, <2>3 DEF RecheckInstalled
    <3>2. QED
      BY <1>12, <2>3, <3>1 DEF RecheckInstalled
  <2>4. QED
    BY <1>12, <2>1, <2>2, <2>3 DEF RecheckInstalled
<1>13. CASE Transact(s)
  <2>1. CASE installed' = TRUE /\ Move(s, "installed")
    <3>1. job'[s] # Absent /\ job'[s].at = "installed"
      BY <1>1, <1>3, <1>13, <2>1 DEF Transact
    <3>2. QED
      BY <1>13, <2>1, <3>1 DEF Transact
  <2>2. CASE Reply(s, FALSE) /\ UNCHANGED installed
    <3>1. job'[s] # Absent /\ job'[s].at = "send" /\ ~job'[s].ready
      BY <1>1, <1>2, <1>3, <1>13, <2>2 DEF Transact
    <3>2. QED
      BY <1>13, <2>2, <3>1 DEF Transact
  <2>3. QED
    BY <1>13, <2>1, <2>2 DEF Transact, HostBecomes
<1>14. CASE Installed(s)
  <2>1. CASE job[s].canceled
    <3>1. job'[s] # Absent /\ job'[s].at = "send" /\ ~job'[s].ready
      BY <1>1, <1>2, <1>3, <1>14, <2>1 DEF Installed
    <3>2. QED
      BY <1>14, <2>1, <3>1 DEF Installed
  <2>2. CASE ~job[s].canceled
    <3>1. job'[s] # Absent /\ job'[s].at \in {"enable", "final"}
      BY <1>1, <1>2, <1>3, <1>14, <2>2 DEF Installed
    <3>2. QED
      BY <1>14, <2>2, <3>1 DEF Installed
  <2>3. QED
    BY <1>14, <2>1, <2>2 DEF Installed
<1>15. CASE Enable(s)
  <2>1. UNCHANGED <<installed, installLock, decisions, consented>> /\ At(s, "enable")
    BY <1>15 DEF Enable, HostBecomes
  <2>2. CASE Move(s, "final")
    <3>1. job'[s] # Absent /\ job'[s].at = "final"
      BY <1>1, <1>3, <2>1, <2>2
    <3>2. QED
      BY <2>1, <3>1
  <2>3. CASE Reply(s, FALSE)
    <3>1. job'[s] # Absent /\ job'[s].at = "send" /\ ~job'[s].ready
      BY <1>2, <1>3, <2>1, <2>3
    <3>2. QED
      BY <2>1, <3>1
  <2>4. QED
    BY <1>15, <2>2, <2>3 DEF Enable
<1>16. CASE Finish(s)
  <2>1. PICK ready \in BOOLEAN : ready = (installed /\ enabled)
    OBVIOUS
  <2>2. Reply(s, ready)
    BY <1>16, <2>1 DEF Finish
  <2>3. job'[s] # Absent /\ job'[s].at = "send" /\ job'[s].ready = ready
    BY <1>2, <1>3, <1>16, <2>2 DEF Finish
  <2>4. QED
    BY <1>16, <2>1, <2>3 DEF Finish
<1>17. CASE SendReply(s)
  <2>1. job'[s] # Absent /\ job'[s].at = "ended"
    BY <1>1, <1>3, <1>17 DEF SendReply
  <2>2. QED
    BY <1>17, <2>1 DEF SendReply
<1>18. QED
  BY <1>5, <1>6, <1>7, <1>8, <1>9, <1>10, <1>11, <1>12, <1>13, <1>14, <1>15, <1>16, <1>17
     DEF JobStep

-----------------------------------------------------------------------------
(***************************************************************************)
(* Answers and cancellations keep to their request.                        *)
(***************************************************************************)
\* A step that is not one of the session's helper leaves its job alone; the helper's
\* main loop starts a job, cancels it, or leaves it alone.
LEMMA HelperJob ==
    ASSUME TypeOK, NEW s \in Sessions, SessionInv(s), HelperStep(s), job'[s] # Absent
    PROVE  \/ /\ job[s] # Absent /\ job'[s].req = job[s].req /\ job'[s].at = job[s].at
              /\ job'[s].ready = job[s].ready
              /\ \/ job'[s].canceled = job[s].canceled
                 \/ canceled[job[s].req] \/ main'[s] \in {"exiting", "exited"}
           \/ StartJob(s) /\ job'[s].at = "begin" /\ ~job'[s].canceled
<1> USE DEF socketVars
<1>1. CASE ReadCancel(s)
  BY <1>1, HeadCancelFacts, CancelFacts DEF ReadCancel
<1>2. CASE StartJob(s)
  BY <1>2 DEF StartJob, TypeOK
<1>3. CASE ReadRequest(s) \/ HelperExits(s)
  BY <1>3 DEF ReadRequest, HelperExits
<1>4. CASE ReadEnd(s)
  BY <1>4, CancelFacts DEF ReadEnd, TypeOK
<1>5. QED
  BY <1>1, <1>2, <1>3, <1>4 DEF HelperStep

\* A job is changed by its own steps and by its helper's main loop only.
LEMMA JobsElsewhere ==
    ASSUME TypeOK, SocketInv, [Next]_vars, NEW t \in Sessions
    PROVE  \/ JobStep(t) \/ HelperStep(t)
           \/ job'[t] = job[t] /\ main'[t] = main[t]
<1>1. SessionInv(t) /\ \A s \in Sessions : SessionInv(s)
  BY DEF SocketInv
<1>2. ASSUME NEW r \in Requests, RequestStep(r)
      PROVE  job'[t] = job[t] /\ main'[t] = main[t]
  BY <1>2 DEF RequestStep, Begin, Cancel, GiveUp, SendRequest, SendCancel, ReadReply, Disconnected,
     PortalStart, PortalUpdates, PortalEnds, Answer, elsewhere, helperSide, helperVars
<1>3. ASSUME NEW s \in Sessions, JobStep(s), s # t
      PROVE  job'[t] = job[t] /\ main'[t] = main[t]
  BY <1>1, <1>3, JobElsewhere DEF Untouched
<1>4. ASSUME NEW s \in Sessions, HelperStep(s), s # t
      PROVE  job'[t] = job[t] /\ main'[t] = main[t]
  BY <1>4, HelperElsewhere DEF Untouched
<1>5. ASSUME NEW s \in Sessions, Shutdown(s)
      PROVE  job'[t] = job[t] /\ main'[t] = main[t]
  BY <1>5 DEF Shutdown, helperSide, helperVars
<1>6. HostToggles \/ UNCHANGED vars => job'[t] = job[t] /\ main'[t] = main[t]
  BY DEF HostToggles, vars, helperVars
<1>7. QED
  BY <1>2, <1>3, <1>4, <1>5, <1>6 DEF Next

\* A job is only canceled for its own request, or at the end of its session.
LEMMA CancelStep ==
    ASSUME TypeOK, SocketInv, CancelHitsItsOwnRequest, [Next]_vars
    PROVE  CancelHitsItsOwnRequest'
<1> SUFFICES ASSUME NEW t \in Sessions, job'[t] # Absent, job'[t].canceled
             PROVE  canceled'[job'[t].req] \/ main'[t] \in {"exiting", "exited"}
  BY DEF CancelHitsItsOwnRequest
<1>1. CancelsStay /\ SessionInv(t)
  BY CancelsStayAlways DEF SocketInv
<1>2. ASSUME job[t] # Absent
      PROVE  job[t].req \in Requests
  BY <1>2 DEF TypeOK, Job
<1>3. job[t] # Absent /\ job[t].canceled =>
        canceled'[job[t].req] \/ main[t] \in {"exiting", "exited"}
  BY <1>1, <1>2 DEF CancelHitsItsOwnRequest, CancelsStay
<1>4. CASE job'[t] = job[t] /\ main'[t] = main[t]
  BY <1>3, <1>4
<1>5. CASE JobStep(t)
  <2>1. JobEffect(t)
    BY <1>1, <1>5, JobFacts DEF SessionInv
  <2>2. /\ job[t] # Absent /\ job'[t].req = job[t].req /\ job'[t].canceled = job[t].canceled
        /\ main'[t] = main[t]
    BY <2>1 DEF JobEffect, Busy, besideJob
  <2>3. QED
    BY <1>3, <2>2
<1>6. CASE HelperStep(t)
  <2>1. main[t] \in {"exiting", "exited"} => main'[t] \in {"exiting", "exited"}
    BY <1>6 DEF HelperStep, ReadCancel, ReadRequest, StartJob, ReadEnd, HelperExits, TypeOK
  <2>2. job[t] # Absent /\ canceled[job[t].req] => canceled'[job[t].req]
    BY <1>1, <1>2 DEF CancelsStay
  <2>3. QED
    BY <1>1, <1>3, <1>6, <2>1, <2>2, HelperJob
<1>7. QED
  BY <1>4, <1>5, <1>6, JobsElsewhere

\* Decisions are only taken by the job of their session.
LEMMA DecisionsElsewhere ==
    ASSUME TypeOK, SocketInv, [Next]_vars, NEW t \in Sessions
    PROVE  JobStep(t) \/ decisions'[t] = decisions[t]
<1>1. ASSUME NEW r \in Requests, RequestStep(r)
      PROVE  decisions'[t] = decisions[t]
  BY <1>1 DEF RequestStep, Begin, Cancel, GiveUp, SendRequest, SendCancel, ReadReply, Disconnected,
     PortalStart, PortalUpdates, PortalEnds, Answer, elsewhere, helperSide, helperVars
<1>2. ASSUME NEW s \in Sessions, JobStep(s), s # t
      PROVE  decisions'[t] = decisions[t]
  BY <1>2, HostFacts
<1>3. ASSUME NEW s \in Sessions, HelperStep(s) \/ Shutdown(s)
      PROVE  decisions'[t] = decisions[t]
  BY <1>3 DEF HelperStep, ReadCancel, ReadRequest, StartJob, ReadEnd, HelperExits, Shutdown,
              helperSide, helperVars
<1>4. HostToggles \/ UNCHANGED vars => decisions'[t] = decisions[t]
  BY DEF HostToggles, vars, helperVars
<1>5. QED
  BY <1>1, <1>2, <1>3, <1>4 DEF Next

\* A job that asks or installs does so with no decision stored for its package.
LEMMA AskedStep ==
    ASSUME TypeOK, SocketInv, NobodyIsAskedTwice, [Next]_vars
    PROVE  NobodyIsAskedTwice'
<1> SUFFICES ASSUME NEW t \in Sessions, job'[t] # Absent,
                    job'[t].at \notin {"begin", "send", "ended"}
             PROVE  Decision(t)' = "unknown"
  BY DEF NobodyIsAskedTwice
<1>1. SessionInv(t)
  BY DEF SocketInv
<1>2. job[t] # Absent /\ job[t].at \notin {"begin", "send", "ended"} =>
        decisions[t][PackageOf[job[t].req]] = "unknown"
  BY DEF NobodyIsAskedTwice, Decision
<1>3. CASE JobStep(t)
  <2>1. job[t] # Absent /\ job[t].at \notin {"send", "ended"} /\ job'[t].req = job[t].req
    BY <1>1, <1>3, JobFacts DEF SessionInv, JobEffect, Busy, At
  <2>2. decisions' = decisions /\ (At(t, "begin") => Decision(t) = "unknown")
    BY <1>1, <1>3, JobDetails DEF SessionInv, Deciding
  <2>3. QED
    BY <1>2, <2>1, <2>2 DEF Decision, At
<1>4. CASE ~JobStep(t)
  <2>1. decisions'[t] = decisions[t]
    BY <1>4, DecisionsElsewhere
  <2>2. job[t] # Absent /\ job'[t].req = job[t].req /\ job'[t].at = job[t].at
    BY <1>1, <1>4, JobsElsewhere, HelperJob
  <2>3. QED
    BY <1>2, <2>1, <2>2 DEF Decision
<1>5. QED
  BY <1>3, <1>4

-----------------------------------------------------------------------------
(***************************************************************************)
(* One installation, by one session.                                       *)
(***************************************************************************)
\* Every step keeps the package transaction to one session, with the package missing.
LEMMA InstallStep ==
    ASSUME TypeOK, SocketInv, InstallInv, OneInstallation, [Next]_vars
    PROVE  InstallInv' /\ OneInstallation'
<1> DEFINE Inside(t) == At(t, "locked") \/ At(t, "transaction")
<1>1. \A t \in Sessions : (Inside(t) => installLock = t) /\ (At(t, "transaction") => ~installed)
  BY DEF InstallInv, OneInstallation
<1>2. \A t \in Sessions : t # Absent
  BY RequestAssumption
<1>3. ASSUME NEW s \in Sessions, JobStep(s), NEW t \in Sessions
      PROVE  (Inside(t)' => installLock' = t) /\ (At(t, "transaction")' => ~installed')
  <2>1. Installing(s)
    BY <1>3, JobDetails DEF SocketInv, SessionInv
  <2>2. CASE t = s
    BY <1>1, <2>1, <2>2 DEF Installing, At
  <2>3. CASE t # s
    <3>1. job'[t] = job[t]
      BY <1>3, <2>3, JobElsewhere DEF SocketInv, Untouched
    <3>2. (Inside(t)' <=> Inside(t)) /\ (At(t, "transaction")' <=> At(t, "transaction"))
      BY <3>1 DEF At
    <3>3. Inside(t) => installLock' = installLock
      BY <1>1, <1>2, <2>1, <2>3 DEF Installing
    <3>4. At(t, "transaction") => installed' = installed
      BY <1>1, <1>2, <2>1, <2>3 DEF Installing
    <3>5. QED
      BY <1>1, <3>2, <3>3, <3>4
  <2>4. QED
    BY <2>2, <2>3
<1>4. ASSUME UNCHANGED <<installed, installLock>>, NEW t \in Sessions,
             At(t, "locked")' => At(t, "locked"), At(t, "transaction")' => At(t, "transaction")
      PROVE  (Inside(t)' => installLock' = t) /\ (At(t, "transaction")' => ~installed')
  BY <1>1, <1>4
<1>5. ASSUME ~\E s \in Sessions : JobStep(s), NEW t \in Sessions
      PROVE  (Inside(t)' => installLock' = t) /\ (At(t, "transaction")' => ~installed')
  <2>1. UNCHANGED <<installed, installLock>>
    <3>1. ASSUME NEW r \in Requests, RequestStep(r)
          PROVE  UNCHANGED <<installed, installLock>>
      BY <3>1 DEF RequestStep, Begin, Cancel, GiveUp, SendRequest, SendCancel, ReadReply,
         Disconnected, PortalStart, PortalUpdates, PortalEnds, Answer, elsewhere, helperSide, hostVars, histories
    <3>2. ASSUME NEW s \in Sessions, HelperStep(s) \/ Shutdown(s)
          PROVE  UNCHANGED <<installed, installLock>>
      BY <3>2 DEF HelperStep, ReadCancel, ReadRequest, StartJob, ReadEnd, HelperExits, Shutdown,
                  helperSide, hostVars, histories
    <3>3. HostToggles \/ UNCHANGED vars => UNCHANGED <<installed, installLock>>
      BY DEF HostToggles, HostBecomes, vars, hostVars
    <3>4. QED
      BY <1>5, <3>1, <3>2, <3>3 DEF Next
  <2>2. SessionInv(t)
    BY DEF SocketInv
  <2>3. job'[t] # Absent /\ job'[t].at # "begin" => job[t] # Absent /\ job'[t].at = job[t].at
    BY <1>5, <2>2, JobsElsewhere, HelperJob
  <2>4. (At(t, "locked")' => At(t, "locked")) /\ (At(t, "transaction")' => At(t, "transaction"))
    BY <2>3 DEF At
  <2>5. QED
    BY <1>4, <2>1, <2>4
<1>6. \A t \in Sessions : (Inside(t)' => installLock' = t) /\ (At(t, "transaction")' => ~installed')
  BY <1>3, <1>5
<1>7. QED
  BY <1>6 DEF InstallInv, OneInstallation

-----------------------------------------------------------------------------
(***************************************************************************)
(* Nothing without consent.                                                *)
(***************************************************************************)
\* Consent is given by the user in a dialog, and never taken back.
LEMMA ConsentGrows ==
    ASSUME TypeOK, SocketInv, [Next]_vars
    PROVE  consented \subseteq consented'
<1>1. ASSUME NEW r \in Requests, RequestStep(r)
      PROVE  consented' = consented
  BY <1>1 DEF RequestStep, Begin, Cancel, GiveUp, SendRequest, SendCancel, ReadReply, Disconnected,
     PortalStart, PortalUpdates, PortalEnds, Answer, elsewhere, helperSide, histories
<1>2. ASSUME NEW s \in Sessions, JobStep(s)
      PROVE  consented \subseteq consented'
  BY <1>2, HostFacts
<1>3. ASSUME NEW s \in Sessions, HelperStep(s) \/ Shutdown(s)
      PROVE  consented' = consented
  BY <1>3 DEF HelperStep, ReadCancel, ReadRequest, StartJob, ReadEnd, HelperExits, Shutdown,
              helperSide, histories
<1>4. HostToggles \/ UNCHANGED vars => consented' = consented
  BY DEF HostToggles, vars, histories
<1>5. QED
  BY <1>1, <1>2, <1>3, <1>4 DEF Next

\* The answer that a request reads is its own.
LEMMA AnswerIsMine ==
    ASSUME TypeOK, SocketInv, NEW r \in Requests, ReadReply(r)
    PROVE  /\ Head(toWorker[SessionOf[r]]) = toWorker[SessionOf[r]][1]
           /\ 1 \in DOMAIN toWorker[SessionOf[r]]
           /\ toWorker[SessionOf[r]][1].req = r
<1> DEFINE s == SessionOf[r]
<1>1. s \in Sessions /\ r # Absent
  BY RequestAssumption
<1>2. pc[r] = "waiting" /\ toWorker[s] # <<>> /\ toWorker[s] \in Seq(Answers)
  BY <1>1 DEF ReadReply, TypeOK, Answers
<1>3. Head(toWorker[s]) = toWorker[s][1] /\ 1 \in DOMAIN toWorker[s]
  BY <1>2, TailFacts
<1>4. lock[s] = r
  BY <1>2 DEF SocketInv, LockInv
<1>5. lock[s] \in {Absent, toWorker[s][1].req}
  BY <1>1, <1>3 DEF SocketInv, SessionInv, AnswersInv
<1>6. QED
  BY <1>1, <1>3, <1>4, <1>5

\* A request goes to the portal, and its fix is fetched, with the consent for its package.
LEMMA PortalStep ==
    ASSUME TypeOK, SocketInv, ConsentInv, FixNeedsConsent, [Next]_vars
    PROVE  /\ FixNeedsConsent'
           /\ \A r \in Requests : pc'[r] \in {"portal", "asking"} => Granted(r)'
<1>1. consented \subseteq consented'
  BY ConsentGrows
<1>2. \A r \in Requests : Granted(r) => Granted(r)'
  BY <1>1 DEF Granted
<1>3. \A r \in Requests : (fix[r] => Granted(r)) /\ (pc[r] \in {"portal", "asking"} => Granted(r))
  BY DEF FixNeedsConsent, ConsentInv, Granted
<1> DEFINE Goal == \A r \in Requests : /\ fix'[r] => Granted(r)
                                       /\ pc'[r] \in {"portal", "asking"} => Granted(r)
<1>4. ASSUME NEW r \in Requests, RequestStep(r)
      PROVE  Goal
  <2>1. CASE Begin(r) \/ GiveUp(r) \/ PortalStart(r) \/ PortalEnds(r) \/ Answer(r)
    <3>1. /\ UNCHANGED fix
          /\ pc'[r] \in {"portal", "asking"} => pc[r] \in {"portal", "asking"}
          /\ \A q \in Requests \ {r} : pc'[q] = pc[q]
      BY <2>1 DEF Begin, GiveUp, PortalStart, PortalEnds, Answer, Goto, TypeOK
    <3>2. QED
      BY <1>3, <3>1
  <2>2. CASE Cancel(r) \/ SendCancel(r)
    BY <1>3, <2>2 DEF Cancel, SendCancel
  <2>3. CASE SendRequest(r) \/ Disconnected(r)
    <3>1. /\ UNCHANGED fix /\ pc'[r] \in {"answer", "waiting"}
          /\ \A q \in Requests \ {r} : pc'[q] = pc[q]
      BY <2>3 DEF SendRequest, Disconnected, Goto, TypeOK
    <3>2. QED
      BY <1>3, <3>1
  <2>4. CASE ReadReply(r)
    <3> DEFINE s == SessionOf[r]
    <3>1. s \in Sessions
      BY RequestAssumption
    <3>2. toWorker[s][1].ready => Granted(r)
      BY <2>4, <3>1, AnswerIsMine DEF ConsentInv
    <3>3. /\ UNCHANGED fix
          /\ pc'[r] = "portal" => toWorker[s][1].ready
          /\ pc'[r] \in {"portal", "answer"} /\ \A q \in Requests \ {r} : pc'[q] = pc[q]
      BY <2>4, AnswerIsMine DEF ReadReply, Goto, TypeOK
    <3>4. QED
      BY <1>3, <3>2, <3>3
  <2>5. CASE PortalUpdates(r)
    <3>1. /\ pc[r] = "asking" /\ pc'[r] = "answer"
          /\ \A q \in Requests \ {r} : pc'[q] = pc[q] /\ fix'[q] = fix[q]
      BY <2>5 DEF PortalUpdates, Goto, TypeOK
    <3>2. QED
      BY <1>3, <3>1
  <2>6. QED
    BY <1>4, <2>1, <2>2, <2>3, <2>4, <2>5 DEF RequestStep
<1>5. ASSUME UNCHANGED <<pc, fix>>
      PROVE  Goal
  BY <1>3, <1>5
<1>6. ASSUME NEW s \in Sessions, JobStep(s)
      PROVE  UNCHANGED <<pc, fix>>
  BY <1>6, JobFacts DEF SocketInv, SessionInv, JobEffect, besideJob, workerVars
<1>7. ASSUME NEW s \in Sessions, HelperStep(s) \/ Shutdown(s)
      PROVE  UNCHANGED <<pc, fix>>
  BY <1>7 DEF HelperStep, ReadCancel, ReadRequest, StartJob, ReadEnd, HelperExits, Shutdown,
              workerVars
<1>8. HostToggles \/ UNCHANGED vars => UNCHANGED <<pc, fix>>
  BY DEF HostToggles, vars, workerVars
<1>9. Goal
  BY <1>4, <1>5, <1>6, <1>7, <1>8 DEF Next
<1> HIDE DEF Goal
<1>10. \A r \in Requests : /\ fix'[r] => Granted(r)'
                           /\ pc'[r] \in {"portal", "asking"} => Granted(r)'
  BY <1>2, <1>9 DEF Goal
<1>11. QED
  BY <1>10 DEF FixNeedsConsent, Granted

\* A job is past its dialog with the consent for its request.
LEMMA PermittedStep ==
    ASSUME TypeOK, SocketInv, ConsentInv, [Next]_vars, NEW t \in Sessions,
           job'[t] # Absent, job'[t].at \in Permitted
    PROVE  job'[t].req \in consented'
<1>1. consented \subseteq consented' /\ SessionInv(t)
  BY ConsentGrows DEF SocketInv
<1>2. job[t] # Absent /\ job[t].at \in Permitted => job[t].req \in consented
  BY DEF ConsentInv
<1>3. CASE JobStep(t)
  <2>1. Permitting(t) /\ job[t] # Absent /\ job'[t].req = job[t].req
    BY <1>1, <1>3, JobFacts, JobDetails DEF SessionInv, JobEffect, Busy
  <2>2. QED
    BY <1>1, <1>2, <2>1 DEF Permitting
<1>4. CASE ~JobStep(t)
  <2>1. job'[t].at # "begin"
    BY DEF Permitted
  <2>2. job[t] # Absent /\ job'[t].req = job[t].req /\ job'[t].at = job[t].at
    BY <1>1, <1>4, <2>1, JobsElsewhere, HelperJob
  <2>3. QED
    BY <1>1, <1>2, <2>2
<1>5. QED
  BY <1>3, <1>4

\* An allowance is remembered for the package that the user allowed.
LEMMA AllowanceStep ==
    ASSUME TypeOK, SocketInv, ConsentInv, [Next]_vars, NEW t \in Sessions, NEW p \in Packages,
           decisions'[t][p] = "allow"
    PROVE  \E q \in consented' : SessionOf[q] = t /\ PackageOf[q] = p
<1>1. consented \subseteq consented' /\ SessionInv(t)
  BY ConsentGrows DEF SocketInv
<1>2. CASE decisions[t][p] = "allow"
  BY <1>1, <1>2 DEF ConsentInv
<1>3. CASE decisions[t][p] # "allow"
  <2>1. JobStep(t)
    BY <1>3, DecisionsElsewhere
  <2>2. PICK d \in {"allow", "deny"} : Decide(t, d) /\ (d = "allow" => At(t, "final"))
    BY <1>1, <1>3, <2>1, JobDetails DEF SessionInv, Deciding
  <2>3. job[t] # Absent /\ SessionOf[job[t].req] = t
    BY <1>1, <2>1, JobFacts DEF SessionInv, JobEffect, Busy, AnswersInv
  <2>4. p = PackageOf[job[t].req] /\ d = "allow"
    BY <1>3, <2>2 DEF Decide, TypeOK
  <2>5. job[t].req \in consented
    BY <2>2, <2>3, <2>4 DEF ConsentInv, Permitted, At
  <2>6. QED
    BY <1>1, <2>3, <2>4, <2>5
<1>4. QED
  BY <1>2, <1>3

\* Answers are only written by the job of their session.
LEMMA AnswersElsewhere ==
    ASSUME TypeOK, SocketInv, [Next]_vars, NEW t \in Sessions
    PROVE  JobStep(t) \/ toWorker'[t] = toWorker[t] \/ toWorker'[t] = <<>>
<1>1. ASSUME NEW r \in Requests, RequestStep(r)
      PROVE  toWorker'[t] = toWorker[t] \/ toWorker'[t] = <<>>
  <2>1. CASE ReadReply(r) /\ SessionOf[r] = t
    <3>1. /\ toWorker[t] # <<>> /\ toWorker[t] \in Seq(Answers) /\ Len(toWorker[t]) <= 1
          /\ toWorker'[t] = Tail(toWorker[t])
      BY <2>1 DEF ReadReply, TypeOK, Answers
    <3>2. /\ Tail(toWorker[t]) \in Seq(Answers) /\ Len(toWorker[t]) \in Nat
          /\ Len(toWorker[t]) # 0 /\ Len(Tail(toWorker[t])) = Len(toWorker[t]) - 1
      BY <3>1, TailFacts
    <3>3. \A k \in Nat : k <= 1 /\ k # 0 => k - 1 = 0
      OBVIOUS
    <3>4. Len(Tail(toWorker[t])) = 0
      BY <3>1, <3>2, <3>3
    <3>5. QED
      BY <3>1, <3>2, <3>4, EmptySeq
  <2>2. CASE ReadReply(r) /\ SessionOf[r] # t
    BY <2>2 DEF ReadReply, TypeOK
  <2>3. CASE ~ReadReply(r)
    BY <1>1, <2>3 DEF RequestStep, Begin, Cancel, GiveUp, SendRequest, SendCancel, Disconnected,
       PortalStart, PortalUpdates, PortalEnds, Answer, elsewhere, socketVars
  <2>4. QED
    BY <2>1, <2>2, <2>3
<1>2. ASSUME NEW s \in Sessions, JobStep(s), s # t
      PROVE  toWorker'[t] = toWorker[t]
  BY <1>2, JobElsewhere DEF SocketInv, Untouched
<1>3. ASSUME NEW s \in Sessions, HelperStep(s) \/ Shutdown(s)
      PROVE  toWorker'[t] = toWorker[t]
  BY <1>3 DEF HelperStep, ReadCancel, ReadRequest, StartJob, ReadEnd, HelperExits, Shutdown,
              socketVars
<1>4. HostToggles \/ UNCHANGED vars => toWorker'[t] = toWorker[t]
  BY DEF HostToggles, vars, socketVars
<1>5. QED
  BY <1>1, <1>2, <1>3, <1>4 DEF Next

\* A job answers ready to a request whose package was allowed.
LEMMA ReadyJobStep ==
    ASSUME TypeOK, SocketInv, ConsentInv, [Next]_vars, NEW t \in Sessions,
           At(t, "send")', job'[t].ready
    PROVE  Granted(job[t].req)'
<1>1. consented \subseteq consented' /\ SessionInv(t)
  BY ConsentGrows DEF SocketInv
<1>2. ASSUME NEW r, Granted(r)
      PROVE  \E q \in consented' : SessionOf[q] = SessionOf[r] /\ PackageOf[q] = PackageOf[r]
  BY <1>1, <1>2 DEF Granted
<1>3. job'[t] # Absent /\ job'[t].at = "send"
  BY DEF At
<1>4. ASSUME job[t] # Absent PROVE job[t].req \in Requests
  BY <1>4 DEF TypeOK, Job
<1>5. CASE JobStep(t)
  <2>1. JobEffect(t) /\ Readying(t)
    BY <1>1, <1>5, JobFacts, JobDetails DEF SessionInv
  <2>2. At(t, "final") \/ Decision(t) = "allow"
    BY <1>3, <2>1 DEF Readying
  <2>3. /\ job[t] # Absent /\ job[t].req \in Requests /\ SessionOf[job[t].req] = t
        /\ job'[t].req = job[t].req
    BY <1>1, <1>4, <2>1 DEF JobEffect, Busy, SessionInv, AnswersInv
  <2>4. Granted(job[t].req)
    <3>1. CASE At(t, "final")
      BY <2>3, <3>1 DEF ConsentInv, Permitted, At, Granted
    <3>2. CASE Decision(t) = "allow"
      <4>1. PackageOf[job[t].req] \in Packages
        BY <2>3, RequestAssumption
      <4>2. QED
        BY <2>3, <3>2, <4>1 DEF ConsentInv, Decision, Granted
    <3>3. QED
      BY <2>2, <3>1, <3>2
  <2>5. QED
    BY <1>2, <2>3, <2>4 DEF Granted
<1>6. CASE ~JobStep(t)
  <2>1. /\ job[t] # Absent /\ job'[t].req = job[t].req /\ job'[t].at = job[t].at
        /\ job'[t].ready = job[t].ready
    BY <1>1, <1>3, <1>6, JobsElsewhere, HelperJob
  <2>2. Granted(job[t].req)
    BY <1>3, <2>1 DEF ConsentInv, At
  <2>3. QED
    BY <1>2, <2>1, <2>2 DEF Granted
<1>7. QED
  BY <1>5, <1>6

\* Ready is sent to a request whose package was allowed.
LEMMA ReadyStep ==
    ASSUME TypeOK, SocketInv, ConsentInv, [Next]_vars, NEW t \in Sessions,
           NEW i \in DOMAIN toWorker'[t], toWorker'[t][i].ready
    PROVE  Granted(toWorker[t][i].req)'
<1>1. consented \subseteq consented' /\ SessionInv(t)
  BY ConsentGrows DEF SocketInv
<1>2. CASE toWorker'[t] = toWorker[t]
  <2>1. Granted(toWorker[t][i].req)
    BY <1>2 DEF ConsentInv
  <2>2. QED
    BY <1>1, <1>2, <2>1 DEF Granted
<1>3. CASE toWorker'[t] # toWorker[t]
  <2>1. JobStep(t)
    <3>1. toWorker'[t] # <<>>
      OBVIOUS
    <3>2. QED
      BY <1>3, <3>1, AnswersElsewhere
  <2>2. JobEffect(t)
    BY <1>1, <2>1, JobFacts DEF SessionInv
  <2>3. /\ i = 1 /\ toWorker'[t][1].req = job[t].req /\ toWorker'[t][1].ready = job[t].ready
        /\ At(t, "send")
    BY <1>3, <2>2 DEF JobEffect
  <2>4. Granted(job[t].req)
    BY <2>3 DEF ConsentInv
  <2>5. QED
    BY <1>1, <2>3, <2>4 DEF Granted
<1>4. QED
  BY <1>2, <1>3

\* Every step keeps what was done to what was consented.
LEMMA ConsentStep ==
    ASSUME TypeOK, SocketInv, ConsentInv, FixNeedsConsent, [Next]_vars
    PROVE  ConsentInv' /\ FixNeedsConsent'
BY PortalStep, PermittedStep, AllowanceStep, ReadyJobStep, ReadyStep DEF ConsentInv

-----------------------------------------------------------------------------
(***************************************************************************)
(* Ready, and what the host said.                                          *)
(***************************************************************************)
\* Only a new job forgets that the host offered location; a running job notices it.
LEMMA HostSeen ==
    ASSUME TypeOK, SocketInv, [Next]_vars, NEW t \in Sessions, ~StartJob(t)
    PROVE  /\ wasOn[t] => wasOn'[t]
           /\ \/ UNCHANGED <<installed, enabled>>
              \/ Busy(t) /\ installed' /\ enabled' => wasOn'[t]
<1> DEFINE Seen == /\ wasOn[t] => wasOn'[t]
                   /\ \/ UNCHANGED <<installed, enabled>>
                      \/ Busy(t) /\ installed' /\ enabled' => wasOn'[t]
<1>1. CASE UNCHANGED <<wasOn, installed, enabled>>
  BY <1>1
<1>2. ASSUME NEW a \in BOOLEAN, NEW e \in BOOLEAN, HostBecomes(a, e)
      PROVE  Seen
  <2>1. installed' = a /\ enabled' = e /\ (wasOn[t] => wasOn'[t])
        /\ (Busy(t) /\ a /\ e => wasOn'[t])
    BY <1>2, HostBecomesFacts
  <2>2. Busy(t) /\ installed' /\ enabled' => wasOn'[t]
    BY <2>1
  <2> HIDE DEF Busy
  <2>3. QED
    BY Zenon, <2>1, <2>2
<1>3. ASSUME NEW r \in Requests, RequestStep(r)
      PROVE  UNCHANGED <<wasOn, installed, enabled>>
  BY <1>3 DEF RequestStep, Begin, Cancel, GiveUp, SendRequest, SendCancel, ReadReply, Disconnected,
     PortalStart, PortalUpdates, PortalEnds, Answer, elsewhere, helperSide, hostVars, histories
<1>4. ASSUME NEW s \in Sessions, JobStep(s)
      PROVE  Seen
  <2>1. CASE Transact(s) \/ Enable(s)
    <3>1. \/ UNCHANGED <<wasOn, installed, enabled>>
          \/ HostBecomes(TRUE, enabled) \/ HostBecomes(installed, TRUE)
      BY <2>1 DEF Transact, Enable
    <3>2. installed \in BOOLEAN /\ enabled \in BOOLEAN /\ TRUE \in BOOLEAN
      BY DEF TypeOK
    <3>3. QED
      BY <1>1, <1>2, <3>1, <3>2
  <2>2. CASE ~(Transact(s) \/ Enable(s))
    <3>1. UNCHANGED <<wasOn, installed, enabled>>
      BY <1>4, <2>2 DEF JobStep, Remembered, Look, LookEnabled, UserAnswers, CloseDialog, Denied,
         Allowed, TakeInstallLock, RecheckInstalled, Installed, Finish, SendReply, hostVars, histories
    <3>2. QED
      BY <1>1, <3>1
  <2>3. QED
    BY <2>1, <2>2
<1>5. ASSUME NEW s \in Sessions, HelperStep(s)
      PROVE  Seen
  <2>1. CASE StartJob(s)
    <3>1. s # t /\ wasOn'[t] = wasOn[t] /\ UNCHANGED <<installed, enabled>>
      BY <2>1 DEF StartJob, TypeOK, hostVars
    <3>2. QED
      BY <3>1
  <2>2. CASE ~StartJob(s)
    BY <1>1, <1>5, <2>2 DEF HelperStep, ReadCancel, ReadRequest, ReadEnd, HelperExits, hostVars,
       histories
  <2>3. QED
    BY <2>1, <2>2
<1>6. ASSUME NEW s \in Sessions, Shutdown(s)
      PROVE  UNCHANGED <<wasOn, installed, enabled>>
  BY <1>6 DEF Shutdown, helperSide, hostVars, histories
<1>7. CASE HostToggles
  <2>1. installed \in BOOLEAN /\ (~enabled) \in BOOLEAN
    BY DEF TypeOK
  <2>2. HostBecomes(installed, ~enabled)
    BY <1>7 DEF HostToggles
  <2> HIDE DEF Seen
  <2>3. Seen
    BY ZenonT(30), <1>2, <2>1, <2>2
  <2>4. QED
    BY <2>3 DEF Seen
<1>8. UNCHANGED vars => UNCHANGED <<wasOn, installed, enabled>>
  BY DEF vars, hostVars, histories
<1>9. QED
  BY <1>1, <1>3, <1>4, <1>5, <1>6, <1>7, <1>8 DEF Next

\* A job that runs ran before, unless it has just been started.
LEMMA RanBefore ==
    ASSUME TypeOK, SocketInv, [Next]_vars, NEW t \in Sessions, ~StartJob(t), Busy(t)'
    PROVE  Busy(t)
<1>1. SessionInv(t) /\ job'[t] # Absent /\ job'[t].at # "ended"
  BY DEF SocketInv, Busy
<1>2. CASE JobStep(t)
  BY <1>1, <1>2, JobFacts DEF SessionInv, JobEffect
<1>3. CASE HelperStep(t)
  BY <1>1, <1>3, HelperJob DEF Busy
<1>4. CASE job'[t] = job[t]
  BY <1>1, <1>4 DEF Busy
<1>5. QED
  BY <1>2, <1>3, <1>4, JobsElsewhere

\* A running job keeps having seen what the host says now.
LEMMA SeenStep ==
    ASSUME TypeOK, SocketInv, HostInv, [Next]_vars, NEW t \in Sessions,
           Busy(t)', installed', enabled'
    PROVE  wasOn'[t]
<1>1. CASE StartJob(t)
  BY <1>1 DEF StartJob, TypeOK, hostVars
<1>2. CASE ~StartJob(t)
  <2>1. Busy(t)
    BY <1>2, RanBefore
  <2>2. installed /\ enabled => wasOn[t]
    BY <2>1 DEF HostInv
  <2>3. QED
    BY <1>2, <2>1, <2>2, HostSeen
<1>3. QED
  BY <1>1, <1>2

\* The queue has no Request while an answer waits: the request that would send it waits
\* for the mutex, or for this answer.
LEMMA UnaskedStep ==
    ASSUME TypeOK, SocketInv, HostInv, [Next]_vars, NEW t \in Sessions, toWorker'[t] # <<>>
    PROVE  Unasked(t)'
<1>1. SessionInv(t) /\ (toWorker[t] # <<>> => Unasked(t))
  BY DEF SocketInv, HostInv
<1>2. CASE JobStep(t)
  <2>1. JobEffect(t) /\ toHelper'[t] = toHelper[t]
    BY <1>1, <1>2, JobFacts DEF SessionInv, JobEffect, besideJob
  <2>2. CASE toWorker[t] # <<>>
    BY <1>1, <2>1, <2>2 DEF Unasked, Asks
  <2>3. CASE toWorker[t] = <<>>
    <3>1. ~closed[t] /\ Busy(t)
      BY <2>1, <2>3 DEF JobEffect
    <3>2. Unasked(t)
      BY <1>1, <3>1 DEF SessionInv, ExchangeInv
    <3>3. QED
      BY <2>1, <3>2 DEF Unasked, Asks
  <2>4. QED
    BY <2>2, <2>3
<1>3. CASE ~JobStep(t)
  <2>1. toWorker'[t] = toWorker[t] /\ Unasked(t)
    BY <1>1, <1>3, AnswersElsewhere
  <2>2. ASSUME NEW r \in Requests, RequestStep(r)
        PROVE  Unasked(t)'
    <3>1. CASE SessionOf[r] = t /\ SendRequest(r)
      <4>1. closed[t]
        <5>1. lock[t] = Absent
          BY <3>1 DEF SendRequest
        <5>2. QED
          BY <1>1, <2>1, <5>1 DEF SessionInv, ExchangeInv
      <4>2. toHelper' = toHelper
        BY <3>1, <4>1 DEF SendRequest
      <4>3. QED
        BY <2>1, <4>2 DEF Unasked, Asks
    <3>2. CASE SessionOf[r] = t /\ SendCancel(r)
      <4>1. /\ Len(toHelper[t]) \in Nat /\ DOMAIN toHelper[t] = 1 .. Len(toHelper[t])
            /\ DOMAIN toHelper'[t] = 1 .. Len(toHelper[t]) + 1
            /\ \A i \in 1 .. Len(toHelper[t]) : toHelper'[t][i] = toHelper[t][i]
            /\ toHelper'[t][Len(toHelper[t]) + 1].kind = "Cancel"
        BY <3>2, SendFacts DEF SendCancel
      <4>2. PICK n \in Nat : n = Len(toHelper[t])
        BY <4>1
      <4>3. \A i \in 1 .. n + 1 : i \in 1 .. n \/ i = n + 1
        OBVIOUS
      <4>4. QED
        BY <2>1, <4>1, <4>2, <4>3 DEF Unasked, Asks
    <3>3. CASE SessionOf[r] = t /\ (ReadReply(r) \/ Disconnected(r))
      BY <2>1, <3>3 DEF ReadReply, Disconnected, Unasked, Asks
    <3>4. CASE Untouched(t)
      BY <2>1, <3>4 DEF Untouched, Unasked, Asks
    <3>5. QED
      BY <2>2, <3>1, <3>2, <3>3, <3>4, RequestElsewhere
  <2>3. CASE HelperStep(t)
    <3>1. CASE ReadCancel(t) \/ StartJob(t)
      <4>1. toHelper[t] # <<>>
        BY <1>1, <3>1 DEF ReadCancel, StartJob, SessionInv, MainInv
      <4>2. PICK n \in Nat : /\ n # 0 /\ DOMAIN toHelper[t] = 1 .. n
                             /\ DOMAIN toHelper'[t] = 1 .. n - 1
                             /\ \A i \in 1 .. n - 1 : toHelper'[t][i] = toHelper[t][i + 1]
        BY <3>1, <4>1, PopFacts DEF ReadCancel, StartJob
      <4>3. \A i \in 1 .. n - 1 : i + 1 \in 1 .. n
        BY <4>2
      <4>4. QED
        BY <2>1, <4>2, <4>3 DEF Unasked, Asks
    <3>2. CASE ReadRequest(t) \/ ReadEnd(t) \/ HelperExits(t)
      BY <2>1, <3>2 DEF ReadRequest, ReadEnd, HelperExits, socketVars, Unasked, Asks
    <3>3. QED
      BY <2>3, <3>1, <3>2 DEF HelperStep
  <2>4. ASSUME NEW s \in Sessions, s # t, JobStep(s) \/ HelperStep(s) \/ Shutdown(s)
        PROVE  Unasked(t)'
    <3>1. SessionInv(s)
      BY DEF SocketInv
    <3>2. Untouched(t)
      BY <2>4, <3>1, JobElsewhere, HelperElsewhere
    <3>3. QED
      BY <2>1, <3>2 DEF Untouched, Unasked, Asks
  <2>5. CASE Shutdown(t)
    BY <2>1, <2>5 DEF Shutdown, Unasked, Asks
  <2>6. CASE HostToggles \/ UNCHANGED vars
    BY <2>1, <2>6 DEF HostToggles, vars, socketVars, Unasked, Asks
  <2>7. QED
    BY <1>3, <2>2, <2>3, <2>4, <2>5, <2>6 DEF Next
<1>4. QED
  BY <1>2, <1>3

\* A job whose answer is ready has seen the host offer location.
LEMMA ReadySeen ==
    ASSUME TypeOK, SocketInv, HostInv, ReadyMeansEnabled, [Next]_vars, NEW t \in Sessions,
           At(t, "send")', job'[t].ready
    PROVE  wasOn'[t]
<1>1. SessionInv(t) /\ job'[t] # Absent /\ job'[t].at = "send"
  BY DEF SocketInv, At
<1>2. CASE JobStep(t)
  <2>1. JobEffect(t) /\ Readying(t)
    BY <1>1, <1>2, JobFacts, JobDetails DEF SessionInv
  <2>2. Busy(t) /\ installed /\ enabled
    BY <1>1, <2>1 DEF JobEffect, Readying
  <2>3. wasOn[t] /\ ~StartJob(t)
    BY <2>2 DEF HostInv, StartJob
  <2>4. QED
    BY <2>3, HostSeen
<1>3. CASE ~JobStep(t)
  <2>1. ~StartJob(t) /\ job[t] # Absent /\ job[t].at = "send" /\ job[t].ready
    <3>1. CASE HelperStep(t)
      BY <1>1, <3>1, HelperJob DEF StartJob, Busy
    <3>2. CASE ~HelperStep(t)
      BY <1>1, <1>3, <3>2, JobsElsewhere DEF HelperStep
    <3>3. QED
      BY <3>1, <3>2
  <2>2. wasOn[t]
    BY <2>1 DEF ReadyMeansEnabled, At
  <2>3. QED
    BY <2>1, <2>2, HostSeen
<1>4. QED
  BY <1>2, <1>3

\* An answer that is ready was sent by a job that had seen it.
LEMMA AnswerSeen ==
    ASSUME TypeOK, SocketInv, HostInv, ReadyMeansEnabled, [Next]_vars, NEW t \in Sessions,
           NEW i \in DOMAIN toWorker'[t], toWorker'[t][i].ready
    PROVE  wasOn'[t]
<1>1. SessionInv(t) /\ toWorker'[t] # <<>>
  BY DEF SocketInv
<1>2. CASE toWorker'[t] = toWorker[t]
  <2>1. wasOn[t]
    BY <1>2 DEF ReadyMeansEnabled
  <2>2. ~StartJob(t)
    <3>1. Unasked(t)
      BY <1>1, <1>2 DEF HostInv
    <3>2. SUFFICES ASSUME StartJob(t) PROVE FALSE
      OBVIOUS
    <3>3. toHelper[t] # <<>> /\ Asks(t, 1) /\ toHelper[t] \in Seq(Message)
      BY <1>1, <3>2 DEF StartJob, SessionInv, MainInv, TypeOK
    <3>4. 1 \in DOMAIN toHelper[t]
      BY <3>3, TailFacts
    <3>5. QED
      BY <3>1, <3>3, <3>4 DEF Unasked
  <2>3. QED
    BY <2>1, <2>2, HostSeen
<1>3. CASE toWorker'[t] # toWorker[t]
  <2>1. JobStep(t)
    BY <1>1, <1>3, AnswersElsewhere
  <2>2. JobEffect(t)
    BY <1>1, <2>1, JobFacts DEF SessionInv
  <2>3. At(t, "send") /\ job[t].ready /\ Busy(t)
    BY <1>3, <2>2 DEF JobEffect
  <2>4. wasOn[t] /\ ~StartJob(t)
    BY <2>3 DEF ReadyMeansEnabled, StartJob
  <2>5. QED
    BY <2>4, HostSeen
<1>4. QED
  BY <1>2, <1>3

\* Every step keeps what ready means.
LEMMA HostStep ==
    ASSUME TypeOK, SocketInv, HostInv, ReadyMeansEnabled, [Next]_vars
    PROVE  HostInv' /\ ReadyMeansEnabled'
BY SeenStep, UnaskedStep, ReadySeen, AnswerSeen DEF HostInv, ReadyMeansEnabled

-----------------------------------------------------------------------------
(***************************************************************************)
(* The theorems.                                                           *)
(***************************************************************************)
\* The initial state satisfies the invariant.
LEMMA InvInit == Init => IInv
<1> SUFFICES ASSUME Init PROVE IInv
  OBVIOUS
<1>1. TypeOK
  BY TypeInit
<1>2. /\ \A s \in Sessions : /\ toHelper[s] = <<>> /\ toWorker[s] = <<>>
                            /\ job[s] = Absent /\ lock[s] = Absent /\ main[s] = "serving"
      /\ \A r \in Requests : pc[r] = "none" /\ ~fix[r]
      /\ \A s \in Sessions, p \in Packages : decisions[s][p] = "unknown"
  BY DEF Init
<1>3. \A s \in Sessions : DOMAIN toHelper[s] = {} /\ DOMAIN toWorker[s] = {}
  BY <1>2
<1>4. SocketInv
  BY <1>2, <1>3 DEF SocketInv, LockInv, SessionInv, MainInv, ExchangeInv, QueueInv, AnswersInv,
                    Unasked, Busy
<1>5. /\ CancelHitsItsOwnRequest /\ NobodyIsAskedTwice /\ InstallInv /\ OneInstallation
      /\ FixNeedsConsent
  BY <1>2 DEF CancelHitsItsOwnRequest, NobodyIsAskedTwice, InstallInv, OneInstallation,
              FixNeedsConsent, At
<1>6. ConsentInv
  BY <1>2, <1>3 DEF ConsentInv, At
<1>7. HostInv /\ ReadyMeansEnabled
  BY <1>2, <1>3 DEF HostInv, ReadyMeansEnabled, At, Busy
<1>8. QED
  BY <1>1, <1>4, <1>5, <1>6, <1>7 DEF IInv

\* Every step keeps the invariant.
LEMMA InvStep == IInv /\ [Next]_vars => IInv'
BY TypeStep, SocketStep, CancelStep, AskedStep, InstallStep, ConsentStep, HostStep DEF IInv

\* The invariant of the exchange between worker and helper (location.rs, location_setup.rs):
\* where a request's exchange is, and what its answer and its consent rest on.
THEOREM Invariance == Spec => []IInv
BY InvInit, InvStep, PTL DEF Spec

\* The variables keep their types; in particular no socket ever holds two answers.
THEOREM TypeCorrect == Spec => []TypeOK
<1>1. IInv => TypeOK
  BY DEF IInv
<1>2. QED
  BY <1>1, Invariance, PTL

\* The answer a request reads on the shared socket (location_setup.rs, HostSetup::prepare),
\* the cancellation that reaches a job and the remembered decision are those of the same
\* request, for any number of requests and sessions, whenever they are canceled.
THEOREM AnswersKeepToTheirRequestAlways == Spec => []AnswersKeepToTheirRequest
<1>1. IInv => AnswersKeepToTheirRequest
  <2> SUFFICES ASSUME IInv PROVE AnswersKeepToTheirRequest
    OBVIOUS
  <2>1. ASSUME NEW s \in Sessions, NEW i \in DOMAIN toWorker[s], ~closed[s]
        PROVE  toWorker[s][i].req = lock[s]
    <3>1. ExchangeInv(s) /\ AnswersInv(s)
      BY DEF IInv, SocketInv, SessionInv
    <3>2. toWorker[s] # <<>>
      BY <2>1
    <3>3. lock[s] # Absent
      BY <2>1, <3>1, <3>2 DEF ExchangeInv
    <3>4. QED
      BY <2>1, <3>1, <3>3 DEF AnswersInv
  <2>2. RepliesMatch
    BY <2>1 DEF RepliesMatch
  <2>3. QED
    BY <2>2 DEF IInv, AnswersKeepToTheirRequest
<1>2. QED
  BY <1>1, Invariance, PTL

\* The package transaction (location_setup.rs, install) runs in one session at a time, and
\* never when the package is there, although every session decides on its own to install.
THEOREM OneInstallationAlways == Spec => []OneInstallation
<1>1. IInv => OneInstallation
  BY DEF IInv
<1>2. QED
  BY <1>1, Invariance, PTL

\* Location is switched on only by a job past its dialog, and not if it was canceled.
LEMMA EnablingStep ==
    ASSUME IInv, [Next]_vars, NEW s \in Sessions, ~At(s, "enable"), At(s, "enable")'
    PROVE  job[s].req \in consented /\ ~job[s].canceled
<1>1. TypeOK /\ SocketInv /\ SessionInv(s) /\ ConsentInv
  BY DEF IInv, SocketInv
<1>2. JobStep(s)
  <2>1. job'[s] # Absent /\ job'[s].at = "enable" /\ job'[s] # job[s]
    BY DEF At
  <2>2. HelperStep(s) => At(s, "enable") \/ job'[s].at = "begin"
    BY <1>1, <2>1, HelperJob DEF At
  <2>3. QED
    BY <1>1, <2>1, <2>2, JobsElsewhere
<1>3. At(s, "installed") /\ ~job[s].canceled
  BY <1>1, <1>2, JobDetails DEF SessionInv, Permitting
<1>4. QED
  BY <1>1, <1>3 DEF ConsentInv, Permitted, At

\* A fix is fetched (portal.rs, location) and location is switched on (location_setup.rs,
\* prepare) only with the user's consent, and ready is only answered by a job during which
\* the host had GeoClue installed and location enabled.
THEOREM ConsentRulesHold == Spec => ConsentRules
<1>1. IInv' => [FixNeedsConsent' /\ ReadyMeansEnabled']_vars
  BY DEF IInv
<1>2. IInv /\ [Next]_vars =>
        [\A s \in Sessions : (~At(s, "enable") /\ At(s, "enable")') =>
             job[s].req \in consented /\ ~job[s].canceled]_vars
  BY EnablingStep
<1>3. QED
  BY <1>1, <1>2, Invariance, PTL DEF Spec, ConsentRules, EnablingNeedsConsent
=============================================================================
