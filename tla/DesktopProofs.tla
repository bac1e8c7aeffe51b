--------------------------- MODULE DesktopProofs ---------------------------
(***************************************************************************)
(* Proofs about the desktop: an app that asks for a vsync is sent one      *)
(* (VsyncDelivery), every window learns the size of the desktop's          *)
(* (WindowLayout), no buffer is lost or overwritten on the screen          *)
(* (FrameBuffers, which implements BufferOwnership), no activity runs      *)
(* twice (ActivityTask), alarms and intents keep their word (Alarms), and  *)
(* the picture is made of windows and frames (WindowComposition); for any  *)
(* windows, queues, buffers, slots and apps, and any number of requests,   *)
(* sizes, frames, starts and alarms.  At the end Desktop has all of them   *)
(* side by side.                                                           *)
(***************************************************************************)
EXTENDS Desktop, SequenceFacts

(***************************************************************************)
(* VsyncDelivery.                                                          *)
(***************************************************************************)

VsyncInv == VsyncTypeOK /\ RequestsAreAnswered

\* No step of the app or of the ticking thread loses a request.
LEMMA VsyncStep ==
    ASSUME VsyncInv, [VsyncNext]_vsyncVars
    PROVE  VsyncInv'
<1> USE VsyncAssumption DEF VsyncInv, VsyncTypeOK, RequestsAreAnswered
<1>1. CASE SetVsyncRate
  BY <1>1 DEF SetVsyncRate
<1>2. CASE RequestNextVsync
  BY <1>2 DEF RequestNextVsync
<1>3. CASE ReadEvent
  BY <1>3 DEF ReadEvent
<1>4. CASE Disconnect
  BY <1>4 DEF Disconnect
<1>5. CASE Wake
  BY <1>5 DEF Wake
<1>6. CASE LoadRate
  BY <1>6 DEF LoadRate
<1>7. CASE SwapRequest
  <2>1. VsyncTypeOK'
    BY <1>7 DEF SwapRequest
  <2>2. CASE request
    BY <1>7, <2>1, <2>2 DEF SwapRequest
  <2>3. CASE ~request
    BY <1>7, <2>1, <2>3 DEF SwapRequest
  <2>4. QED
    BY <2>2, <2>3
<1>8. CASE WriteVsync
  <2>1. VsyncTypeOK'
    <3>1. queue' \in 0 .. Capacity
      BY <1>8 DEF WriteVsync
    <3>2. QED
      BY <1>8, <3>1 DEF WriteVsync
  <2>2. owed' = FALSE
    BY <1>8 DEF WriteVsync
  <2>3. QED
    BY <2>1, <2>2, Zenon
<1>9. CASE UNCHANGED vsyncVars
  BY <1>9 DEF vsyncVars
<1>10. QED
  BY <1>1, <1>2, <1>3, <1>4, <1>5, <1>6, <1>7, <1>8, <1>9 DEF VsyncNext, Ticker

\* Nothing is asked for yet.
LEMMA VsyncStart == VsyncInit => VsyncInv
<1> SUFFICES ASSUME VsyncInit PROVE VsyncInv
  OBVIOUS
<1>1. VsyncTypeOK
  <2>1. queue \in 0 .. Capacity /\ asked \in 0 .. MaxRequests
    BY VsyncAssumption DEF VsyncInit
  <2>2. QED
    BY <2>1 DEF VsyncInit, VsyncTypeOK
<1>2. RequestsAreAnswered
  BY DEF VsyncInit, RequestsAreAnswered
<1>3. QED
  BY <1>1, <1>2 DEF VsyncInv

\* A display event connection keeps its types, and a request keeps its flag until
\* an event is about to be sent, however the rate changes between the two atomics.
THEOREM RequestsAreAnsweredAlways == VsyncSpec => [](VsyncTypeOK /\ RequestsAreAnswered)
<1>1. VsyncInit => VsyncInv
  BY VsyncStart
<1>2. VsyncInv => VsyncTypeOK /\ RequestsAreAnswered
  BY DEF VsyncInv
<1>3. QED
  BY <1>1, <1>2, VsyncStep, PTL DEF VsyncSpec

(***************************************************************************)
(* WindowLayout: the inductive invariant, in parts.                        *)
(***************************************************************************)

\* The newest size was sent to the window or answered to it, or is about to be.
IsTold(w) ==
    \/ size \in told[w]
    \/ resizing.at = "set"
    \/ \E i \in DOMAIN resizing.sends : resizing.sends[i].to = w

\* What is known of a window was told to it, and it was added before.
HistoryInv ==
    \A w \in AppWindows :
        /\ InHost(w) \/ told[w] # {} => w \in added
        /\ mail[w] # <<>> \/ laidOut[w] # NotYet => told[w] # {}

\* The letters of a resize are for windows that were added, and of the newest size:
\* the Wayland thread takes no other size before they are sent.
SendsInv ==
    \A i \in DOMAIN resizing.sends :
        /\ resizing.sends[i].to \in added
        /\ resizing.sends[i].layout.display = size

\* While the UI thread is in remove no other call changes the stack, so the top is
\* still there; the size it read is the newest one, or a resize tells it.
CallInv ==
    /\ uiCall.at = "top" => InHost(uiCall.entry.win)
    /\ uiCall.at = "send" =>
          /\ InHost(uiCall.letter.to)
          /\ uiCall.letter.layout.display = size \/ IsTold(uiCall.letter.to)

\* Being told of any size is enough to be told of the next ones.
ToldInv == \A w \in AppWindows : InHost(w) /\ told[w] # {} => IsTold(w)

LayoutInv == LayoutTypeOK /\ HistoryInv /\ SendsInv /\ CallInv /\ ToldInv

-----------------------------------------------------------------------------
(* The types.                                                              *)

\* A sequence without one of its elements.
LEMMA RemoveAtFacts ==
    ASSUME NEW S, NEW s \in Seq(S), NEW i \in DOMAIN s
    PROVE  /\ RemoveAt(s, i) \in Seq(S)
           /\ Len(RemoveAt(s, i)) = Len(s) - 1
           /\ \A j \in DOMAIN RemoveAt(s, i) : \E k \in DOMAIN s : RemoveAt(s, i)[j] = s[k]
<1> DEFINE a == SubSeq(s, 1, i - 1)
           b == SubSeq(s, i + 1, Len(s))
<1>1. i \in 1 .. Len(s) /\ Len(s) \in Nat
  OBVIOUS
<1>2. a \in Seq(S) /\ Len(a) = i - 1 /\ \A j \in 1 .. i - 1 : a[j] = s[j]
  BY <1>1
<1>3. b \in Seq(S) /\ Len(b) = Len(s) - i /\ \A j \in 1 .. Len(s) - i : b[j] = s[i + j]
  BY <1>1
<1>4. RemoveAt(s, i) = a \o b
  BY DEF RemoveAt
<1> HIDE DEF a, b
<1>5. a \o b \in Seq(S) /\ Len(a \o b) = Len(s) - 1 /\ DOMAIN (a \o b) = 1 .. Len(s) - 1
  BY <1>1, <1>2, <1>3
<1>6. ASSUME NEW j \in 1 .. Len(s) - 1
      PROVE  \E k \in DOMAIN s : (a \o b)[j] = s[k]
  <2>1. CASE j < i
    BY <2>1, <1>1, <1>2, <1>3
  <2>2. CASE ~(j < i)
    <3>1. (a \o b)[j] = b[j - (i - 1)]
      BY SMTT(30), <2>2, <1>1, <1>2, <1>3
    <3>2. j - (i - 1) \in 1 .. Len(s) - i /\ i + (j - (i - 1)) = j + 1 /\ j + 1 \in DOMAIN s
      BY <2>2, <1>1
    <3>3. QED
      BY <3>1, <3>2, <1>3
  <2>3. QED
    BY <2>1, <2>2
<1>7. QED
  BY <1>4, <1>5, <1>6

\* What is sent to a window is a frame and a size of the display.
LEMMA LetterType ==
    ASSUME NEW entry \in Entry, NEW extent \in Extents
    PROVE  /\ LetterTo(entry, extent) \in Letter
           /\ LetterTo(entry, extent).to = entry.win
           /\ LetterTo(entry, extent).layout.display = extent
BY DEF LetterTo, Letter, Layout, Entry

\* A letter goes to its window and nobody else.
LEMMA SendFacts ==
    ASSUME NEW letter \in Letter, Send(letter),
           mail \in [AppWindows -> Seq(Layout)], told \in [AppWindows -> SUBSET Extents]
    PROVE  /\ mail' \in [AppWindows -> Seq(Layout)]
           /\ told' \in [AppWindows -> SUBSET Extents]
           /\ \A w \in AppWindows : told[w] \subseteq told'[w]
           /\ letter.layout.display \in told'[letter.to]
           /\ \A w \in AppWindows : w # letter.to => mail'[w] = mail[w] /\ told'[w] = told[w]
<1>1. letter.to \in AppWindows /\ letter.layout \in Layout /\ letter.layout.display \in Extents
  BY DEF Letter, Layout
<1>2. Append(mail[letter.to], letter.layout) \in Seq(Layout)
  BY <1>1
<1>3. QED
  BY <1>1, <1>2 DEF Send

\* A step of the desktop's size leaves every variable in its type.
LEMMA ResizerTypes ==
    ASSUME LayoutTypeOK, Resizer
    PROVE  LayoutTypeOK'
<1> USE LayoutAssumption DEF LayoutTypeOK
<1>1. CASE ResizeAdopt
  BY <1>1 DEF ResizeAdopt, Extents
<1>2. CASE ResizeSnapshot
  <2> DEFINE letters == [i \in DOMAIN host |-> LetterTo(host[i], size)]
  <2>1. \A i \in 1 .. Len(host) : LetterTo(host[i], size) \in Letter
    BY LetterType
  <2>2. DOMAIN host = 1 .. Len(host) /\ Len(host) \in Nat
    OBVIOUS
  <2>3. letters \in Seq(Letter)
    BY <2>1, <2>2
  <2> HIDE DEF letters
  <2>4. resizing' = [at |-> "send", sends |-> letters]
    BY <1>2 DEF ResizeSnapshot, letters
  <2>5. QED
    BY <1>2, <2>3, <2>4 DEF ResizeSnapshot
<1>3. CASE ResizeSend
  <2>1. resizing.sends \in Seq(Letter)
    BY <1>3 DEF ResizeSend
  <2>2. CASE resizing.sends = <<>>
    BY <1>3, <2>2 DEF ResizeSend
  <2>3. CASE resizing.sends # <<>>
    <3>1. Send(Head(resizing.sends)) /\ resizing' = [resizing EXCEPT !.sends = Tail(@)]
      BY <1>3, <2>3 DEF ResizeSend
    <3>2. Head(resizing.sends) \in Letter /\ Tail(resizing.sends) \in Seq(Letter)
      BY <2>1, <2>3
    <3>3. mail' \in [AppWindows -> Seq(Layout)] /\ told' \in [AppWindows -> SUBSET Extents]
      BY <3>1, <3>2, SendFacts
    <3>4. resizing' \in [at : {"send"}, sends : Seq(Letter)]
      BY <1>3, <3>1, <3>2 DEF ResizeSend
    <3>5. QED
      BY <1>3, <3>3, <3>4 DEF ResizeSend
  <2>4. QED
    BY <2>2, <2>3
<1>4. QED
  BY <1>1, <1>2, <1>3 DEF Resizer

\* So does a step of the UI thread.
LEMMA UiTypes ==
    ASSUME LayoutTypeOK, NEW w \in AppWindows,
           \/ EnterStack(w) \/ HearResized(w) \/ LeaveStack(w)
           \/ \E attrs \in BOOLEAN : LayOut(w, attrs)
           \/ RemoveReadSize \/ RemoveTellTop
    PROVE  LayoutTypeOK'
<1> USE LayoutAssumption DEF LayoutTypeOK
<1>1. CASE EnterStack(w)
  <2> DEFINE e == [win |-> w, child |-> w \in Dialogs /\ HasBase(w), frame |-> size]
  <2>1. e \in Entry
    BY DEF Entry
  <2> HIDE DEF e
  <2>2. host' = Append(host, e) /\ added' = added \cup {w}
        /\ UNCHANGED <<size, resizing, uiCall, mail, laidOut, told>>
    BY <1>1 DEF EnterStack, e
  <2>3. QED
    BY <2>1, <2>2
<1>2. CASE HearResized(w)
  <2>1. Head(mail[w]) \in Layout /\ Tail(mail[w]) \in Seq(Layout)
    BY <1>2 DEF HearResized
  <2>2. QED
    BY <1>2, <2>1 DEF HearResized
<1>3. CASE LeaveStack(w)
  <2>1. PICK i \in DOMAIN host :
           /\ host[i].win = w
           /\ host' = RemoveAt(host, i)
           /\ uiCall' = IF Len(host) = 1 THEN Idle ELSE [at |-> "top", entry |-> Last(RemoveAt(host, i))]
    BY <1>3 DEF LeaveStack
  <2> DEFINE t == RemoveAt(host, i)
  <2>2. t \in Seq(Entry) /\ Len(t) = Len(host) - 1
    BY RemoveAtFacts
  <2> HIDE DEF t
  <2>3. uiCall' = IF Len(host) = 1 THEN Idle ELSE [at |-> "top", entry |-> Last(t)]
    BY <2>1 DEF t
  <2>4. CASE Len(host) = 1
    BY <1>3, <2>1, <2>2, <2>3, <2>4 DEF LeaveStack, Idle, t
  <2>5. CASE Len(host) # 1
    <3>1. Len(t) \in 1 .. Len(t) /\ Last(t) \in Entry
      BY <2>2, <2>5 DEF Last
    <3>2. uiCall' \in [at : {"top"}, entry : Entry]
      BY <2>3, <2>5, <3>1
    <3>3. QED
      BY <1>3, <2>1, <2>2, <3>2 DEF LeaveStack, t
  <2>6. QED
    BY <2>4, <2>5
<1>4. ASSUME NEW attrs \in BOOLEAN, LayOut(w, attrs)
      PROVE  LayoutTypeOK'
  <2> DEFINE e(i) == IF attrs THEN [win |-> w, child |-> w \in Dialogs /\ HasBase(w), frame |-> size]
                              ELSE host[i]
  <2>1. PICK i \in DOMAIN host :
           /\ host' = [host EXCEPT ![i] = e(i)]
           /\ laidOut' = [laidOut EXCEPT ![w] = [frame |-> e(i).frame, display |-> size]]
    BY <1>4 DEF LayOut
  <2>2. PICK x : x = e(i)
    OBVIOUS
  <2>3. x \in Entry
    <3>1. (w \in Dialogs /\ HasBase(w)) \in BOOLEAN
      OBVIOUS
    <3>2. CASE attrs
      BY <2>2, <3>1, <3>2 DEF Entry
    <3>3. CASE ~attrs
      BY <2>2, <3>3
    <3>4. QED
      BY <3>2, <3>3
  <2>4. host' = [host EXCEPT ![i] = x]
        /\ laidOut' = [laidOut EXCEPT ![w] = [frame |-> x.frame, display |-> size]]
    BY <2>1, <2>2
  <2>5. host' \in Seq(Entry)
    BY <2>3, <2>4
  <2>6. [frame |-> x.frame, display |-> size] \in Layout
    BY <2>3 DEF Entry, Layout
  <2>7. laidOut' \in [AppWindows -> Layout \cup {NotYet}]
    BY <2>4, <2>6
  <2>8. told' \in [AppWindows -> SUBSET Extents]
    BY <1>4 DEF LayOut
  <2>9. QED
    BY <1>4, <2>5, <2>7, <2>8 DEF LayOut
<1>5. CASE RemoveReadSize
  <2>1. uiCall \in [at : {"top"}, entry : Entry]
    BY <1>5 DEF RemoveReadSize
  <2>2. LetterTo(uiCall.entry, size) \in Letter
    BY <2>1, LetterType
  <2>3. uiCall' \in [at : {"send"}, letter : Letter]
    BY <1>5, <2>2 DEF RemoveReadSize
  <2>4. QED
    BY <1>5, <2>3 DEF RemoveReadSize
<1>6. CASE RemoveTellTop
  <2>1. uiCall.letter \in Letter
    BY <1>6 DEF RemoveTellTop
  <2>2. mail' \in [AppWindows -> Seq(Layout)] /\ told' \in [AppWindows -> SUBSET Extents]
    BY <1>6, <2>1, SendFacts DEF RemoveTellTop
  <2>3. QED
    BY <1>6, <2>2 DEF RemoveTellTop, Idle
<1>7. QED
  BY <1>1, <1>2, <1>3, <1>4, <1>5, <1>6

-----------------------------------------------------------------------------
(* The steps of the Wayland thread.                                        *)

\* It changes neither the stack nor what the UI thread is in.
LEMMA ResizerLeaves ==
    ASSUME Resizer
    PROVE  /\ UNCHANGED <<host, uiCall, laidOut, added>>
           /\ \A w \in AppWindows : InHost(w)' = InHost(w)
BY DEF Resizer, ResizeAdopt, ResizeSnapshot, ResizeSend, InHost

\* A window of the stack that was told stays told: a new size comes with a resize,
\* and the resize with a letter to every window of the stack.
LEMMA ResizerTells ==
    ASSUME LayoutInv, Resizer, NEW w \in AppWindows, InHost(w), IsTold(w)
    PROVE  IsTold(w)'
<1> USE DEF LayoutInv
<1>1. CASE ResizeAdopt
  BY <1>1 DEF ResizeAdopt, IsTold
<1>2. CASE ResizeSnapshot
  <2>1. PICK i \in DOMAIN host : host[i].win = w
    BY DEF InHost
  <2>2. host \in Seq(Entry) /\ size \in Extents
    BY DEF LayoutTypeOK
  <2>3. host[i] \in Entry
    BY <2>2
  <2>4. LetterTo(host[i], size).to = w
    BY <2>1, <2>2, <2>3, LetterType
  <2>5. resizing'.sends = [k \in DOMAIN host |-> LetterTo(host[k], size)]
    BY <1>2 DEF ResizeSnapshot
  <2>6. i \in DOMAIN resizing'.sends /\ resizing'.sends[i].to = w
    BY <2>4, <2>5
  <2>7. QED
    BY <2>6 DEF IsTold
<1>3. CASE ResizeSend
  <2>1. resizing \in [at : {"send"}, sends : Seq(Letter)] /\ size' = size
    BY <1>3 DEF ResizeSend, LayoutTypeOK
  <2>2. CASE resizing.sends = <<>>
    BY <1>3, <2>1, <2>2 DEF ResizeSend, IsTold
  <2>3. CASE resizing.sends # <<>>
    <3>1. PICK letters : letters = resizing.sends
      OBVIOUS
    <3>2. Send(Head(letters)) /\ resizing' = [resizing EXCEPT !.sends = Tail(@)]
      BY <1>3, <2>3, <3>1 DEF ResizeSend
    <3>3. letters \in Seq(Letter) /\ letters # <<>> /\ Head(letters) = letters[1]
      BY <2>1, <2>3, <3>1
    <3>4. Head(letters) \in Letter
      BY <3>3
    <3>5. /\ \A v \in AppWindows : told[v] \subseteq told'[v]
          /\ Head(letters).layout.display \in told'[Head(letters).to]
      BY <3>2, <3>4, SendFacts DEF LayoutTypeOK
    <3>6. resizing'.sends = Tail(letters)
      BY <2>1, <3>1, <3>2
    <3>7. CASE size \in told[w]
      BY <2>1, <3>5, <3>7 DEF IsTold
    <3>8. CASE \E i \in DOMAIN letters : letters[i].to = w
      <4>1. PICK i \in DOMAIN letters : letters[i].to = w
        BY <3>8
      <4>2. CASE i = 1
        <5>1. Head(letters).layout.display = size
          BY <3>1, <3>3, <4>2 DEF SendsInv
        <5>2. QED
          BY <2>1, <3>3, <3>5, <4>1, <4>2, <5>1 DEF IsTold
      <4>3. CASE i # 1
        <5>1. i - 1 \in DOMAIN Tail(letters) /\ Tail(letters)[i - 1] = letters[i]
          BY <3>3, <4>3
        <5>2. QED
          BY <3>6, <4>1, <5>1 DEF IsTold
      <4>4. QED
        BY <4>2, <4>3
    <3>9. QED
      BY <2>1, <3>1, <3>7, <3>8 DEF IsTold
  <2>4. QED
    BY <2>2, <2>3
<1>4. QED
  BY <1>1, <1>2, <1>3 DEF Resizer

\* The letters go out one by one, each to a window that was added.
LEMMA ResizerSends ==
    ASSUME LayoutInv, Resizer
    PROVE  SendsInv' /\ HistoryInv'
<1> USE DEF LayoutInv
<1>1. CASE ResizeAdopt
  <2>1. resizing'.sends = <<>> /\ UNCHANGED <<host, mail, laidOut, added, told>>
    BY <1>1 DEF ResizeAdopt
  <2>2. QED
    BY <2>1 DEF SendsInv, HistoryInv, InHost
<1>2. CASE ResizeSnapshot
  <2>1. host \in Seq(Entry) /\ size \in Extents
    BY DEF LayoutTypeOK
  <2>2. UNCHANGED <<size, host, mail, laidOut, added, told>>
        /\ resizing'.sends = [k \in DOMAIN host |-> LetterTo(host[k], size)]
    BY <1>2 DEF ResizeSnapshot
  <2>3. \A k \in DOMAIN host : /\ LetterTo(host[k], size).to \in added
                               /\ LetterTo(host[k], size).layout.display = size
    <3> SUFFICES ASSUME NEW k \in DOMAIN host
                 PROVE  /\ LetterTo(host[k], size).to \in added
                        /\ LetterTo(host[k], size).layout.display = size
      OBVIOUS
    <3>1. host[k] \in Entry
      BY <2>1
    <3>2. host[k].win \in added
      BY <3>1 DEF HistoryInv, InHost, Entry
    <3>3. QED
      BY <2>1, <3>1, <3>2, LetterType
  <2>4. SendsInv'
    BY <2>2, <2>3 DEF SendsInv
  <2>5. HistoryInv'
    BY <2>2 DEF HistoryInv, InHost
  <2>6. QED
    BY <2>4, <2>5
<1>3. CASE ResizeSend
  <2>1. /\ resizing \in [at : {"send"}, sends : Seq(Letter)]
        /\ UNCHANGED <<size, host, uiCall, laidOut, added>>
    BY <1>3 DEF ResizeSend, LayoutTypeOK
  <2>2. CASE resizing.sends = <<>>
    BY <1>3, <2>1, <2>2 DEF ResizeSend, SendsInv, HistoryInv, InHost
  <2>3. CASE resizing.sends # <<>>
    <3>1. PICK letters : letters = resizing.sends
      OBVIOUS
    <3>2. Send(Head(letters)) /\ resizing' = [resizing EXCEPT !.sends = Tail(@)]
      BY <1>3, <2>3, <3>1 DEF ResizeSend
    <3>3. letters \in Seq(Letter) /\ letters # <<>> /\ Head(letters) = letters[1]
      BY <2>1, <2>3, <3>1
    <3>4. Head(letters) \in Letter
      BY <3>3
    <3>5. /\ \A v \in AppWindows : told[v] \subseteq told'[v]
          /\ Head(letters).layout.display \in told'[Head(letters).to]
          /\ \A v \in AppWindows : v # Head(letters).to => mail'[v] = mail[v] /\ told'[v] = told[v]
      BY <3>2, <3>4, SendFacts DEF LayoutTypeOK
    <3>6. resizing'.sends = Tail(letters)
      BY <2>1, <3>1, <3>2
    <3>7. \A i \in DOMAIN Tail(letters) : i + 1 \in DOMAIN letters /\ Tail(letters)[i] = letters[i + 1]
      BY <3>3
    <3>8. SendsInv'
      BY <2>1, <3>1, <3>6, <3>7 DEF SendsInv
    <3>9. Head(letters).to \in added
      BY <3>1, <3>3 DEF SendsInv
    <3>10. HistoryInv'
      BY <2>1, <3>5, <3>9 DEF HistoryInv, InHost
    <3>11. QED
      BY <3>8, <3>10
  <2>4. QED
    BY <2>2, <2>3
<1>4. QED
  BY <1>1, <1>2, <1>3 DEF Resizer

\* The Wayland thread keeps the invariant.
LEMMA ResizerStep ==
    ASSUME LayoutInv, Resizer
    PROVE  LayoutInv'
<1> USE DEF LayoutInv
<1>1. UNCHANGED <<host, uiCall, laidOut, added>> /\ \A w \in AppWindows : InHost(w)' = InHost(w)
  BY ResizerLeaves
<1>2. \A w \in AppWindows : InHost(w) /\ IsTold(w) => IsTold(w)'
  BY ResizerTells
<1>3. SendsInv' /\ HistoryInv' /\ LayoutTypeOK'
  BY ResizerSends, ResizerTypes
<1>4. CASE ResizeAdopt
  <2>1. \A w \in AppWindows : IsTold(w)'
    BY <1>4 DEF ResizeAdopt, IsTold
  <2>2. ToldInv'
    BY <2>1 DEF ToldInv
  <2>3. uiCall.at = "top" => uiCall.entry.win \in AppWindows
    BY DEF LayoutTypeOK, Entry
  <2>4. uiCall.at = "send" => uiCall.letter.to \in AppWindows
    BY DEF LayoutTypeOK, Letter
  <2>5. CallInv'
    BY <1>1, <2>1, <2>3, <2>4 DEF CallInv
  <2>6. QED
    BY <1>3, <2>2, <2>5
<1>5. CASE ResizeSnapshot \/ ResizeSend
  <2>1. size' = size
    BY <1>5 DEF ResizeSnapshot, ResizeSend
  <2>2. ToldInv'
    <3> SUFFICES ASSUME NEW w \in AppWindows, InHost(w)', told'[w] # {}
                 PROVE  IsTold(w)'
      BY DEF ToldInv
    <3>1. CASE told[w] # {}
      BY <1>1, <1>2, <3>1 DEF ToldInv
    <3>2. CASE told[w] = {}
      <4>1. ResizeSend /\ resizing.sends # <<>>
        BY <1>5, <3>2 DEF ResizeSnapshot, ResizeSend
      <4>2. PICK letter : letter = Head(resizing.sends)
        OBVIOUS
      <4>3. Send(letter) /\ resizing.sends \in Seq(Letter)
        BY <4>1, <4>2 DEF ResizeSend, LayoutTypeOK
      <4>4. letter \in Letter /\ letter.layout.display = size
        BY <4>1, <4>2, <4>3 DEF SendsInv
      <4>5. /\ letter.layout.display \in told'[letter.to]
            /\ w # letter.to => told'[w] = told[w]
        BY <4>3, <4>4, SendFacts DEF LayoutTypeOK
      <4>6. QED
        BY <2>1, <3>2, <4>4, <4>5 DEF IsTold
    <3>3. QED
      BY <3>1, <3>2
  <2>3. uiCall.at = "top" => uiCall.entry.win \in AppWindows
    BY DEF LayoutTypeOK, Entry
  <2>4. uiCall.at = "send" => uiCall.letter.to \in AppWindows
    BY DEF LayoutTypeOK, Letter
  <2>5. CallInv'
    BY <1>1, <1>2, <2>1, <2>3, <2>4 DEF CallInv
  <2>6. QED
    BY <1>3, <2>2, <2>5
<1>6. QED
  BY <1>4, <1>5 DEF Resizer

-----------------------------------------------------------------------------
(* The steps of the UI thread.                                             *)

\* The UI thread never touches a resize, and reads no size but the newest.
LEMMA UiLeaves ==
    ASSUME NEW w \in AppWindows,
           \/ EnterStack(w) \/ HearResized(w) \/ LeaveStack(w)
           \/ \E attrs \in BOOLEAN : LayOut(w, attrs)
           \/ RemoveReadSize \/ RemoveTellTop
    PROVE  UNCHANGED <<size, resizing>> /\ added \subseteq added'
BY DEF EnterStack, HearResized, LeaveStack, LayOut, RemoveReadSize, RemoveTellTop

\* A window enters the stack: nothing was told to it yet.
LEMMA EnterStep ==
    ASSUME LayoutInv, NEW w \in AppWindows, EnterStack(w)
    PROVE  HistoryInv' /\ SendsInv' /\ CallInv' /\ ToldInv'
<1> USE DEF LayoutInv
<1>1. PICK e : host' = Append(host, e) /\ e.win = w
  BY DEF EnterStack
<1>2. /\ uiCall = Idle /\ w \notin added /\ added' = added \cup {w}
      /\ UNCHANGED <<size, resizing, uiCall, mail, laidOut, told>>
  BY DEF EnterStack
<1>3. host \in Seq(Entry)
  BY DEF LayoutTypeOK
<1>4. \A v \in AppWindows : InHost(v)' => InHost(v) \/ v = w
  <2> SUFFICES ASSUME NEW v \in AppWindows, NEW i \in DOMAIN host', host'[i].win = v, v # w
               PROVE  \E j \in DOMAIN host : host[j].win = v
    BY DEF InHost
  <2>1. i \in 1 .. Len(host) \/ i = Len(host) + 1
    BY <1>1, <1>3
  <2>2. i # Len(host) + 1
    BY <1>1, <1>3
  <2>3. i \in DOMAIN host /\ host[i] = host'[i]
    BY <1>1, <1>3, <2>1, <2>2
  <2>4. QED
    BY <2>3
<1>5. \A v \in AppWindows : IsTold(v)' = IsTold(v)
  BY <1>2 DEF IsTold
<1>6. HistoryInv'
  BY <1>2, <1>4 DEF HistoryInv
<1>7. SendsInv'
  BY <1>2 DEF SendsInv
<1>8. CallInv'
  BY <1>2 DEF CallInv, Idle
<1>9. ToldInv'
  BY <1>2, <1>4, <1>5 DEF ToldInv, HistoryInv
<1>10. QED
  BY <1>6, <1>7, <1>8, <1>9

\* A window is laid out: it is answered the newest size.
LEMMA LayOutStep ==
    ASSUME LayoutInv, NEW w \in AppWindows, NEW attrs \in BOOLEAN, LayOut(w, attrs)
    PROVE  HistoryInv' /\ SendsInv' /\ CallInv' /\ ToldInv'
<1> USE DEF LayoutInv
<1> DEFINE judged == [win |-> w, child |-> w \in Dialogs /\ HasBase(w), frame |-> size]
<1>1. \E i \in DOMAIN host : \E e :
         host[i].win = w /\ host' = [host EXCEPT ![i] = e] /\ e.win = w
  <2>1. PICK i \in DOMAIN host :
           /\ host[i].win = w
           /\ host' = [host EXCEPT ![i] = IF attrs THEN judged ELSE host[i]]
    BY DEF LayOut
  <2>2. (IF attrs THEN judged ELSE host[i]).win = w
    BY <2>1
  <2>3. QED
    BY <2>1, <2>2
<1> PICK i \in DOMAIN host : \E e :
         host[i].win = w /\ host' = [host EXCEPT ![i] = e] /\ e.win = w
  BY <1>1
<1> PICK e : host[i].win = w /\ host' = [host EXCEPT ![i] = e] /\ e.win = w
  OBVIOUS
<1>2. /\ uiCall = Idle
      /\ told' = [told EXCEPT ![w] = @ \cup {size}]
      /\ \A v \in AppWindows \ {w} : laidOut'[v] = laidOut[v]
      /\ UNCHANGED <<size, resizing, uiCall, mail, added>>
  BY DEF LayOut, LayoutTypeOK
<1>3. DOMAIN host' = DOMAIN host /\ \A j \in DOMAIN host : host'[j].win = host[j].win
  BY DEF LayoutTypeOK
<1>4. \A v \in AppWindows : InHost(v)' = InHost(v)
  BY <1>3 DEF InHost
<1>5. InHost(w)
  BY DEF InHost
<1>6. /\ size \in told'[w]
      /\ \A v \in AppWindows \ {w} : told'[v] = told[v]
  BY <1>2 DEF LayoutTypeOK
<1>7. HistoryInv'
  BY <1>2, <1>4, <1>5, <1>6 DEF HistoryInv
<1>8. SendsInv'
  BY <1>2 DEF SendsInv
<1>9. CallInv'
  BY <1>2 DEF CallInv, Idle
<1>10. ToldInv'
  BY <1>2, <1>4, <1>6 DEF ToldInv, IsTold
<1>11. QED
  BY <1>7, <1>8, <1>9, <1>10

\* A window takes a message: it was told of what it says.
LEMMA HearStep ==
    ASSUME LayoutInv, NEW w \in AppWindows, HearResized(w)
    PROVE  HistoryInv' /\ SendsInv' /\ CallInv' /\ ToldInv'
<1> USE DEF LayoutInv
<1>1. /\ uiCall = Idle /\ mail[w] # <<>>
      /\ \A v \in AppWindows \ {w} : mail'[v] = mail[v] /\ laidOut'[v] = laidOut[v]
      /\ UNCHANGED <<size, host, resizing, uiCall, added, told>>
  BY DEF HearResized, LayoutTypeOK
<1>2. \A v \in AppWindows : InHost(v)' = InHost(v) /\ IsTold(v)' = IsTold(v)
  BY <1>1 DEF InHost, IsTold
<1>3. HistoryInv'
  BY <1>1, <1>2 DEF HistoryInv
<1>4. SendsInv'
  BY <1>1 DEF SendsInv
<1>5. CallInv'
  BY <1>1 DEF CallInv, Idle
<1>6. ToldInv'
  BY <1>1, <1>2 DEF ToldInv
<1>7. QED
  BY <1>3, <1>4, <1>5, <1>6

\* A window leaves the stack, and the UI thread goes on with the one at the top.
LEMMA LeaveStep ==
    ASSUME LayoutInv, NEW w \in AppWindows, LeaveStack(w)
    PROVE  HistoryInv' /\ SendsInv' /\ CallInv' /\ ToldInv'
<1> USE DEF LayoutInv
<1>1. PICK i \in DOMAIN host :
         /\ host' = RemoveAt(host, i)
         /\ uiCall' = IF Len(host) = 1 THEN Idle ELSE [at |-> "top", entry |-> Last(RemoveAt(host, i))]
  BY DEF LeaveStack
<1>2. UNCHANGED <<size, resizing, mail, laidOut, added, told>>
  BY DEF LeaveStack
<1>3. host \in Seq(Entry)
  BY DEF LayoutTypeOK
<1>4. /\ host' \in Seq(Entry) /\ Len(host') = Len(host) - 1
      /\ \A j \in DOMAIN host' : \E k \in DOMAIN host : host'[j] = host[k]
  BY <1>1, <1>3, RemoveAtFacts
<1>5. \A v \in AppWindows : InHost(v)' => InHost(v)
  BY <1>4 DEF InHost
<1>6. \A v \in AppWindows : IsTold(v)' = IsTold(v)
  BY <1>2 DEF IsTold
<1>7. HistoryInv'
  BY <1>2, <1>5 DEF HistoryInv
<1>8. SendsInv'
  BY <1>2 DEF SendsInv
<1>9. CallInv'
  <2>1. CASE Len(host) = 1
    BY <1>1, <2>1 DEF CallInv, Idle
  <2>2. CASE Len(host) # 1
    <3>1. Len(host') \in DOMAIN host' /\ Last(host') = host'[Len(host')]
      BY <1>3, <1>4, <2>2 DEF Last
    <3>2. PICK top : top = Last(host')
      OBVIOUS
    <3>3. uiCall' = [at |-> "top", entry |-> top]
      BY <1>1, <2>2, <3>2
    <3>4. InHost(top.win)'
      BY <3>1, <3>2 DEF InHost
    <3>5. QED
      BY <3>3, <3>4 DEF CallInv
  <2>3. QED
    BY <2>1, <2>2
<1>10. ToldInv'
  BY <1>2, <1>5, <1>6 DEF ToldInv
<1>11. QED
  BY <1>7, <1>8, <1>9, <1>10

\* The size for the top is read.
LEMMA ReadSizeStep ==
    ASSUME LayoutInv, RemoveReadSize
    PROVE  HistoryInv' /\ SendsInv' /\ CallInv' /\ ToldInv'
<1> USE DEF LayoutInv
<1>1. UNCHANGED <<size, host, resizing, mail, laidOut, added, told>>
  BY DEF RemoveReadSize
<1>2. \A v \in AppWindows : InHost(v)' = InHost(v) /\ IsTold(v)' = IsTold(v)
  BY <1>1 DEF InHost, IsTold
<1>3. uiCall \in [at : {"top"}, entry : Entry] /\ size \in Extents
  BY DEF RemoveReadSize, LayoutTypeOK
<1>4. InHost(uiCall.entry.win)
  BY <1>3 DEF CallInv
<1>5. PICK letter : letter = LetterTo(uiCall.entry, size)
  OBVIOUS
<1>6. letter.to = uiCall.entry.win /\ letter.layout.display = size /\ letter \in Letter
  BY <1>3, <1>5, LetterType
<1>7. uiCall' = [at |-> "send", letter |-> letter]
  BY <1>5 DEF RemoveReadSize
<1>8. letter.to \in AppWindows
  BY <1>6 DEF Letter
<1>9. CallInv'
  BY <1>1, <1>2, <1>4, <1>6, <1>7, <1>8 DEF CallInv
<1>10. QED
  BY <1>1, <1>2, <1>9 DEF HistoryInv, SendsInv, ToldInv

\* The size for the top is sent: when it is no longer the newest, the newest one is
\* on its way to the top, too.
LEMMA TellTopStep ==
    ASSUME LayoutInv, RemoveTellTop
    PROVE  HistoryInv' /\ SendsInv' /\ CallInv' /\ ToldInv'
<1> USE DEF LayoutInv
<1>1. PICK letter : letter = uiCall.letter
  OBVIOUS
<1>2. letter \in Letter /\ letter.to \in AppWindows
  BY <1>1 DEF RemoveTellTop, LayoutTypeOK, Letter
<1>3. Send(letter) /\ uiCall' = Idle /\ UNCHANGED <<size, host, resizing, laidOut, added>>
  BY <1>1 DEF RemoveTellTop
<1>4. /\ \A v \in AppWindows : told[v] \subseteq told'[v]
      /\ letter.layout.display \in told'[letter.to]
      /\ \A v \in AppWindows : v # letter.to => mail'[v] = mail[v] /\ told'[v] = told[v]
  BY <1>2, <1>3, SendFacts DEF LayoutTypeOK
<1>5. \A v \in AppWindows : InHost(v)' = InHost(v)
  BY <1>3 DEF InHost
<1>6. \A v \in AppWindows : IsTold(v) => IsTold(v)'
  BY <1>3, <1>4 DEF IsTold
<1>7. InHost(letter.to) /\ (letter.layout.display = size \/ IsTold(letter.to))
  BY <1>1 DEF RemoveTellTop, CallInv
<1>8. IsTold(letter.to)'
  BY <1>2, <1>3, <1>4, <1>6, <1>7 DEF IsTold
<1>9. letter.to \in added
  BY <1>2, <1>7 DEF HistoryInv
<1>10. HistoryInv'
  BY <1>3, <1>4, <1>5, <1>9 DEF HistoryInv
<1>11. SendsInv'
  BY <1>3 DEF SendsInv
<1>12. CallInv'
  BY <1>3 DEF CallInv, Idle
<1>13. ToldInv'
  BY <1>4, <1>5, <1>6, <1>8 DEF ToldInv
<1>14. QED
  BY <1>10, <1>11, <1>12, <1>13

-----------------------------------------------------------------------------
\* The invariant holds at the start.
LEMMA LayoutStart == LayoutInit => LayoutInv
<1> SUFFICES ASSUME LayoutInit PROVE LayoutInv
  OBVIOUS
<1>1. LayoutTypeOK
  BY LayoutAssumption DEF LayoutInit, LayoutTypeOK, Extents, Idle
<1>2. HistoryInv /\ SendsInv /\ CallInv /\ ToldInv
  BY DEF LayoutInit, HistoryInv, SendsInv, CallInv, ToldInv, InHost, Idle
<1>3. QED
  BY <1>1, <1>2 DEF LayoutInv

\* No step of either thread breaks it.
LEMMA LayoutStep ==
    ASSUME LayoutInv, [LayoutNext]_layoutVars
    PROVE  LayoutInv'
<1>1. CASE Resizer
  BY <1>1, ResizerStep
<1>2. ASSUME NEW w \in AppWindows,
             EnterStack(w) \/ HearResized(w) \/ LeaveStack(w) \/ \E attrs \in BOOLEAN : LayOut(w, attrs)
      PROVE  LayoutInv'
  <2>1. LayoutTypeOK'
    BY <1>2, UiTypes DEF LayoutInv
  <2>2. HistoryInv' /\ SendsInv' /\ CallInv' /\ ToldInv'
    BY <1>2, EnterStep, HearStep, LeaveStep, LayOutStep
  <2>3. QED
    BY <2>1, <2>2 DEF LayoutInv
<1>3. CASE RemoveReadSize \/ RemoveTellTop
  <2>1. PICK w \in AppWindows : TRUE
    BY <1>3 DEF RemoveReadSize, RemoveTellTop, LayoutInv, LayoutTypeOK, Entry, Letter
  <2>2. LayoutTypeOK'
    BY <1>3, UiTypes DEF LayoutInv
  <2>3. HistoryInv' /\ SendsInv' /\ CallInv' /\ ToldInv'
    BY <1>3, ReadSizeStep, TellTopStep
  <2>4. QED
    BY <2>2, <2>3 DEF LayoutInv
<1>4. CASE UNCHANGED layoutVars
  BY <1>4 DEF LayoutInv, LayoutTypeOK, HistoryInv, SendsInv, CallInv, ToldInv, InHost, IsTold,
              layoutVars
<1>5. QED
  BY <1>1, <1>2, <1>3, <1>4 DEF LayoutNext

\* Who was told of any size was told of the newest, or is about to be.
LEMMA LayoutTells == LayoutInv => LayoutTypeOK /\ EveryWindowIsTold
BY DEF LayoutInv, HistoryInv, ToldInv, EveryWindowIsTold, IsTold

\* A window that was ever laid out was told of the newest size of the desktop window,
\* or a resize is about to tell it: whatever windows are added, laid out and removed
\* while sizes change.
THEOREM EveryWindowIsToldAlways == LayoutSpec => [](LayoutTypeOK /\ EveryWindowIsTold)
BY LayoutTells, LayoutStart, LayoutStep, PTL DEF LayoutSpec

(***************************************************************************)
(* FrameBuffers: the inductive invariant.  A posted buffer is on one way   *)
(* at a time, and only the way over the desktop is one on which the        *)
(* desktop can read it.                                                    *)
(***************************************************************************)

\* The ways of a posted buffer: in a handler, in the presenter's channel, shown and
\* not yet released, released.
InCall(b) == call[QueueOf[b]] # Nil /\ call[QueueOf[b]].buf = b
Queued(b) == \E i \in DOMAIN frames : frames[i].buf = b
Shown(b)  == inFlight[b] # Nil
Freed(b)  == \E m \in releases : m.buf = b /\ m.frame = frame[b]
Homing(b) == [to |-> QueueOf[b], buf |-> b, frame |-> submitted[b]] \in releases

\* The desktop reads it, or its release of it is under way.
AtDesktop(x) == x \in reading \/ \E i \in DOMAIN events : events[i] = x

\* The queue may fill a buffer that is nowhere else.
HeldInv(b) ==
    /\ submitted[b] \in {0, frame[b]}
    /\ b \in held => submitted[b] = 0
    /\ b \notin gralloc => frame[b] = 0
    /\ InCall(b) \/ Queued(b) \/ Shown(b) => submitted[b] # 0 /\ ~Freed(b)

\* One way at a time, and while the presenter runs, one at least.
WayInv(b) ==
    /\ InCall(b) => ~Queued(b) /\ ~Shown(b)
    /\ Queued(b) => ~Shown(b)
    /\ alive /\ submitted[b] # 0 => InCall(b) \/ Queued(b) \/ Shown(b) \/ Homing(b)

\* What is on the way is the last frame posted in the buffer; a release can also be
\* of an older one.
NumberInv(b) ==
    /\ \A m \in releases : m.buf = b => m.frame <= frame[b]
    /\ Shown(b) => inFlight[b].buf = b /\ inFlight[b].frame = frame[b]

QueuedInv(b) ==
    \A i \in DOMAIN frames : frames[i].buf = b =>
        /\ frames[i].frame = frame[b]
        /\ \A j \in DOMAIN frames : frames[j].buf = b => j = i

\* The presenter knows what the desktop has.
DesktopInv(b) == AtDesktop(Dmabuf(b)) <=> Shown(b)

BufferInv(b) == HeldInv(b) /\ WayInv(b) /\ NumberInv(b) /\ QueuedInv(b) /\ DesktopInv(b)

\* A buffer that was posted before is known to the composer, with a queue's channel
\* or none; the first time it comes whole.
CachedInv ==
    /\ \A q \in Queues : call[q] # Nil => QueueOf[call[q].buf] = q
    /\ \A b \in Buffers :
          \/ frame[b] = 0 \/ cached[b] \in Queues \cup {Nil}
          \/ InCall(b) /\ call[QueueOf[b]].whole

\* The desktop releases what it reads once; of the pool that is there it has only
\* slots that are busy.
EventsInv ==
    /\ \A i \in DOMAIN events : events[i] \notin reading
    /\ \A i, j \in DOMAIN events : events[i] = events[j] => i = j

SlotInv ==
    /\ pooled => pool # 0
    /\ \A n \in 1 .. MaxPools, i \in Slots :
          AtDesktop(Shm(n, i)) => n <= pool /\ (n = pool => i \in busy)

FrameInv ==
    /\ FrameTypeOK /\ CachedInv /\ EventsInv /\ SlotInv
    /\ \A b \in Buffers : BufferInv(b)

-----------------------------------------------------------------------------
(* The slots of the pool.                                                  *)

\* Going round, every slot is reached.
LEMMA RoundSlots ==
    ASSUME NEW from \in Slots, NEW i \in Slots
    PROVE  /\ (from + i) % NumBuffers \in Slots
           /\ \E k \in Slots : (from + k) % NumBuffers = i
<1> USE FrameAssumption DEF Slots
<1>1. (from + i) % NumBuffers \in 0 .. NumBuffers - 1
  OBVIOUS
<1>2. CASE i >= from
  <2>1. i - from \in Slots /\ (from + (i - from)) % NumBuffers = i
    BY <1>2
  <2>2. QED
    BY <1>1, <2>1
<1>3. CASE i < from
  <2>1. i - from + NumBuffers \in Slots /\ (from + (i - from + NumBuffers)) % NumBuffers = i
    BY <1>3
  <2>2. QED
    BY <1>1, <2>1
<1>4. QED
  BY <1>2, <1>3

\* A slot is found while one is free, and it is a free one.
LEMMA FreeSlot ==
    ASSUME NEW from \in Slots, NEW used \in SUBSET Slots, used # Slots
    PROVE  FirstFree(from, used) \in Slots \ used
<1> DEFINE S == {i \in Slots : (from + i) % NumBuffers \notin used}
<1>1. S # {}
  <2>1. PICK j \in Slots : j \notin used
    OBVIOUS
  <2>2. PICK i \in Slots : (from + i) % NumBuffers = j
    BY RoundSlots
  <2>3. i \in S
    BY <2>1, <2>2
  <2>4. QED
    BY <2>3
<1>2. S \in SUBSET Nat
  BY DEF Slots
<1>3. \E n \in S : \A k \in S : n <= k
  <2> HIDE DEF S
  <2>1. QED
    BY <1>1, <1>2, LeastNatural
<1>4. Min(S) \in S
  <2> HIDE DEF S
  <2>1. QED
    BY <1>3 DEF Min
<1>5. PICK i : i = Min(S)
  OBVIOUS
<1>6. i \in Slots /\ (from + i) % NumBuffers \notin used
  BY <1>4, <1>5
<1>7. FirstFree(from, used) = (from + i) % NumBuffers
  BY <1>5 DEF FirstFree
<1>8. QED
  BY <1>6, <1>7, RoundSlots

-----------------------------------------------------------------------------
(* What the shared steps do: a release, the ends of the channel, and the   *)
(* desktop.                                                                *)

Messages == [to : Queues, buf : Buffers, frame : Nat \ {0}]

\* A release goes to the queue of the buffer at least, and is of that frame.
LEMMA ReleaseFacts ==
    ASSUME NEW pb \in Posted, Release(pb), releases \subseteq Messages
    PROVE  /\ releases' \subseteq Messages
           /\ releases \subseteq releases'
           /\ [to |-> QueueOf[pb.buf], buf |-> pb.buf, frame |-> pb.frame] \in releases'
           /\ \A m \in releases' : m \in releases \/ (m.buf = pb.buf /\ m.frame = pb.frame)
<1> DEFINE home  == [to |-> QueueOf[pb.buf], buf |-> pb.buf, frame |-> pb.frame]
           known == [to |-> pb.channel, buf |-> pb.buf, frame |-> pb.frame]
<1>1. PICK msgs \in ReleaseOf(pb) : releases' = releases \cup msgs
  BY DEF Release
<1>2. msgs = {home} \/ (pb.channel # Nil /\ msgs = {home} \cup {known})
  <2>1. ReleaseOf(pb) = {{home}} \cup (IF pb.channel = Nil THEN {} ELSE {{home} \cup {known}})
    BY Zenon DEF ReleaseOf
  <2> HIDE DEF home, known
  <2>2. QED
    BY <1>1, <2>1
<1>3. home \in Messages /\ (pb.channel # Nil => known \in Messages)
  BY FrameAssumption DEF Posted, Messages
<1>4. \A m \in msgs : m.buf = pb.buf /\ m.frame = pb.frame
  BY <1>2
<1>5. home \in msgs /\ msgs \subseteq Messages
  BY <1>2, <1>3
<1>6. \A m \in releases' : m \in releases \/ m \in msgs
  BY <1>1
<1>7. releases' \subseteq Messages /\ releases \subseteq releases' /\ home \in releases'
  <2> HIDE DEF home, Messages
  <2>1. QED
    BY <1>1, <1>5
<1>8. QED
  BY <1>4, <1>6, <1>7

\* After a release of its last frame a buffer is free, and when its queue waits for
\* that frame it hears of it; nothing changes for the other buffers.
LEMMA ReleasedFacts ==
    ASSUME FrameTypeOK, \A c \in Buffers : NumberInv(c), NEW pb \in Posted,
           pb.frame = frame[pb.buf], Release(pb), UNCHANGED <<frame, submitted>>
    PROVE  /\ releases' \subseteq Messages
           /\ \A c \in Buffers :
                 /\ Freed(c)' <=> Freed(c) \/ c = pb.buf
                 /\ \A m \in releases' : m.buf = c => m.frame <= frame[c]
                 /\ Homing(c) => Homing(c)'
           /\ submitted[pb.buf] = frame[pb.buf] => Homing(pb.buf)'
<1>1. releases \subseteq Messages
  BY DEF FrameTypeOK, Messages
<1>2. /\ releases' \subseteq Messages
      /\ releases \subseteq releases'
      /\ [to |-> QueueOf[pb.buf], buf |-> pb.buf, frame |-> pb.frame] \in releases'
      /\ \A m \in releases' : m \in releases \/ (m.buf = pb.buf /\ m.frame = pb.frame)
  BY <1>1, ReleaseFacts
<1>3. pb.buf \in Buffers /\ frame[pb.buf] \in Nat
  BY DEF Posted, FrameTypeOK
<1>4. ASSUME NEW c \in Buffers
      PROVE  /\ Freed(c)' <=> Freed(c) \/ c = pb.buf
             /\ \A m \in releases' : m.buf = c => m.frame <= frame[c]
             /\ Homing(c) => Homing(c)'
  <2>1. Freed(c)' <=> Freed(c) \/ c = pb.buf
    BY <1>2 DEF Freed
  <2>2. \A m \in releases' : m.buf = c => m.frame <= frame[c]
    BY <1>2, <1>3 DEF NumberInv
  <2>3. Homing(c) => Homing(c)'
    BY <1>2 DEF Homing
  <2>4. QED
    BY <2>1, <2>2, <2>3
<1>5. submitted[pb.buf] = frame[pb.buf] => Homing(pb.buf)'
  BY <1>2 DEF Homing
<1>6. QED
  BY <1>2, <1>4, <1>5

\* The presenter takes the one frame of a buffer that is in its channel.
LEMMA TakeFacts ==
    ASSUME FrameTypeOK, \A c \in Buffers : QueuedInv(c), Take, frame' = frame,
           NEW pb, pb = Head(frames)
    PROVE  /\ pb \in Posted /\ pb.buf \in Buffers /\ pb.frame = frame[pb.buf]
           /\ Queued(pb.buf)
           /\ frames' \in Seq(Posted)
           /\ \A c \in Buffers : /\ Queued(c)' <=> Queued(c) /\ c # pb.buf
                                 /\ QueuedInv(c)'
<1>1. frames \in Seq(Posted) /\ frames # <<>> /\ frames' = Tail(frames)
  BY DEF Take, FrameTypeOK
<1>2. pb = frames[1] /\ 1 \in DOMAIN frames /\ pb \in Posted
  BY <1>1
<1>3. pb.buf \in Buffers
  BY <1>2 DEF Posted
<1>4. /\ frames' \in Seq(Posted)
      /\ \A i \in DOMAIN frames' : i + 1 \in DOMAIN frames /\ frames'[i] = frames[i + 1]
      /\ \A i \in DOMAIN frames : i # 1 => i - 1 \in DOMAIN frames' /\ frames'[i - 1] = frames[i]
  BY <1>1
<1>5. pb.frame = frame[pb.buf] /\ Queued(pb.buf)
  BY <1>2, <1>3 DEF QueuedInv, Queued
<1>6. \A i \in DOMAIN frames : frames[i].buf = pb.buf => i = 1
  BY <1>2, <1>3 DEF QueuedInv
<1>7. ASSUME NEW c \in Buffers
      PROVE  (Queued(c)' <=> Queued(c) /\ c # pb.buf) /\ QueuedInv(c)'
  <2>1. Queued(c)' => Queued(c) /\ c # pb.buf
    <3> SUFFICES ASSUME NEW i \in DOMAIN frames', frames'[i].buf = c
                 PROVE  Queued(c) /\ c # pb.buf
      BY DEF Queued
    <3>1. i + 1 \in DOMAIN frames /\ frames[i + 1].buf = c /\ i + 1 # 1
      BY <1>1, <1>4
    <3>2. QED
      BY <1>6, <3>1 DEF Queued
  <2>2. Queued(c) /\ c # pb.buf => Queued(c)'
    <3> SUFFICES ASSUME NEW i \in DOMAIN frames, frames[i].buf = c, c # pb.buf
                 PROVE  \E j \in DOMAIN frames' : frames'[j].buf = c
      BY DEF Queued
    <3>1. i # 1
      BY <1>2
    <3>2. QED
      BY <1>4, <3>1
  <2>3. QueuedInv(c)'
    <3> SUFFICES ASSUME NEW i \in DOMAIN frames', frames'[i].buf = c
                 PROVE  /\ frames'[i].frame = frame[c]
                        /\ \A j \in DOMAIN frames' : frames'[j].buf = c => j = i
      BY DEF QueuedInv
    <3>1. i + 1 \in DOMAIN frames /\ frames[i + 1].buf = c /\ frames'[i] = frames[i + 1]
      BY <1>4
    <3>2. /\ frames[i + 1].frame = frame[c]
          /\ \A j \in DOMAIN frames : frames[j].buf = c => j = i + 1
      BY <3>1 DEF QueuedInv
    <3>3. \A j \in DOMAIN frames' : frames'[j].buf = c => j + 1 = i + 1
      BY <1>4, <3>2
    <3>4. i \in Int /\ \A j \in DOMAIN frames' : j \in Int
      BY <1>4
    <3>5. QED
      BY <3>1, <3>2, <3>3, <3>4
  <2>4. QED
    BY <2>1, <2>2, <2>3
<1>8. QED
  BY <1>2, <1>3, <1>4, <1>5, <1>7

\* A frame of a buffer that has none in the channel is handed over.
LEMMA AppendFacts ==
    ASSUME FrameTypeOK, \A c \in Buffers : QueuedInv(c), NEW pb \in Posted,
           frames' = Append(frames, pb), frame' = frame,
           pb.frame = frame[pb.buf], ~Queued(pb.buf)
    PROVE  /\ frames' \in Seq(Posted)
           /\ \A c \in Buffers : /\ Queued(c)' <=> Queued(c) \/ c = pb.buf
                                 /\ QueuedInv(c)'
<1>1. frames \in Seq(Posted)
  BY DEF FrameTypeOK
<1>2. PICK n : n = Len(frames) + 1
  OBVIOUS
<1>3. /\ frames' \in Seq(Posted) /\ DOMAIN frames' = DOMAIN frames \cup {n}
      /\ n \notin DOMAIN frames /\ frames'[n] = pb
      /\ \A i \in DOMAIN frames : frames'[i] = frames[i]
  BY <1>1, <1>2
<1>4. ASSUME NEW c \in Buffers
      PROVE  (Queued(c)' <=> Queued(c) \/ c = pb.buf) /\ QueuedInv(c)'
  <2>1. Queued(c)' <=> Queued(c) \/ c = pb.buf
    BY <1>3 DEF Queued
  <2>2. CASE c = pb.buf
    <3>1. \A i \in DOMAIN frames : frames[i].buf # c
      BY <2>2 DEF Queued
    <3>2. QED
      BY <1>3, <2>1, <2>2, <3>1 DEF QueuedInv
  <2>3. CASE c # pb.buf
    BY <1>3, <2>1, <2>3 DEF QueuedInv
  <2>4. QED
    BY <2>1, <2>2, <2>3
<1>5. QED
  BY <1>3, <1>4

\* A buffer the desktop does not have is committed.
LEMMA CommitFacts ==
    ASSUME FrameTypeOK, EventsInv, NEW x \in Scanout, Commit(x), ~AtDesktop(x)
    PROVE  /\ attached' \in Scanout \cup {Nil} /\ reading' \subseteq Scanout
           /\ events' \in Seq(Scanout)
           /\ EventsInv'
           /\ \A y : AtDesktop(y)' <=> AtDesktop(y) \/ y = x
<1>1. attached' = x /\ reading' = reading \cup {x} /\ events' = events
  BY DEF Commit
<1>2. \A i \in DOMAIN events : events[i] # x
  BY DEF AtDesktop
<1>3. EventsInv'
  BY <1>1, <1>2 DEF EventsInv
<1>4. \A y : AtDesktop(y)' <=> AtDesktop(y) \/ y = x
  BY <1>1 DEF AtDesktop
<1>5. QED
  BY <1>1, <1>3, <1>4 DEF FrameTypeOK

\* The presenter takes a release of the desktop: it was the last of that buffer.
LEMMA DispatchFacts ==
    ASSUME FrameTypeOK, EventsInv, events # <<>>, events' = Tail(events), reading' = reading,
           NEW x, x = Head(events)
    PROVE  /\ x \in Scanout /\ AtDesktop(x) /\ x \notin reading
           /\ events' \in Seq(Scanout)
           /\ EventsInv'
           /\ \A y : AtDesktop(y)' <=> AtDesktop(y) /\ y # x
<1>1. events \in Seq(Scanout)
  BY DEF FrameTypeOK
<1>2. /\ events' \in Seq(Scanout) /\ 1 \in DOMAIN events /\ x = events[1]
      /\ \A i \in DOMAIN events' : i \in Int /\ i + 1 \in DOMAIN events /\ i + 1 # 1
                                   /\ events'[i] = events[i + 1]
      /\ \A i \in DOMAIN events : i # 1 => i - 1 \in DOMAIN events' /\ events'[i - 1] = events[i]
  BY <1>1
<1>3. x \in Scanout /\ AtDesktop(x) /\ x \notin reading
  BY <1>1, <1>2 DEF AtDesktop, EventsInv
<1>4. EventsInv'
  <2>1. \A i \in DOMAIN events' : events'[i] \notin reading'
    BY <1>2 DEF EventsInv
  <2>2. ASSUME NEW i \in DOMAIN events', NEW j \in DOMAIN events', events'[i] = events'[j]
        PROVE  i = j
    <3>1. i + 1 = j + 1
      BY <1>2, <2>2 DEF EventsInv
    <3>2. i \in Int /\ j \in Int
      BY <1>2
    <3>3. QED
      BY <3>1, <3>2
  <2>3. QED
    BY <2>1, <2>2 DEF EventsInv
<1>5. ASSUME NEW y
      PROVE  AtDesktop(y)' <=> AtDesktop(y) /\ y # x
  <2>1. AtDesktop(y)' => AtDesktop(y)
    BY <1>2 DEF AtDesktop
  <2>2. AtDesktop(x)' => FALSE
    BY <1>2, <1>3 DEF AtDesktop, EventsInv
  <2>3. ASSUME AtDesktop(y), y # x
        PROVE  AtDesktop(y)'
    <3>1. CASE y \in reading
      BY <3>1 DEF AtDesktop
    <3>2. CASE y \notin reading
      <4>1. PICK i \in DOMAIN events : events[i] = y
        BY <2>3, <3>2 DEF AtDesktop
      <4>2. i # 1
        BY <1>2, <2>3, <4>1
      <4>3. QED
        BY <1>2, <4>1, <4>2 DEF AtDesktop
    <3>3. QED
      BY <3>1, <3>2
  <2>4. QED
    BY <2>1, <2>2, <2>3
<1>6. QED
  BY <1>2, <1>3, <1>4, <1>5

-----------------------------------------------------------------------------
(* A step keeps the invariant and is a step of BufferOwnership, or leaves  *)
(* what that speaks of as it is.                                           *)

Rendering == {b \in Buffers : submitted[b] = 0} \cup (Slots \ busy)
Scanning  == {b \in Buffers : Dmabuf(b) \in reading} \cup {i \in Slots : Shm(pool, i) \in reading}

OwnershipStep ==
    \/ Rendering' = Rendering /\ Scanning' = Scanning
    \/ \E r \in Buffers \cup Slots :
          \/ r \in Rendering /\ Rendering' = Rendering \ {r} /\ Scanning' = Scanning
          \/ r \notin Rendering /\ Scanning' = Scanning \cup {r} /\ Rendering' = Rendering
          \/ /\ r \in Rendering \ Scanning
             /\ Rendering' = Rendering \ {r} /\ Scanning' = Scanning \cup {r}
          \/ r \in Scanning /\ Scanning' = Scanning \ {r} /\ Rendering' = Rendering
          \/ /\ r \notin Rendering \cup Scanning
             /\ Rendering' = Rendering \cup {r} /\ Scanning' = Scanning
          \/ /\ r \in Slots
             /\ Rendering' = (Rendering \cup Slots) \ {r}
             /\ Scanning' = (Scanning \ Slots) \cup {r}
    \/ Rendering' = Rendering \cup Slots /\ Scanning' = Scanning \ Slots

\* These are the steps of BufferOwnership under the refinement mapping.
LEMMA OwnershipSteps == OwnershipStep <=> Ownership!Next \/ UNCHANGED Ownership!vars
BY DEF OwnershipStep, Rendering, Scanning, Ownership!Next, Ownership!vars, Ownership!Post,
       Ownership!Show, Ownership!Present, Ownership!Scanned, Ownership!GiveBack,
       Ownership!ReplaceAndPresent, Ownership!Replace

\* Where the buffers and the pool are stays the same while nobody takes a slot, and
\* the desktop and its releases do not change.
LEMMA DesktopRests ==
    ASSUME FrameInv, UNCHANGED <<pooled, pool, busy, reading, events>>
    PROVE  EventsInv' /\ SlotInv' /\ Scanning' = Scanning /\ \A x : AtDesktop(x)' = AtDesktop(x)
BY DEF FrameInv, EventsInv, SlotInv, Scanning, AtDesktop

\* An allocation gives a queue buffers that are nowhere else.
LEMMA AllocateStep ==
    ASSUME FrameInv, NEW q \in Queues, Allocate(q)
    PROVE  FrameInv' /\ OwnershipStep
<1> USE DEF FrameInv
<1>1. PICK made \in SUBSET {b \in Buffers \ gralloc : QueueOf[b] = q} :
         /\ MakeBuffers(made)
         /\ held' = held \cup made \/ held' = held
  BY DEF Allocate
<1>2. UNCHANGED <<frame, submitted, channel, cached, call, frames, alive, imported, inFlight,
                  pooled, pool, busy, nextSlot, dirty, resized, attached, reading, events, releases>>
  BY DEF Allocate, composerVars, presenterVars, importVars, poolVars, desktopVars
<1>3. /\ gralloc' = gralloc \cup made /\ gbm \subseteq gbm' /\ gbm' \subseteq gralloc'
      /\ gralloc' \subseteq Buffers
  BY <1>1 DEF MakeBuffers, FrameTypeOK
<1>4. FrameTypeOK'
  BY <1>1, <1>2, <1>3 DEF FrameTypeOK
<1>5. EventsInv' /\ SlotInv' /\ Scanning' = Scanning /\ \A x : AtDesktop(x)' = AtDesktop(x)
  BY <1>2, DesktopRests
<1>6. CachedInv'
  BY <1>2 DEF CachedInv, InCall
<1>7. ASSUME NEW c \in Buffers
      PROVE  BufferInv(c)'
  <2>1. /\ InCall(c)' = InCall(c) /\ Queued(c)' = Queued(c) /\ Shown(c)' = Shown(c)
        /\ Freed(c)' = Freed(c) /\ Homing(c)' = Homing(c)
        /\ NumberInv(c)' = NumberInv(c) /\ QueuedInv(c)' = QueuedInv(c)
    BY <1>2 DEF InCall, Queued, Shown, Freed, Homing, NumberInv, QueuedInv
  <2>2. HeldInv(c)'
    BY <1>1, <1>2, <1>3, <2>1 DEF BufferInv, HeldInv
  <2>3. QED
    BY <1>2, <1>5, <2>1, <2>2 DEF BufferInv, WayInv, DesktopInv
<1>8. OwnershipStep
  BY <1>2, <1>5 DEF OwnershipStep, Rendering
<1>9. QED
  BY <1>4, <1>5, <1>6, <1>7, <1>8

\* A queue that submits a buffer lets go of it.
LEMMA SetTransactionStateStep ==
    ASSUME FrameInv, NEW b \in Buffers, SetTransactionState(b)
    PROVE  FrameInv' /\ OwnershipStep
<1> USE DEF FrameInv
<1>1. PICK q : q = QueueOf[b]
  OBVIOUS
<1>2. PICK whole \in BOOLEAN :
         /\ frame[b] = 0 => whole
         /\ call' = [call EXCEPT ![q] = [buf |-> b, whole |-> whole]]
  BY <1>1 DEF SetTransactionState
<1>3. /\ b \in held /\ call[q] = Nil /\ q \in Queues
      /\ held' = held \ {b}
      /\ frame' = [frame EXCEPT ![b] = @ + 1]
      /\ submitted' = [submitted EXCEPT ![b] = frame[b] + 1]
      /\ channel' = FindReleaseChannel(q)
      /\ UNCHANGED <<gralloc, gbm, cached, frames, alive, imported, inFlight, pooled, pool, busy,
                     nextSlot, dirty, resized, attached, reading, events, releases>>
  BY <1>1, FrameAssumption DEF SetTransactionState, sharedVars, presenterVars, importVars, poolVars,
                               desktopVars
<1>4. PICK parcel : parcel = [buf |-> b, whole |-> whole]
  OBVIOUS
<1>5. parcel \in Parcel /\ parcel # Nil /\ parcel.buf = b /\ parcel.whole = whole
  BY <1>4, FrameAssumption DEF Parcel
<1>6. call' = [call EXCEPT ![q] = parcel] /\ call \in [Queues -> Parcel \cup {Nil}]
  BY <1>2, <1>4 DEF FrameTypeOK
<1>7. /\ frame \in [Buffers -> Nat] /\ submitted \in [Buffers -> Nat]
      /\ frame'[b] = frame[b] + 1 /\ submitted'[b] = frame[b] + 1 /\ frame[b] \in Nat
      /\ \A c \in Buffers : c # b => frame'[c] = frame[c] /\ submitted'[c] = submitted[c]
  BY <1>3 DEF FrameTypeOK
<1>8. FrameTypeOK'
  <2>1. channel' \in Queues \cup {Nil}
    BY <1>3 DEF FindReleaseChannel, FrameTypeOK
  <2>2. frame' \in [Buffers -> Nat] /\ submitted' \in [Buffers -> Nat]
    BY <1>3, <1>7
  <2>3. call' \in [Queues -> Parcel \cup {Nil}]
    BY <1>5, <1>6
  <2>4. held' \subseteq gralloc'
    BY <1>3 DEF FrameTypeOK
  <2>5. QED
    BY <1>3, <2>1, <2>2, <2>3, <2>4 DEF FrameTypeOK
<1>9. EventsInv' /\ SlotInv' /\ Scanning' = Scanning /\ \A x : AtDesktop(x)' = AtDesktop(x)
  BY <1>3, DesktopRests
<1>10. submitted[b] = 0 /\ ~InCall(b) /\ ~Queued(b) /\ ~Shown(b)
  BY <1>3 DEF BufferInv, HeldInv
<1>11. \A c \in Buffers : InCall(c)' <=> InCall(c) \/ c = b
  <2> SUFFICES ASSUME NEW c \in Buffers PROVE InCall(c)' <=> InCall(c) \/ c = b
    OBVIOUS
  <2>1. QueueOf[c] \in Queues
    BY FrameAssumption
  <2>2. CASE QueueOf[c] = q
    <3>1. call'[QueueOf[c]] = parcel /\ call[QueueOf[c]] = Nil
      BY <1>3, <1>6, <2>1, <2>2
    <3>2. QED
      BY <1>5, <3>1 DEF InCall
  <2>3. CASE QueueOf[c] # q
    <3>1. call'[QueueOf[c]] = call[QueueOf[c]] /\ c # b
      BY <1>1, <1>6, <2>1, <2>3
    <3>2. QED
      BY <3>1 DEF InCall
  <2>4. QED
    BY <2>2, <2>3
<1>12. CachedInv'
  <2>1. \A p \in Queues : call'[p] # Nil => QueueOf[call'[p].buf] = p
    BY <1>1, <1>5, <1>6 DEF CachedInv
  <2>2. ASSUME NEW c \in Buffers
        PROVE  \/ frame'[c] = 0 \/ cached'[c] \in Queues \cup {Nil}
               \/ InCall(c)' /\ call'[QueueOf[c]].whole
    <3>1. CASE c = b
      <4>1. call'[QueueOf[b]] = parcel
        BY <1>1, <1>3, <1>6
      <4>2. frame[b] = 0 \/ cached[b] \in Queues \cup {Nil}
        BY <1>10 DEF CachedInv
      <4>3. QED
        BY <1>2, <1>3, <1>5, <1>11, <3>1, <4>1, <4>2
    <3>2. CASE c # b
      <4>1. CASE QueueOf[c] = q
        <5>1. ~InCall(c)
          BY <1>3, <4>1 DEF InCall
        <5>2. QED
          BY <1>3, <1>7, <3>2, <5>1 DEF CachedInv
      <4>2. CASE QueueOf[c] # q
        <5>1. call'[QueueOf[c]] = call[QueueOf[c]]
          BY <1>6, <4>2, FrameAssumption
        <5>2. QED
          BY <1>3, <1>7, <1>11, <3>2, <5>1 DEF CachedInv
      <4>3. QED
        BY <4>1, <4>2
    <3>3. QED
      BY <3>1, <3>2
  <2>3. QED
    BY <2>1, <2>2 DEF CachedInv
<1>13. ASSUME NEW c \in Buffers
       PROVE  BufferInv(c)'
  <2>1. Queued(c)' = Queued(c) /\ Shown(c)' = Shown(c)
    BY <1>3 DEF Queued, Shown
  <2>2. CASE c = b
    <3>1. ~Freed(b)' /\ \A m \in releases' : m.buf = b => m.frame <= frame'[b]
      <4>1. \A m \in releases : m.buf = b => m.frame <= frame[b]
        BY DEF BufferInv, NumberInv
      <4>2. \A m \in releases : m.frame \in Nat
        BY DEF FrameTypeOK
      <4>3. \A m \in releases : m.buf = b => m.frame # frame'[b] /\ m.frame <= frame'[b]
        BY <1>7, <4>1, <4>2
      <4>4. QED
        BY <1>3, <4>3 DEF Freed
    <3>2. HeldInv(b)'
      <4>1. b \in gralloc
        BY <1>3 DEF FrameTypeOK
      <4>2. submitted'[b] # 0 /\ submitted'[b] = frame'[b]
        BY <1>7
      <4>3. QED
        BY <1>3, <3>1, <4>1, <4>2 DEF HeldInv
    <3>3. WayInv(b)'
      BY <1>10, <1>11, <2>1, <2>2 DEF WayInv
    <3>4. NumberInv(b)'
      BY <1>10, <2>1, <2>2, <3>1 DEF NumberInv
    <3>5. QueuedInv(b)'
      BY <1>10, <2>1, <2>2 DEF QueuedInv, Queued
    <3>6. DesktopInv(b)'
      BY <1>9, <2>1, <2>2 DEF DesktopInv, BufferInv
    <3>7. QED
      BY <2>2, <3>2, <3>3, <3>4, <3>5, <3>6 DEF BufferInv
  <2>3. CASE c # b
    <3>1. (Freed(c)' <=> Freed(c)) /\ (Homing(c)' <=> Homing(c)) /\ (InCall(c)' <=> InCall(c))
      <4>1. Freed(c)' <=> Freed(c)
        BY <1>3, <1>7, <2>3 DEF Freed
      <4>2. Homing(c)' <=> Homing(c)
        BY <1>3, <1>7, <2>3 DEF Homing
      <4>3. QED
        BY <1>11, <2>3, <4>1, <4>2
    <3>2. HeldInv(c)'
      BY <1>3, <1>7, <2>1, <2>3, <3>1 DEF BufferInv, HeldInv
    <3>3. NumberInv(c)' /\ QueuedInv(c)'
      BY <1>3, <1>7, <2>1, <2>3 DEF BufferInv, NumberInv, QueuedInv
    <3>4. QED
      BY <1>3, <1>7, <1>9, <2>1, <2>3, <3>1, <3>2, <3>3 DEF BufferInv, WayInv, DesktopInv
  <2>4. QED
    BY <2>2, <2>3
<1>14. OwnershipStep
  <2>1. b \in Rendering
    BY <1>10 DEF Rendering
  <2>2. Rendering' = Rendering \ {b}
    BY <1>3, <1>7, FrameAssumption DEF Rendering
  <2>3. QED
    BY <1>9, <2>1, <2>2 DEF OwnershipStep
<1>15. QED
  BY <1>8, <1>9, <1>12, <1>13, <1>14

\* The composer hands the buffer of a handler over: to the presenter, or back.
LEMMA ParsePostedBufferStep ==
    ASSUME FrameInv, NEW q \in Queues, ParsePostedBuffer(q)
    PROVE  FrameInv' /\ OwnershipStep
<1> USE DEF FrameInv
<1>1. PICK parcel : parcel = call[q]
  OBVIOUS
<1>2. PICK b : b = parcel.buf
  OBVIOUS
<1>3. PICK pb : pb = [buf |-> b, frame |-> frame[b], channel |-> CachedFrom(parcel)[b]]
  OBVIOUS
<1>4. /\ parcel # Nil /\ Handover(pb)
      /\ cached' = CachedFrom(parcel)
      /\ call' = [call EXCEPT ![q] = Nil]
      /\ UNCHANGED <<gralloc, gbm, held, frame, submitted, channel, alive, imported, inFlight, pooled,
                     pool, busy, nextSlot, dirty, resized, attached, reading, events>>
  BY <1>1, <1>2, <1>3 DEF ParsePostedBuffer, sharedVars, queueVars, presenterVars, importVars, poolVars,
                          desktopVars
<1>5. parcel \in Parcel /\ b \in Buffers /\ QueueOf[b] = q /\ InCall(b)
      /\ call \in [Queues -> Parcel \cup {Nil}]
  BY <1>1, <1>2, <1>4 DEF FrameTypeOK, CachedInv, Parcel, InCall
<1>6. /\ submitted[b] # 0 /\ submitted[b] = frame[b] /\ frame[b] \in Nat \ {0}
      /\ ~Freed(b) /\ ~Queued(b) /\ ~Shown(b) /\ b \in gralloc
  BY <1>5 DEF BufferInv, HeldInv, WayInv, FrameTypeOK
<1>7. /\ cached' \in [Buffers -> Queues \cup {"unknown", Nil}]
      /\ cached'[b] \in Queues \cup {Nil}
      /\ \A c \in Buffers : c # b => cached'[c] = cached[c]
  <2>1. cached \in [Buffers -> Queues \cup {"unknown", Nil}] /\ channel \in Queues \cup {Nil}
    BY DEF FrameTypeOK
  <2>2. CASE parcel.whole
    BY <1>2, <1>4, <1>5, <2>1, <2>2 DEF CachedFrom
  <2>3. CASE ~parcel.whole
    <3>1. cached' = cached
      BY <1>4, <2>3 DEF CachedFrom
    <3>2. cached[b] \in Queues \cup {Nil}
      BY <1>1, <1>5, <1>6, <2>3 DEF CachedInv
    <3>3. QED
      BY <2>1, <3>1, <3>2
  <2>4. QED
    BY <2>2, <2>3
<1>8. pb \in Posted /\ pb.buf = b /\ pb.frame = frame[b]
  BY <1>3, <1>4, <1>5, <1>6, <1>7 DEF Posted
<1>9. ASSUME NEW c \in Buffers
      PROVE  InCall(c)' <=> InCall(c) /\ c # b
  <2>1. QueueOf[c] \in Queues
    BY FrameAssumption
  <2>2. CASE QueueOf[c] = q
    <3>1. call'[QueueOf[c]] = Nil
      BY <1>4, <1>5, <2>1, <2>2
    <3>2. InCall(c) => c = b
      BY <1>1, <1>2, <2>2 DEF InCall
    <3>3. QED
      BY <3>1, <3>2 DEF InCall
  <2>3. CASE QueueOf[c] # q
    <3>1. call'[QueueOf[c]] = call[QueueOf[c]]
      BY <1>4, <1>5, <2>1, <2>3
    <3>2. QED
      BY <1>5, <2>3, <3>1 DEF InCall
  <2>4. QED
    BY <2>2, <2>3
<1>10. EventsInv' /\ SlotInv' /\ Scanning' = Scanning /\ \A x : AtDesktop(x)' = AtDesktop(x)
  BY <1>4, DesktopRests
<1>11. CachedInv'
  <2>1. \A p \in Queues : call'[p] # Nil => QueueOf[call'[p].buf] = p
    BY <1>4, <1>5 DEF CachedInv
  <2>2. ASSUME NEW c \in Buffers
        PROVE  \/ frame'[c] = 0 \/ cached'[c] \in Queues \cup {Nil}
               \/ InCall(c)' /\ call'[QueueOf[c]].whole
    <3>1. CASE c = b
      BY <1>7, <3>1
    <3>2. CASE c # b
      <4>1. CASE QueueOf[c] = q
        <5>1. ~InCall(c)
          BY <1>1, <1>2, <3>2, <4>1 DEF InCall
        <5>2. QED
          BY <1>4, <1>7, <3>2, <5>1 DEF CachedInv
      <4>2. CASE QueueOf[c] # q
        <5>1. call'[QueueOf[c]] = call[QueueOf[c]]
          BY <1>4, <1>5, <4>2, FrameAssumption
        <5>2. QED
          BY <1>4, <1>7, <1>9, <3>2, <5>1 DEF CachedInv
      <4>3. QED
        BY <4>1, <4>2
    <3>3. QED
      BY <3>1, <3>2
  <2>3. QED
    BY <2>1, <2>2 DEF CachedInv
<1>12. call' \in [Queues -> Parcel \cup {Nil}]
  BY <1>4, <1>5
<1>13. OwnershipStep
  BY <1>4, <1>10 DEF OwnershipStep, Rendering
<1>14. \A c \in Buffers : Shown(c)' = Shown(c)
  BY <1>4 DEF Shown
<1>15. CASE alive /\ b \in gralloc
  <2>1. frames' = Append(frames, pb) /\ releases' = releases
    BY <1>4, <1>8, <1>15 DEF Handover
  <2>2. /\ frames' \in Seq(Posted)
        /\ \A c \in Buffers : (Queued(c)' <=> Queued(c) \/ c = b) /\ QueuedInv(c)'
    BY <1>4, <1>6, <1>8, <2>1, AppendFacts DEF BufferInv
  <2>3. FrameTypeOK'
    BY <1>4, <1>7, <1>12, <2>1, <2>2 DEF FrameTypeOK
  <2>4. ASSUME NEW c \in Buffers
        PROVE  BufferInv(c)'
    <3>1. (Freed(c)' <=> Freed(c)) /\ (Homing(c)' <=> Homing(c)) /\ (NumberInv(c)' <=> NumberInv(c))
      BY <1>4, <2>1 DEF Freed, Homing, NumberInv, Shown
    <3>2. HeldInv(c)'
      BY <1>4, <1>6, <1>9, <1>14, <2>2, <3>1 DEF BufferInv, HeldInv
    <3>3. WayInv(c)'
      BY <1>4, <1>6, <1>9, <1>14, <2>2, <3>1 DEF BufferInv, WayInv
    <3>4. QED
      BY <1>10, <1>14, <2>2, <3>1, <3>2, <3>3 DEF BufferInv, DesktopInv
  <2>5. QED
    BY <1>10, <1>11, <1>13, <2>3, <2>4
<1>16. CASE ~(alive /\ b \in gralloc)
  <2>1. Release(pb) /\ frames' = frames
    BY <1>4, <1>8, <1>16 DEF Handover
  <2>2. /\ releases' \subseteq Messages
        /\ \A c \in Buffers :
              /\ Freed(c)' <=> Freed(c) \/ c = b
              /\ \A m \in releases' : m.buf = c => m.frame <= frame[c]
              /\ Homing(c) => Homing(c)'
        /\ submitted[b] = frame[b] => Homing(b)'
    BY <1>4, <1>8, <2>1, ReleasedFacts DEF BufferInv
  <2>3. FrameTypeOK'
    BY <1>4, <1>7, <1>12, <2>1, <2>2 DEF FrameTypeOK, Messages
  <2>4. ASSUME NEW c \in Buffers
        PROVE  BufferInv(c)'
    <3>1. Queued(c)' = Queued(c) /\ QueuedInv(c)' = QueuedInv(c)
      BY <1>4, <2>1 DEF Queued, QueuedInv
    <3>2. HeldInv(c)'
      BY <1>4, <1>6, <1>9, <1>14, <2>2, <3>1 DEF BufferInv, HeldInv
    <3>3. WayInv(c)'
      BY <1>4, <1>6, <1>9, <1>14, <2>2, <3>1 DEF BufferInv, WayInv
    <3>4. NumberInv(c)'
      BY <1>4, <2>2 DEF BufferInv, NumberInv, Shown
    <3>5. QED
      BY <1>10, <1>14, <3>1, <3>2, <3>3, <3>4 DEF BufferInv, DesktopInv
  <2>5. QED
    BY <1>10, <1>11, <1>13, <2>3, <2>4
<1>17. QED
  BY <1>15, <1>16

\* A queue gets a buffer back by the release of the frame it waits for.
LEMMA TakeReleaseStep ==
    ASSUME FrameInv, NEW m \in releases, TakeRelease(m)
    PROVE  FrameInv' /\ OwnershipStep
<1> USE DEF FrameInv
<1>1. /\ releases' = releases \ {m}
      /\ UNCHANGED <<gralloc, gbm, frame, channel, cached, call, frames, alive, imported, inFlight,
                     pooled, pool, busy, nextSlot, dirty, resized, attached, reading, events>>
  BY DEF TakeRelease, sharedVars, composerVars, presenterVars, importVars, poolVars, desktopVars
<1>2. PICK b : b = m.buf
  OBVIOUS
<1>3. b \in Buffers /\ m.frame \in Nat \ {0} /\ m.to \in Queues
      /\ m = [to |-> m.to, buf |-> b, frame |-> m.frame]
  BY <1>2 DEF FrameTypeOK
<1>4. EventsInv' /\ SlotInv' /\ Scanning' = Scanning /\ \A x : AtDesktop(x)' = AtDesktop(x)
  BY <1>1, DesktopRests
<1>5. CachedInv'
  BY <1>1 DEF CachedInv, InCall
<1>6. ASSUME NEW c \in Buffers
      PROVE  /\ InCall(c)' = InCall(c) /\ Queued(c)' = Queued(c) /\ Shown(c)' = Shown(c)
             /\ QueuedInv(c)' = QueuedInv(c)
             /\ Freed(c)' => Freed(c)
             /\ NumberInv(c)'
  BY <1>1 DEF InCall, Queued, Shown, QueuedInv, Freed, NumberInv, BufferInv
<1>7. CASE m.to = QueueOf[b] /\ submitted[b] = m.frame
  <2>1. held' = held \cup {b} /\ submitted' = [submitted EXCEPT ![b] = 0]
    BY <1>2, <1>7 DEF TakeRelease
  <2>2. /\ submitted'[b] = 0 /\ submitted \in [Buffers -> Nat]
        /\ submitted' \in [Buffers -> Nat]
        /\ \A c \in Buffers : c # b => submitted'[c] = submitted[c]
    BY <1>3, <2>1 DEF FrameTypeOK
  <2>3. submitted[b] # 0 /\ frame[b] = m.frame /\ Freed(b) /\ b \in gralloc
    BY <1>2, <1>3, <1>7 DEF BufferInv, HeldInv, Freed
  <2>4. ~InCall(b) /\ ~Queued(b) /\ ~Shown(b)
    BY <1>3, <2>3 DEF BufferInv, HeldInv
  <2>5. FrameTypeOK'
    BY <1>1, <2>1, <2>2, <2>3 DEF FrameTypeOK
  <2>6. ASSUME NEW c \in Buffers
        PROVE  BufferInv(c)'
    <3>1. CASE c = b
      <4>1. HeldInv(b)'
        BY <1>1, <1>6, <2>2, <2>3, <2>4, <3>1 DEF HeldInv
      <4>2. WayInv(b)'
        BY <1>6, <2>2, <2>4, <3>1 DEF WayInv
      <4>3. QED
        BY <1>4, <1>6, <3>1, <4>1, <4>2 DEF BufferInv, DesktopInv
    <3>2. CASE c # b
      <4>1. HeldInv(c)'
        BY <1>1, <1>6, <2>1, <2>2, <3>2 DEF BufferInv, HeldInv
      <4>2. Homing(c) => Homing(c)'
        BY <1>1, <1>3, <2>2, <3>2 DEF Homing
      <4>3. WayInv(c)'
        BY <1>1, <1>6, <2>2, <3>2, <4>2 DEF BufferInv, WayInv
      <4>4. QED
        BY <1>4, <1>6, <3>2, <4>1, <4>3 DEF BufferInv, DesktopInv
    <3>3. QED
      BY <3>1, <3>2
  <2>7. OwnershipStep
    <3>1. b \notin Rendering \cup Scanning
      BY <1>3, <2>3, <2>4, FrameAssumption DEF Rendering, Scanning, BufferInv, DesktopInv, AtDesktop
    <3>2. Rendering' = Rendering \cup {b}
      BY <1>1, <1>3, <2>2 DEF Rendering
    <3>3. QED
      BY <1>3, <1>4, <3>1, <3>2 DEF OwnershipStep
  <2>8. QED
    BY <1>4, <1>5, <2>5, <2>6, <2>7
<1>8. CASE ~(m.to = QueueOf[b] /\ submitted[b] = m.frame)
  <2>1. UNCHANGED <<held, submitted>>
    BY <1>2, <1>8 DEF TakeRelease
  <2>2. FrameTypeOK'
    BY <1>1, <2>1 DEF FrameTypeOK
  <2>3. ASSUME NEW c \in Buffers
        PROVE  BufferInv(c)'
    <3>1. HeldInv(c)'
      BY <1>1, <1>6, <2>1 DEF BufferInv, HeldInv
    <3>2. Homing(c) => Homing(c)'
      BY <1>1, <1>3, <1>8, <2>1 DEF Homing
    <3>3. WayInv(c)'
      BY <1>1, <1>6, <2>1, <3>2 DEF BufferInv, WayInv
    <3>4. QED
      BY <1>4, <1>6, <3>1, <3>3 DEF BufferInv, DesktopInv
  <2>4. OwnershipStep
    BY <1>1, <1>4, <2>1 DEF OwnershipStep, Rendering
  <2>5. QED
    BY <1>4, <1>5, <2>2, <2>3, <2>4
<1>9. QED
  BY <1>7, <1>8

\* The presenter gives a frame's buffer back at once: it could not be shown, or its
\* pixels were copied.
LEMMA DropOrCopyStep ==
    ASSUME FrameInv, Drop \/ Copy
    PROVE  FrameInv' /\ OwnershipStep
<1> USE DEF FrameInv
<1>1. PICK pb : pb = Head(frames)
  OBVIOUS
<1>2. /\ Take /\ Release(pb)
      /\ dirty' \in BOOLEAN /\ resized' \in BOOLEAN
      /\ UNCHANGED <<gralloc, gbm, held, frame, submitted, channel, cached, call, alive, imported,
                     inFlight, pooled, pool, busy, nextSlot, attached, reading, events>>
  BY <1>1 DEF Drop, Copy, elsewhere, sharedVars, queueVars, composerVars, presenterVars, importVars,
              poolVars, desktopVars, FrameTypeOK
<1>3. PICK b : b = pb.buf
  OBVIOUS
<1>4. /\ pb \in Posted /\ b \in Buffers /\ pb.frame = frame[b] /\ Queued(b)
      /\ frames' \in Seq(Posted)
      /\ \A c \in Buffers : (Queued(c)' <=> Queued(c) /\ c # b) /\ QueuedInv(c)'
  BY <1>1, <1>2, <1>3, TakeFacts DEF BufferInv
<1>5. submitted[b] # 0 /\ submitted[b] = frame[b] /\ ~InCall(b) /\ ~Shown(b)
  BY <1>4 DEF BufferInv, HeldInv, WayInv
<1>6. /\ releases' \subseteq Messages
      /\ \A c \in Buffers :
            /\ Freed(c)' <=> Freed(c) \/ c = b
            /\ \A m \in releases' : m.buf = c => m.frame <= frame[c]
            /\ Homing(c) => Homing(c)'
      /\ Homing(b)'
  BY <1>2, <1>3, <1>4, <1>5, ReleasedFacts DEF BufferInv
<1>7. EventsInv' /\ SlotInv' /\ Scanning' = Scanning /\ \A x : AtDesktop(x)' = AtDesktop(x)
  BY <1>2, DesktopRests
<1>8. CachedInv'
  BY <1>2 DEF CachedInv, InCall
<1>9. FrameTypeOK'
  BY <1>2, <1>4, <1>6 DEF FrameTypeOK, Messages
<1>10. ASSUME NEW c \in Buffers
       PROVE  BufferInv(c)'
  <2>1. InCall(c)' = InCall(c) /\ Shown(c)' = Shown(c)
    BY <1>2 DEF InCall, Shown
  <2>2. HeldInv(c)'
    BY <1>2, <1>4, <1>5, <1>6, <2>1 DEF BufferInv, HeldInv
  <2>3. WayInv(c)'
    BY <1>2, <1>4, <1>5, <1>6, <2>1 DEF BufferInv, WayInv
  <2>4. NumberInv(c)'
    BY <1>2, <1>6, <2>1 DEF BufferInv, NumberInv
  <2>5. QED
    BY <1>4, <1>7, <2>1, <2>2, <2>3, <2>4 DEF BufferInv, DesktopInv
<1>11. OwnershipStep
  BY <1>2, <1>7 DEF OwnershipStep, Rendering
<1>12. QED
  BY <1>7, <1>8, <1>9, <1>10, <1>11

\* What the desktop reads is told apart by what it is.
LEMMA ScanoutKinds ==
    /\ \A b, c : Dmabuf(b) = Dmabuf(c) => b = c
    /\ \A n, i, k, j : Shm(n, i) = Shm(k, j) => n = k /\ i = j
    /\ \A b, n, i : Dmabuf(b) # Shm(n, i)
    /\ \A b \in Buffers : Dmabuf(b) \in Scanout
    /\ \A n \in 1 .. MaxPools, i \in Slots : Shm(n, i) \in Scanout
    /\ \A x \in Scanout : \/ x.kind # "shm" /\ x.buf \in Buffers /\ x = Dmabuf(x.buf)
                          \/ /\ x.kind = "shm" /\ x.pool \in 1 .. MaxPools /\ x.slot \in Slots
                             /\ x = Shm(x.pool, x.slot)
<1>1. \A b, c : Dmabuf(b) = Dmabuf(c) => b = c
  BY DEF Dmabuf
<1>2. \A n, i, k, j : Shm(n, i) = Shm(k, j) => n = k /\ i = j
  BY DEF Shm
<1>3. \A b, n, i : Dmabuf(b) # Shm(n, i)
  <2> SUFFICES ASSUME NEW b, NEW n, NEW i PROVE Dmabuf(b) # Shm(n, i)
    OBVIOUS
  <2>1. Dmabuf(b).kind = "dmabuf" /\ Shm(n, i).kind = "shm"
    BY DEF Dmabuf, Shm
  <2>2. QED
    BY <2>1
<1>4. \A b \in Buffers : Dmabuf(b) \in Scanout
  BY DEF Dmabuf, Scanout
<1>5. \A n \in 1 .. MaxPools, i \in Slots : Shm(n, i) \in Scanout
  BY DEF Shm, Scanout
<1>6. \A x \in Scanout : \/ x.kind # "shm" /\ x.buf \in Buffers /\ x = Dmabuf(x.buf)
                         \/ /\ x.kind = "shm" /\ x.pool \in 1 .. MaxPools /\ x.slot \in Slots
                            /\ x = Shm(x.pool, x.slot)
  BY DEF Dmabuf, Shm, Scanout
<1>7. QED
  BY <1>1, <1>2, <1>3, <1>4, <1>5, <1>6

\* A buffer of the GPU is attached itself: from then on it is the desktop's.
LEMMA ZeroCopyStep ==
    ASSUME FrameInv, ZeroCopy
    PROVE  FrameInv' /\ OwnershipStep
<1> USE DEF FrameInv
<1>1. PICK pb : pb = Head(frames)
  OBVIOUS
<1>2. PICK b : b = pb.buf
  OBVIOUS
<1>3. /\ Take /\ b \in gbm /\ imported' = imported \cup {b}
      /\ Commit(Dmabuf(b))
      /\ inFlight' = [inFlight EXCEPT ![b] = pb]
      /\ UNCHANGED <<gralloc, gbm, held, frame, submitted, channel, cached, call, alive, pooled, pool,
                     busy, nextSlot, dirty, resized, releases>>
  BY <1>1, <1>2 DEF ZeroCopy, elsewhere, sharedVars, queueVars, composerVars, poolVars
<1>4. /\ pb \in Posted /\ b \in Buffers /\ pb.frame = frame[b] /\ Queued(b)
      /\ frames' \in Seq(Posted)
      /\ \A c \in Buffers : (Queued(c)' <=> Queued(c) /\ c # b) /\ QueuedInv(c)'
  BY <1>1, <1>2, <1>3, TakeFacts DEF BufferInv
<1>5. submitted[b] # 0 /\ ~InCall(b) /\ ~Shown(b) /\ ~Freed(b) /\ ~AtDesktop(Dmabuf(b))
  BY <1>4 DEF BufferInv, HeldInv, WayInv, DesktopInv
<1>6. pb # Nil
  BY <1>4, FrameAssumption
<1>7. /\ inFlight' \in [Buffers -> Posted \cup {Nil}] /\ inFlight'[b] = pb
      /\ \A c \in Buffers : c # b => inFlight'[c] = inFlight[c]
  BY <1>3, <1>4 DEF FrameTypeOK
<1>8. /\ attached' \in Scanout \cup {Nil} /\ reading' \subseteq Scanout /\ events' \in Seq(Scanout)
      /\ EventsInv'
      /\ \A y : AtDesktop(y)' <=> AtDesktop(y) \/ y = Dmabuf(b)
  BY <1>3, <1>4, <1>5, CommitFacts, ScanoutKinds
<1>9. FrameTypeOK'
  BY <1>3, <1>4, <1>7, <1>8 DEF FrameTypeOK
<1>10. CachedInv'
  BY <1>3 DEF CachedInv, InCall
<1>11. SlotInv'
  BY <1>3, <1>8, ScanoutKinds DEF SlotInv
<1>12. ASSUME NEW c \in Buffers
       PROVE  BufferInv(c)'
  <2>1. InCall(c)' = InCall(c) /\ Freed(c)' = Freed(c) /\ Homing(c)' = Homing(c)
    BY <1>3 DEF InCall, Freed, Homing
  <2>2. Shown(c)' <=> Shown(c) \/ c = b
    BY <1>6, <1>7 DEF Shown
  <2>3. HeldInv(c)'
    BY <1>3, <1>4, <1>5, <2>1, <2>2 DEF BufferInv, HeldInv
  <2>4. WayInv(c)'
    BY <1>3, <1>4, <1>5, <2>1, <2>2 DEF BufferInv, WayInv
  <2>5. NumberInv(c)'
    BY <1>2, <1>3, <1>4, <1>7, <2>2 DEF BufferInv, NumberInv, Shown
  <2>6. DesktopInv(c)'
    BY <1>8, <2>2, ScanoutKinds DEF BufferInv, DesktopInv
  <2>7. QED
    BY <1>4, <2>3, <2>4, <2>5, <2>6 DEF BufferInv
<1>13. OwnershipStep
  <2>1. b \notin Rendering
    BY <1>4, <1>5, FrameAssumption DEF Rendering
  <2>2. Rendering' = Rendering
    BY <1>3 DEF Rendering
  <2>3. reading' = reading \cup {Dmabuf(b)} /\ pool' = pool
    BY <1>3 DEF Commit
  <2>4. Scanning' = Scanning \cup {b}
    BY <1>4, <2>3, ScanoutKinds DEF Scanning
  <2>5. QED
    BY <1>4, <2>1, <2>2, <2>4 DEF OwnershipStep
<1>14. QED
  BY <1>8, <1>9, <1>10, <1>11, <1>12, <1>13

\* A step that touches only slots leaves the buffers on their ways.
LEMMA BuffersRest ==
    ASSUME FrameInv, FrameTypeOK',
           UNCHANGED <<gralloc, held, frame, submitted, cached, call, frames, alive, inFlight, releases>>,
           \A c \in Buffers : AtDesktop(Dmabuf(c))' <=> AtDesktop(Dmabuf(c))
    PROVE  CachedInv' /\ \A c \in Buffers : BufferInv(c)'
<1> USE DEF FrameInv
<1>1. CachedInv'
  BY DEF CachedInv, InCall
<1>2. ASSUME NEW c \in Buffers
      PROVE  BufferInv(c)'
  <2>1. /\ InCall(c)' = InCall(c) /\ Queued(c)' = Queued(c) /\ Shown(c)' = Shown(c)
        /\ Freed(c)' = Freed(c) /\ Homing(c)' = Homing(c)
    BY DEF InCall, Queued, Shown, Freed, Homing
  <2>2. HeldInv(c)' /\ WayInv(c)'
    BY <2>1 DEF BufferInv, HeldInv, WayInv
  <2>3. NumberInv(c)' /\ QueuedInv(c)'
    BY <2>1 DEF BufferInv, NumberInv, QueuedInv
  <2>4. DesktopInv(c)'
    BY <2>1 DEF BufferInv, DesktopInv
  <2>5. QED
    BY <2>2, <2>3, <2>4 DEF BufferInv
<1>3. QED
  BY <1>1, <1>2

\* The composition is drawn into a slot the desktop does not read: a free one of the
\* pool, or the first one of a new pool.
LEMMA ShowCompositeStep ==
    ASSUME FrameInv, ShowComposite
    PROVE  FrameInv' /\ OwnershipStep
<1> USE DEF FrameInv
<1>1. PICK n : n = IF NeedsPool THEN pool + 1 ELSE pool
  OBVIOUS
<1>2. PICK used : used = IF NeedsPool THEN {} ELSE busy
  OBVIOUS
<1>3. PICK from : from = IF NeedsPool THEN 0 ELSE nextSlot
  OBVIOUS
<1>4. PICK i : i = FirstFree(from, used)
  OBVIOUS
<1>5. /\ used # Slots /\ pool' = n /\ pooled' = TRUE /\ busy' = used \cup {i}
      /\ nextSlot' = (i + 1) % NumBuffers
      /\ Commit(Shm(n, i))
      /\ dirty' = FALSE /\ resized' = FALSE
      /\ NeedsPool => pool < MaxPools
      /\ UNCHANGED <<gralloc, gbm, held, frame, submitted, channel, cached, call, frames, alive,
                     imported, inFlight, releases>>
  BY <1>1, <1>2, <1>3, <1>4 DEF ShowComposite, elsewhere, sharedVars, queueVars, composerVars, importVars
<1>6. from \in Slots /\ used \in SUBSET Slots
  BY <1>2, <1>3, FrameAssumption DEF FrameTypeOK, Slots
<1>7. i \in Slots /\ i \notin used
  BY <1>4, <1>5, <1>6, FreeSlot
<1>8. n \in 1 .. MaxPools /\ pool \in 0 .. MaxPools
  BY <1>1, <1>5, FrameAssumption DEF FrameTypeOK, SlotInv, NeedsPool
<1>9. ~AtDesktop(Shm(n, i))
  <2>1. CASE NeedsPool
    BY <1>1, <1>7, <1>8, <2>1 DEF SlotInv
  <2>2. CASE ~NeedsPool
    BY <1>1, <1>2, <1>7, <1>8, <2>2 DEF SlotInv
  <2>3. QED
    BY <2>1, <2>2
<1>10. /\ attached' \in Scanout \cup {Nil} /\ reading' \subseteq Scanout /\ events' \in Seq(Scanout)
       /\ EventsInv'
       /\ \A y : AtDesktop(y)' <=> AtDesktop(y) \/ y = Shm(n, i)
  BY <1>5, <1>7, <1>8, <1>9, CommitFacts, ScanoutKinds
<1>11. nextSlot' \in Slots
  <2>1. i \in 0 .. NumBuffers - 1 /\ NumBuffers \in Nat \ {0}
    BY <1>7, FrameAssumption DEF Slots
  <2>2. (i + 1) % NumBuffers \in 0 .. NumBuffers - 1
    BY <2>1
  <2>3. QED
    BY <1>5, <2>2 DEF Slots
<1>12. FrameTypeOK'
  <2>1. pool' \in 0 .. MaxPools /\ busy' \subseteq Slots
    BY <1>5, <1>6, <1>7, <1>8
  <2>2. QED
    BY <1>5, <1>10, <1>11, <2>1 DEF FrameTypeOK
<1>13. CachedInv' /\ \A c \in Buffers : BufferInv(c)'
  BY <1>5, <1>10, <1>12, BuffersRest, ScanoutKinds
<1>14. SlotInv'
  <2>1. pooled' => pool' # 0
    BY <1>5, <1>8
  <2>2. ASSUME NEW k \in 1 .. MaxPools, NEW j \in Slots, AtDesktop(Shm(k, j))'
        PROVE  k <= pool' /\ (k = pool' => j \in busy')
    <3>1. CASE AtDesktop(Shm(k, j))
      BY <1>1, <1>2, <1>5, <1>8, <3>1 DEF SlotInv
    <3>2. CASE ~AtDesktop(Shm(k, j))
      BY <1>5, <1>8, <1>10, <2>2, <3>2, ScanoutKinds
    <3>3. QED
      BY <3>1, <3>2
  <2>3. QED
    BY <2>1, <2>2 DEF SlotInv
<1>15. OwnershipStep
  <2>1. reading' = reading \cup {Shm(n, i)}
    BY <1>5 DEF Commit
  <2>2. CASE NeedsPool
    <3>1. \A j \in Slots : Shm(n, j) \notin reading
      BY <1>1, <1>8, <2>2 DEF SlotInv, AtDesktop
    <3>2. Rendering' = (Rendering \cup Slots) \ {i}
      BY <1>2, <1>5, <1>7, <2>2, FrameAssumption DEF Rendering
    <3>3. Scanning' = (Scanning \ Slots) \cup {i}
      <4>1. \A c \in Buffers : Dmabuf(c) \in reading' <=> Dmabuf(c) \in reading
        BY <2>1, ScanoutKinds
      <4>2. \A j \in Slots : Shm(pool', j) \in reading' <=> j = i
        BY <1>5, <1>7, <2>1, <3>1, ScanoutKinds
      <4>3. QED
        BY <1>7, <4>1, <4>2, FrameAssumption DEF Scanning
    <3>4. QED
      BY <1>7, <3>2, <3>3 DEF OwnershipStep
  <2>3. CASE ~NeedsPool
    <3>1. i \in Rendering \ Scanning
      BY <1>1, <1>2, <1>7, <1>9, <2>3, FrameAssumption DEF Rendering, Scanning, AtDesktop
    <3>2. Rendering' = Rendering \ {i}
      BY <1>2, <1>5, <1>7, <2>3, FrameAssumption DEF Rendering
    <3>3. Scanning' = Scanning \cup {i}
      <4>1. \A c \in Buffers : Dmabuf(c) \in reading' <=> Dmabuf(c) \in reading
        BY <2>1, ScanoutKinds
      <4>2. \A j \in Slots : Shm(pool', j) \in reading' <=> Shm(pool, j) \in reading \/ j = i
        BY <1>1, <1>5, <2>1, <2>3, ScanoutKinds
      <4>3. QED
        BY <1>7, <4>1, <4>2, FrameAssumption DEF Scanning
    <3>4. QED
      BY <1>7, <3>1, <3>2, <3>3 DEF OwnershipStep
  <2>4. QED
    BY <2>2, <2>3
<1>16. QED
  BY <1>10, <1>12, <1>13, <1>14, <1>15

\* Without memory for a new pool there is none: what the desktop still reads is of
\* an old one.
LEMMA RecreatePoolFailsStep ==
    ASSUME FrameInv, RecreatePoolFails
    PROVE  FrameInv' /\ OwnershipStep
<1> USE DEF FrameInv
<1>1. /\ pooled' = FALSE /\ pool' = pool + 1 /\ busy' = {} /\ nextSlot' = 0 /\ pool < MaxPools
      /\ UNCHANGED <<gralloc, gbm, held, frame, submitted, channel, cached, call, frames, alive,
                     imported, inFlight, dirty, resized, attached, reading, events, releases>>
  BY DEF RecreatePoolFails, elsewhere, sharedVars, queueVars, composerVars, importVars, desktopVars
<1>2. pool \in 0 .. MaxPools /\ pool' \in 0 .. MaxPools /\ nextSlot' \in Slots
  BY <1>1, FrameAssumption DEF FrameTypeOK, Slots
<1>3. FrameTypeOK'
  BY <1>1, <1>2 DEF FrameTypeOK
<1>4. EventsInv' /\ \A x : AtDesktop(x)' = AtDesktop(x)
  BY <1>1 DEF EventsInv, AtDesktop
<1>5. CachedInv' /\ \A c \in Buffers : BufferInv(c)'
  BY <1>1, <1>3, <1>4, BuffersRest
<1>6. SlotInv'
  BY <1>1, <1>2, <1>4 DEF SlotInv
<1>7. OwnershipStep
  <2>1. \A j \in Slots : Shm(pool', j) \notin reading'
    BY <1>1, <1>2 DEF SlotInv, AtDesktop
  <2>2. Scanning' = Scanning \ Slots
    BY <1>1, <2>1, FrameAssumption DEF Scanning
  <2>3. Rendering' = Rendering \cup Slots
    BY <1>1 DEF Rendering
  <2>4. QED
    BY <2>2, <2>3 DEF OwnershipStep
<1>8. QED
  BY <1>3, <1>4, <1>5, <1>6, <1>7

\* A release event frees the slot, if its pool is still there, or sends the buffer home.
LEMMA DispatchReleaseStep ==
    ASSUME FrameInv, DispatchRelease
    PROVE  FrameInv' /\ OwnershipStep
<1> USE DEF FrameInv
<1>1. PICK x : x = Head(events)
  OBVIOUS
<1>2. /\ events # <<>> /\ events' = Tail(events)
      /\ UNCHANGED <<gralloc, gbm, held, frame, submitted, channel, cached, call, frames, alive,
                     imported, pooled, pool, nextSlot, dirty, resized, attached, reading>>
  BY DEF DispatchRelease, elsewhere, sharedVars, queueVars, composerVars
<1>3. /\ x \in Scanout /\ AtDesktop(x) /\ x \notin reading
      /\ events' \in Seq(Scanout)
      /\ EventsInv'
      /\ \A y : AtDesktop(y)' <=> AtDesktop(y) /\ y # x
  BY <1>1, <1>2, DispatchFacts
<1>4. CASE x.kind = "shm"
  <2>1. /\ busy' = IF x.pool = pool THEN busy \ {x.slot} ELSE busy
        /\ UNCHANGED <<inFlight, releases>>
    BY <1>1, <1>4 DEF DispatchRelease
  <2>2. x.pool \in 1 .. MaxPools /\ x.slot \in Slots /\ x = Shm(x.pool, x.slot)
    BY <1>3, <1>4, ScanoutKinds
  <2>3. FrameTypeOK'
    BY <1>2, <1>3, <2>1 DEF FrameTypeOK
  <2>4. CachedInv' /\ \A c \in Buffers : BufferInv(c)'
    BY <1>2, <1>3, <2>1, <2>2, <2>3, BuffersRest, ScanoutKinds
  <2>5. SlotInv'
    <3>1. ASSUME NEW n \in 1 .. MaxPools, NEW i \in Slots, AtDesktop(Shm(n, i))'
          PROVE  n <= pool' /\ (n = pool' => i \in busy')
      <4>1. AtDesktop(Shm(n, i)) /\ Shm(n, i) # x
        BY <1>3, <3>1
      <4>2. ~(n = x.pool /\ i = x.slot)
        BY <2>2, <4>1
      <4>3. QED
        BY <1>2, <2>1, <4>1, <4>2 DEF SlotInv
    <3>2. QED
      BY <1>2, <3>1 DEF SlotInv
  <2>6. Scanning' = Scanning
    BY <1>2 DEF Scanning
  <2>7. OwnershipStep
    <3>1. CASE x.pool = pool
      <4>1. PICK i : i = x.slot
        OBVIOUS
      <4>2. i \in busy /\ i \in Slots /\ Shm(pool, i) \notin reading
        BY <1>3, <2>2, <3>1, <4>1 DEF SlotInv
      <4>3. i \notin Rendering \cup Scanning
        BY <4>2, FrameAssumption DEF Rendering, Scanning
      <4>4. Rendering' = Rendering \cup {i}
        BY <1>2, <2>1, <3>1, <4>1, <4>2 DEF Rendering
      <4>5. QED
        BY <2>6, <4>2, <4>3, <4>4 DEF OwnershipStep
    <3>2. CASE x.pool # pool
      BY <1>2, <2>1, <2>6, <3>2 DEF OwnershipStep, Rendering
    <3>3. QED
      BY <3>1, <3>2
  <2>8. QED
    BY <1>3, <2>3, <2>4, <2>5, <2>7
<1>5. CASE x.kind # "shm"
  <2>1. PICK b : b = x.buf
    OBVIOUS
  <2>2. b \in Buffers /\ x = Dmabuf(b)
    BY <1>3, <1>5, <2>1, ScanoutKinds
  <2>3. PICK pb : pb = inFlight[b]
    OBVIOUS
  <2>4. Shown(b) /\ pb # Nil
    BY <1>3, <2>2, <2>3 DEF BufferInv, DesktopInv, Shown
  <2>5. pb \in Posted /\ pb.buf = b /\ pb.frame = frame[b]
    BY <2>2, <2>3, <2>4 DEF BufferInv, NumberInv, FrameTypeOK
  <2>6. busy' = busy /\ inFlight' = [inFlight EXCEPT ![b] = Nil] /\ Release(pb)
    BY <1>1, <1>5, <2>1, <2>3, <2>4 DEF DispatchRelease
  <2>7. /\ inFlight' \in [Buffers -> Posted \cup {Nil}] /\ inFlight'[b] = Nil
        /\ \A c \in Buffers : c # b => inFlight'[c] = inFlight[c]
    BY <2>2, <2>6 DEF FrameTypeOK
  <2>8. submitted[b] # 0 /\ submitted[b] = frame[b] /\ ~InCall(b) /\ ~Queued(b)
    BY <2>2, <2>4 DEF BufferInv, HeldInv, WayInv
  <2>9. /\ releases' \subseteq Messages
        /\ \A c \in Buffers :
              /\ Freed(c)' <=> Freed(c) \/ c = b
              /\ \A m \in releases' : m.buf = c => m.frame <= frame[c]
              /\ Homing(c) => Homing(c)'
        /\ Homing(b)'
    BY <1>2, <2>5, <2>6, <2>8, ReleasedFacts DEF BufferInv
  <2>10. FrameTypeOK'
    BY <1>2, <1>3, <2>6, <2>7, <2>9 DEF FrameTypeOK, Messages
  <2>11. CachedInv'
    BY <1>2 DEF CachedInv, InCall
  <2>12. SlotInv'
    BY <1>2, <1>3, <2>6 DEF SlotInv
  <2>13. ASSUME NEW c \in Buffers
         PROVE  BufferInv(c)'
    <3>1. InCall(c)' = InCall(c) /\ Queued(c)' = Queued(c)
      BY <1>2 DEF InCall, Queued
    <3>2. Shown(c)' <=> Shown(c) /\ c # b
      BY <2>7 DEF Shown
    <3>3. HeldInv(c)'
      BY <1>2, <2>8, <2>9, <3>1, <3>2 DEF BufferInv, HeldInv
    <3>4. WayInv(c)'
      BY <1>2, <2>8, <2>9, <3>1, <3>2 DEF BufferInv, WayInv
    <3>5. NumberInv(c)'
      BY <1>2, <2>7, <2>9, <3>2 DEF BufferInv, NumberInv
    <3>6. QueuedInv(c)'
      BY <1>2 DEF BufferInv, QueuedInv
    <3>7. DesktopInv(c)'
      BY <1>3, <2>2, <3>2, ScanoutKinds DEF BufferInv, DesktopInv
    <3>8. QED
      BY <3>3, <3>4, <3>5, <3>6, <3>7 DEF BufferInv
  <2>14. OwnershipStep
    BY <1>2, <2>6 DEF OwnershipStep, Rendering, Scanning
  <2>15. QED
    BY <1>3, <2>10, <2>11, <2>12, <2>13, <2>14
<1>6. QED
  BY <1>4, <1>5

\* With the presenter its channel ends; nobody gets a buffer for it.
LEMMA PresenterEndsStep ==
    ASSUME FrameInv, PresenterEnds
    PROVE  FrameInv' /\ OwnershipStep
<1> USE DEF FrameInv
<1>1. /\ alive' = FALSE /\ frames' = <<>>
      /\ UNCHANGED <<gralloc, gbm, held, frame, submitted, channel, cached, call, imported, inFlight,
                     pooled, pool, busy, nextSlot, dirty, resized, attached, reading, events, releases>>
  BY DEF PresenterEnds, sharedVars, queueVars, composerVars, presenterVars, importVars, poolVars,
         desktopVars
<1>2. FrameTypeOK'
  <2>1. frames' \in Seq(Posted)
    BY <1>1
  <2>2. alive' \in BOOLEAN
    BY <1>1, Zenon
  <2>3. QED
    BY <1>1, <2>1, <2>2 DEF FrameTypeOK
<1>3. EventsInv' /\ SlotInv' /\ Scanning' = Scanning /\ \A x : AtDesktop(x)' = AtDesktop(x)
  BY <1>1, DesktopRests
<1>4. CachedInv'
  BY <1>1 DEF CachedInv, InCall
<1>5. ASSUME NEW c \in Buffers
      PROVE  BufferInv(c)'
  <2>1. InCall(c)' = InCall(c) /\ Shown(c)' = Shown(c) /\ Freed(c)' = Freed(c) /\ ~Queued(c)'
    BY <1>1 DEF InCall, Shown, Freed, Queued
  <2>2. HeldInv(c)' /\ WayInv(c)'
    BY <1>1, <2>1 DEF BufferInv, HeldInv, WayInv
  <2>3. NumberInv(c)' /\ QueuedInv(c)'
    BY <1>1, <2>1 DEF BufferInv, NumberInv, QueuedInv
  <2>4. QED
    BY <1>3, <2>1, <2>2, <2>3 DEF BufferInv, DesktopInv
<1>6. OwnershipStep
  BY <1>1, <1>3 DEF OwnershipStep, Rendering
<1>7. QED
  BY <1>2, <1>3, <1>4, <1>5, <1>6

\* The desktop is done with a buffer, and its release is under way.
LEMMA DesktopReleasesStep ==
    ASSUME FrameInv, NEW x \in reading, DesktopReleases(x)
    PROVE  FrameInv' /\ OwnershipStep
<1> USE DEF FrameInv
<1>1. /\ reading' = reading \ {x} /\ events' = Append(events, x)
      /\ UNCHANGED <<gralloc, gbm, held, frame, submitted, channel, cached, call, frames, alive,
                     imported, inFlight, pooled, pool, busy, nextSlot, dirty, resized, attached, releases>>
  BY DEF DesktopReleases, elsewhere, sharedVars, queueVars, composerVars, importVars, poolVars
<1>2. x \in Scanout /\ events \in Seq(Scanout)
  BY DEF FrameTypeOK
<1>3. PICK n : n = Len(events) + 1
  OBVIOUS
<1>4. /\ events' \in Seq(Scanout) /\ DOMAIN events' = DOMAIN events \cup {n}
      /\ n \notin DOMAIN events /\ events'[n] = x
      /\ \A i \in DOMAIN events : events'[i] = events[i]
  BY <1>1, <1>2, <1>3
<1>5. \A i \in DOMAIN events : events[i] # x
  BY DEF EventsInv
<1>6. EventsInv'
  BY <1>1, <1>4, <1>5 DEF EventsInv
<1>7. \A y : AtDesktop(y)' <=> AtDesktop(y)
  BY <1>1, <1>4 DEF AtDesktop
<1>8. FrameTypeOK'
  BY <1>1, <1>4 DEF FrameTypeOK
<1>9. CachedInv' /\ \A c \in Buffers : BufferInv(c)'
  BY <1>1, <1>7, <1>8, BuffersRest
<1>10. SlotInv'
  BY <1>1, <1>7 DEF SlotInv
<1>11. Rendering' = Rendering
  BY <1>1 DEF Rendering
<1>12. OwnershipStep
  <2>1. CASE x.kind = "shm" /\ x.pool # pool
    <3>1. \A i : Shm(pool, i) # x
      BY <2>1 DEF Shm
    <3>2. \A b : Dmabuf(b) # x
      BY <2>1 DEF Dmabuf
    <3>3. Scanning' = Scanning
      BY <1>1, <3>1, <3>2 DEF Scanning
    <3>4. QED
      BY <1>11, <3>3 DEF OwnershipStep
  <2>2. CASE x.kind = "shm" /\ x.pool = pool
    <3>1. PICK i : i = x.slot
      OBVIOUS
    <3>2. i \in Slots /\ x = Shm(pool, i)
      BY <1>2, <2>2, <3>1, ScanoutKinds
    <3>3. i \in Scanning /\ Scanning' = Scanning \ {i}
      BY <1>1, <3>2, ScanoutKinds, FrameAssumption DEF Scanning
    <3>4. QED
      BY <1>11, <3>2, <3>3 DEF OwnershipStep
  <2>3. CASE x.kind # "shm"
    <3>1. PICK b : b = x.buf
      OBVIOUS
    <3>2. b \in Buffers /\ x = Dmabuf(b)
      BY <1>2, <2>3, <3>1, ScanoutKinds
    <3>3. b \in Scanning /\ Scanning' = Scanning \ {b}
      BY <1>1, <3>2, ScanoutKinds, FrameAssumption DEF Scanning
    <3>4. QED
      BY <1>11, <3>2, <3>3 DEF OwnershipStep
  <2>4. QED
    BY <2>1, <2>2, <2>3
<1>13. QED
  BY <1>6, <1>8, <1>9, <1>10, <1>12

-----------------------------------------------------------------------------
\* At the start everything is the app's and the presenter's.
LEMMA FrameStart == FrameInit => FrameInv /\ Ownership!Init
<1> SUFFICES ASSUME FrameInit PROVE FrameInv /\ Ownership!Init
  OBVIOUS
<1>1. 0 \in Slots
  BY FrameAssumption DEF Slots
<1>2. FrameTypeOK
  <2>1. /\ frames \in Seq(Posted) /\ events \in Seq(Scanout)
        /\ alive \in BOOLEAN /\ pooled \in BOOLEAN /\ dirty \in BOOLEAN /\ resized \in BOOLEAN
    <3>1. frames \in Seq(Posted) /\ events \in Seq(Scanout)
      BY DEF FrameInit
    <3>2. alive \in BOOLEAN /\ pooled \in BOOLEAN /\ dirty \in BOOLEAN /\ resized \in BOOLEAN
      BY Zenon DEF FrameInit
    <3>3. QED
      BY <3>1, <3>2
  <2>2. /\ frame \in [Buffers -> Nat] /\ submitted \in [Buffers -> Nat]
        /\ cached \in [Buffers -> Queues \cup {"unknown", Nil}]
        /\ call \in [Queues -> Parcel \cup {Nil}]
        /\ inFlight \in [Buffers -> Posted \cup {Nil}]
    BY DEF FrameInit
  <2>3. pool \in 0 .. MaxPools /\ nextSlot \in Slots
    BY <1>1, FrameAssumption DEF FrameInit
  <2>4. /\ gralloc = {} /\ gbm = {} /\ held = {} /\ channel = Nil /\ imported = {} /\ busy = {}
        /\ attached = Nil /\ reading = {} /\ releases = {}
    BY DEF FrameInit
  <2>5. QED
    BY <2>1, <2>2, <2>3, <2>4 DEF FrameTypeOK
<1>3. CachedInv /\ EventsInv /\ SlotInv
  BY DEF FrameInit, CachedInv, EventsInv, SlotInv, AtDesktop
<1>4. \A b \in Buffers : BufferInv(b)
  BY FrameAssumption DEF FrameInit, BufferInv, HeldInv, WayInv, NumberInv, QueuedInv, DesktopInv, InCall,
     Queued, Shown, Freed, Homing, AtDesktop
<1>5. Ownership!Init
  BY DEF FrameInit, Ownership!Init
<1>6. QED
  BY <1>2, <1>3, <1>4, <1>5 DEF FrameInv

\* No step of the app, the composer, the presenter or the desktop breaks the invariant,
\* and each is one of BufferOwnership's or changes nothing there.
LEMMA FrameStep ==
    ASSUME FrameInv, [FrameNext]_frameVars
    PROVE  FrameInv' /\ OwnershipStep
<1>1. ASSUME NEW q \in Queues, Allocate(q) \/ ParsePostedBuffer(q)
      PROVE  FrameInv' /\ OwnershipStep
  BY <1>1, AllocateStep, ParsePostedBufferStep
<1>2. ASSUME NEW b \in Buffers, SetTransactionState(b)
      PROVE  FrameInv' /\ OwnershipStep
  BY <1>2, SetTransactionStateStep
<1>3. ASSUME NEW m \in releases, TakeRelease(m)
      PROVE  FrameInv' /\ OwnershipStep
  BY <1>3, TakeReleaseStep
<1>4. CASE Drop \/ Copy
  BY <1>4, DropOrCopyStep
<1>5. CASE ZeroCopy
  BY <1>5, ZeroCopyStep
<1>6. CASE ShowComposite
  BY <1>6, ShowCompositeStep
<1>7. CASE RecreatePoolFails
  BY <1>7, RecreatePoolFailsStep
<1>8. CASE DispatchRelease
  BY <1>8, DispatchReleaseStep
<1>9. CASE PresenterEnds
  BY <1>9, PresenterEndsStep
<1>10. ASSUME NEW x \in reading, DesktopReleases(x)
       PROVE  FrameInv' /\ OwnershipStep
  BY <1>10, DesktopReleasesStep
<1>11. CASE UNCHANGED frameVars
  <2>1. UNCHANGED <<gralloc, gbm, held, frame, submitted, channel, cached, call, frames, alive,
                    imported, inFlight, pooled, pool, busy, nextSlot, dirty, resized, attached,
                    reading, events, releases>>
    BY <1>11 DEF frameVars, sharedVars, queueVars, composerVars, presenterVars, importVars, poolVars,
                 desktopVars
  <2>2. FrameTypeOK'
    BY <2>1 DEF FrameInv, FrameTypeOK
  <2>3. EventsInv' /\ SlotInv' /\ Scanning' = Scanning /\ \A x : AtDesktop(x)' = AtDesktop(x)
    BY <2>1, DesktopRests
  <2>4. CachedInv' /\ \A c \in Buffers : BufferInv(c)'
    BY <2>1, <2>2, <2>3, BuffersRest
  <2>5. QED
    BY <2>1, <2>2, <2>3, <2>4 DEF FrameInv, OwnershipStep, Rendering
<1>12. QED
  BY <1>1, <1>2, <1>3, <1>4, <1>5, <1>6, <1>7, <1>8, <1>9, <1>10, <1>11 DEF FrameNext

\* While the presenter runs, a posted buffer is on one of the ways that lead home.
LEMMA WaysLeadHome == FrameInv => NoBufferIsLost
<1> SUFFICES ASSUME FrameInv, NEW b \in Buffers, submitted[b] # 0, alive
             PROVE  \/ call[QueueOf[b]] # Nil /\ call[QueueOf[b]].buf = b
                    \/ \E i \in DOMAIN frames : frames[i].buf = b
                    \/ /\ inFlight[b] # Nil /\ inFlight[b].frame = submitted[b]
                       /\ Dmabuf(b) \in reading \/ \E i \in DOMAIN events : events[i] = Dmabuf(b)
                    \/ [to |-> QueueOf[b], buf |-> b, frame |-> submitted[b]] \in releases
  BY DEF NoBufferIsLost
<1>1. InCall(b) \/ Queued(b) \/ Shown(b) \/ Homing(b)
  BY DEF FrameInv, BufferInv, WayInv
<1>2. CASE Shown(b)
  BY <1>2 DEF FrameInv, BufferInv, HeldInv, NumberInv, DesktopInv, Shown, AtDesktop
<1>3. QED
  BY <1>1, <1>2 DEF InCall, Queued, Homing

\* Every buffer has an owner, for any queues, buffers and slots and any number of
\* frames and pools: none is lost, and FrameBuffers implements BufferOwnership, so
\* that nobody overwrites what the desktop may read.
THEOREM BuffersAreOwnedAlways == FrameSpec => BuffersAreOwned
<1>1. FrameInit => FrameInv /\ Ownership!Init
  BY FrameStart
<1>2. FrameInv /\ [FrameNext]_frameVars => FrameInv'
  BY FrameStep
<1>3. FrameInv /\ [FrameNext]_frameVars => [Ownership!Next]_Ownership!vars
  BY FrameStep, OwnershipSteps
<1>4. FrameInv => NoBufferIsLost
  BY WaysLeadHome
<1>5. QED
  BY <1>1, <1>2, <1>3, <1>4, PTL DEF FrameSpec, BuffersAreOwned, NobodyOverwritesTheScreen, Ownership!Spec

\* The allocator, the composer, the presenter and the desktop keep their types: what is
\* held was allocated, slots are of the pool, and a slot is found when one is drawn into.
THEOREM BuffersTyped == FrameSpec => []FrameTypeOK
<1>1. FrameInit => FrameInv
  BY FrameStart
<1>2. FrameInv /\ [FrameNext]_frameVars => FrameInv'
  BY FrameStep
<1>3. FrameInv => FrameTypeOK
  BY DEF FrameInv
<1>4. QED
  BY <1>1, <1>2, <1>3, PTL DEF FrameSpec

-----------------------------------------------------------------------------
(***************************************************************************)
(* ActivityTask.                                                           *)
(***************************************************************************)
TaskSpec == TaskInit /\ [][TaskNext]_taskVars

States == {"none", "coming", "runs", "ended", "reported", "failed"}

TasksInv ==
    /\ TaskTypeOK
    /\ tasks \in [Launches -> [class : Names \cup {Nobody}, at : States]]
    /\ activity_stack \in Seq(Names) /\ Len(activity_stack) <= launched
    /\ \A n \in Launches : n > launched => tasks[n].at = "none"

\* A launch on its way is of what comes, and one end is on its way for what runs.
OnTheWayInv ==
    \A s \in sends :
        /\ s.kind = "launch"  => tasks[s.n].at = "coming"
        /\ s.kind = "destroy" => tasks[s.n].at = "runs" /\ s.n \in finishing

Alive(n) == tasks[n].at \in {"coming", "runs", "ended"}

\* As long as arod was not led astray, what comes, runs or has not reported its end is on
\* the list, one activity of a class, and no class is there twice.
ListInv ==
    ~astray =>
        /\ \A i, j \in 1..Len(activity_stack) : activity_stack[i] = activity_stack[j] => i = j
        /\ \A n \in Launches : Alive(n) => Contains(activity_stack, tasks[n].class)
        /\ \A m, n \in Launches :
              m # n /\ Alive(m) /\ Alive(n) => tasks[m].class # tasks[n].class

TaskInv == TasksInv /\ OnTheWayInv /\ ListInv

\* Nothing runs and nothing is under way.
LEMMA TaskInitially == TaskInit => TaskInv
<1> SUFFICES ASSUME TaskInit PROVE TaskInv
  OBVIOUS
<1>1. NoTask \in [class : Names \cup {Nobody}, at : States] /\ NoTask.at = "none"
  BY DEF NoTask, States
<1>2. TaskTypeOK
  <2>1. \A n \in Launches : tasks[n].at = "none"
    BY <1>1 DEF TaskInit
  <2>2. Len(activity_stack) <= MaxLaunches /\ launched \in 0..MaxLaunches
    BY TaskAssumption DEF TaskInit
  <2>3. astray \in BOOLEAN
    BY DEF TaskInit
  <2>4. choosers \in [Choosers -> {"none", "open", "sending", "answered", "lost"}]
    BY DEF TaskInit
  <2>5. QED
    BY <2>1, <2>2, <2>3, <2>4 DEF TaskInit, TaskTypeOK
<1>3. TasksInv /\ OnTheWayInv
  BY <1>1, <1>2, TaskAssumption DEF TaskInit, TasksInv, OnTheWayInv
<1>4. ListInv
  BY <1>1 DEF TaskInit, ListInv, Alive
<1>5. QED
  BY <1>3, <1>4 DEF TaskInv

\* The resolution of an intent finds a declared activity or none.
LEMMA ResolveTyped ==
    ASSUME NEW action, NEW data
    PROVE  resolve(action, data) \in Names \cup {Nobody}
<1> DEFINE accepting == {i \in DOMAIN Manifest :
                           \E filter \in Manifest[i].filters : Accepts(filter, action, data)}
<1>1. CASE accepting = {}
  BY <1>1 DEF resolve
<1>2. CASE accepting # {}
  <2>1. accepting \in SUBSET Nat
    BY TaskAssumption
  <2>2. PICK k \in accepting : \A j \in accepting : k <= j
    BY <1>2, <2>1, LeastNatural
  <2>3. (CHOOSE i \in accepting : \A j \in accepting : i <= j) \in accepting
    BY <2>2
  <2>4. QED
    BY <1>2, <2>3, TaskAssumption DEF resolve
<1>3. QED
  BY <1>1, <1>2

\* A launch of what is not on the list.
LEMMA LaunchKeeps ==
    ASSUME TaskInv, NEW class \in Names, Launch(class),
           process' \in {"off", "attached", "bound", "ready"}, astray' \in BOOLEAN,
           ~astray' => ~astray /\ ~Contains(activity_stack, class),
           UNCHANGED <<finishing, choosers>>
    PROVE  TaskInv'
<1> DEFINE n == launched + 1
           task == [class |-> class, at |-> "coming"]
<1>t. /\ TaskTypeOK /\ launched \in Nat /\ n \in Launches /\ n \in Nat /\ MaxLaunches \in Nat
      /\ tasks \in [Launches -> [class : Names \cup {Nobody}, at : States]]
      /\ activity_stack \in Seq(Names) /\ Len(activity_stack) <= launched
      /\ tasks[n].at = "none"
      /\ \A m \in Launches : m > launched => tasks[m].at = "none"
  BY TaskAssumption DEF Launch, TaskInv, TasksInv, TaskTypeOK, Launches
<1>1. /\ launched' = n /\ launched' \in 0..MaxLaunches
      /\ activity_stack' = Append(activity_stack, class)
      /\ tasks' = [tasks EXCEPT ![n] = task] /\ sends' = sends \cup {Message("launch", n)}
      /\ task \in [class : Names \cup {Nobody}, at : States]
  BY <1>t DEF Launch, Listed, States, Launches
<1>2. /\ tasks' \in [Launches -> [class : Names \cup {Nobody}, at : States]]
      /\ tasks'[n].class = class /\ tasks'[n].at = "coming"
      /\ \A m \in Launches : m # n => tasks'[m] = tasks[m]
  BY <1>t, <1>1
<1> HIDE DEF task
<1>3. /\ activity_stack' \in Seq(Names) /\ Len(activity_stack') = Len(activity_stack) + 1
      /\ Len(activity_stack) \in Nat
      /\ \A i \in 1..Len(activity_stack) : activity_stack'[i] = activity_stack[i]
      /\ activity_stack'[Len(activity_stack) + 1] = class
  BY <1>t, <1>1
<1>4. Message("launch", n) \in [kind : {"launch", "destroy"}, n : Launches]
  BY <1>t DEF Message
<1>5. TasksInv'
  <2>1. \A m \in Launches : m > launched' => tasks'[m].at = "none"
    BY <1>t, <1>1, <1>2 DEF Launches
  <2>2. sends' \subseteq [kind : {"bind", "link"}, n : {0}] \cup [kind : {"launch", "destroy"}, n : Launches]
                         \cup [kind : {"result"}, n : Choosers]
    BY <1>t, <1>1, <1>4 DEF TaskTypeOK
  <2>3. \A m \in Launches : tasks'[m].at \in States
    BY <1>2
  <2>4. Len(activity_stack') <= launched' /\ Len(activity_stack') <= MaxLaunches
    BY <1>t, <1>1, <1>3
  <2>5. TaskTypeOK'
    BY <1>t, <1>1, <2>2, <2>3, <2>4 DEF TaskTypeOK, States
  <2>6. QED
    BY <1>2, <1>3, <2>1, <2>4, <2>5 DEF TasksInv
<1>6. OnTheWayInv'
  <2> SUFFICES ASSUME NEW s \in sends'
               PROVE  /\ s.kind = "launch"  => tasks'[s.n].at = "coming"
                      /\ s.kind = "destroy" => tasks'[s.n].at = "runs" /\ s.n \in finishing'
    BY DEF OnTheWayInv
  <2>1. CASE s = Message("launch", n)
    BY <1>2, <2>1 DEF Message
  <2>2. CASE s \in sends
    <3>1. s.kind \in {"launch", "destroy"} => s.n \in Launches /\ s.n # n
      BY <1>t, <2>2 DEF TaskTypeOK, TaskInv, OnTheWayInv
    <3>2. QED
      BY <1>2, <2>2, <3>1 DEF TaskInv, OnTheWayInv
  <2>3. QED
    BY <1>1, <2>1, <2>2
<1>7. ListInv'
  <2> SUFFICES ASSUME ~astray' PROVE
        /\ \A i, j \in 1..Len(activity_stack') : activity_stack'[i] = activity_stack'[j] => i = j
        /\ \A m \in Launches : Alive(m)' => Contains(activity_stack', tasks'[m].class)
        /\ \A l, m \in Launches :
              l # m /\ Alive(l)' /\ Alive(m)' => tasks'[l].class # tasks'[m].class
    BY DEF ListInv
  <2>1. /\ \A i, j \in 1..Len(activity_stack) : activity_stack[i] = activity_stack[j] => i = j
        /\ \A m \in Launches : Alive(m) => Contains(activity_stack, tasks[m].class)
        /\ \A l, m \in Launches : l # m /\ Alive(l) /\ Alive(m) => tasks[l].class # tasks[m].class
        /\ ~Contains(activity_stack, class)
    BY DEF TaskInv, ListInv
  <2>2. \A i \in 1..Len(activity_stack) : activity_stack[i] # class
    BY <2>1 DEF Contains
  <2>3. \A i, j \in 1..Len(activity_stack') : activity_stack'[i] = activity_stack'[j] => i = j
    BY <1>3, <2>1, <2>2
  <2>4. \A m \in Launches : m # n /\ Alive(m)' => Alive(m) /\ tasks'[m].class = tasks[m].class
    BY <1>2 DEF Alive
  <2>5. \A c : Contains(activity_stack, c) => Contains(activity_stack', c)
    BY <1>3 DEF Contains
  <2>6. Contains(activity_stack', class)
    BY <1>3 DEF Contains
  <2>7. \A m \in Launches : Alive(m)' => Contains(activity_stack', tasks'[m].class)
    BY <1>2, <2>1, <2>4, <2>5, <2>6
  <2>8. \A m \in Launches : m # n /\ Alive(m)' => tasks'[m].class # class
    BY <2>1, <2>4
  <2>9. \A l, m \in Launches : l # m /\ Alive(l)' /\ Alive(m)' => tasks'[l].class # tasks'[m].class
    BY <1>2, <2>1, <2>4, <2>8
  <2>10. QED
    BY <2>3, <2>7, <2>9
<1>8. QED
  BY <1>5, <1>6, <1>7 DEF TaskInv

\* The two actions that launch.
LEMMA LaunchesKeep ==
    ASSUME TaskInv, finishAttachApplication \/ \E intent \in Intents : start_activity_target(intent)
    PROVE  TaskInv'
<1>t. process \in {"off", "attached", "bound", "ready"} /\ astray \in BOOLEAN
  BY DEF TaskInv, TasksInv, TaskTypeOK
<1>1. CASE finishAttachApplication
  <2>1. PICK class \in Names :
          /\ process' = "ready" /\ Launch(class)
          /\ astray' = (astray \/ Contains(activity_stack, class))
          /\ UNCHANGED <<finishing, choosers>>
    <3> DEFINE deep == IF Requested # Nobody THEN Requested ELSE resolve("VIEW", LaunchUrl)
               meant == IF LaunchUrl = NoData \/ deep = Nobody THEN Main ELSE deep
    <3>1. deep \in Names \cup {Nobody}
      BY ResolveTyped, TaskAssumption
    <3> HIDE DEF deep
    <3>2. meant \in Names
      BY <3>1, TaskAssumption
    <3> HIDE DEF meant
    <3>3. Aliased(meant) \in Names
      BY <3>2, TaskAssumption DEF Aliased
    <3>4. /\ process' = "ready" /\ Launch(Aliased(meant))
          /\ astray' = (astray \/ Contains(activity_stack, Aliased(meant)))
          /\ UNCHANGED <<finishing, choosers>>
      BY <1>1 DEF finishAttachApplication, deep, meant
    <3>5. QED
      BY <3>3, <3>4
  <2>2. astray' \in BOOLEAN /\ (~astray' => ~astray /\ ~Contains(activity_stack, class))
    BY <1>t, <2>1
  <2>3. QED
    BY <2>1, <2>2, LaunchKeeps
<1>2. ASSUME NEW intent \in Intents, start_activity_target(intent) PROVE TaskInv'
  <2>1. PICK class : class = Aliased(TargetOf(intent))
    OBVIOUS
  <2>2. CASE class \in Declared /\ ~Contains(activity_stack, class) /\ Launch(class)
    <3>1. class \in Names /\ UNCHANGED <<process, finishing, choosers, astray>>
      BY <1>2, <2>2, TaskAssumption DEF start_activity_target
    <3>2. QED
      BY <1>t, <2>2, <3>1, LaunchKeeps
  <2>3. CASE /\ sends' = sends \cup {Message("link", 0)}
             /\ UNCHANGED <<activity_stack, launched, tasks>>
    <3>1. /\ Message("link", 0) \in [kind : {"bind", "link"}, n : {0}]
          /\ Message("link", 0).kind = "link"
      BY DEF Message
    <3>2. TasksInv' /\ OnTheWayInv'
      BY <1>2, <2>3, <3>1 DEF start_activity_target, TaskInv, TasksInv, TaskTypeOK, OnTheWayInv
    <3>3. ListInv'
      BY <1>2, <2>3 DEF start_activity_target, TaskInv, ListInv, Alive
    <3>4. QED
      BY <3>2, <3>3 DEF TaskInv
  <2>4. QED
    BY <1>2, <2>1, <2>2, <2>3 DEF start_activity_target
<1>3. QED
  BY <1>1, <1>2

\* A launch that arrives, and an end: the state of one task.
LEMMA TaskMoves ==
    ASSUME TaskInv, NEW n \in Launches, NEW now \in States,
           tasks' = [tasks EXCEPT ![n].at = now]
    PROVE  /\ tasks' \in [Launches -> [class : Names \cup {Nobody}, at : States]]
           /\ tasks'[n].at = now
           /\ \A m \in Launches : tasks'[m].class = tasks[m].class
           /\ \A m \in Launches : m # n => tasks'[m] = tasks[m]
BY DEF TaskInv, TasksInv

\* A transaction that is delivered keeps the invariant.
LEMMA DeliverKeeps ==
    ASSUME TaskInv, NEW s \in sends, Deliver(s)
    PROVE  TaskInv'
<1>t. /\ TaskTypeOK
      /\ s \in [kind : {"bind", "link"}, n : {0}] \cup [kind : {"launch", "destroy"}, n : Launches]
               \cup [kind : {"result"}, n : Choosers]
      /\ sends' = sends \ {s} /\ UNCHANGED <<activity_stack, launched, finishing, astray>>
  BY DEF Deliver, TaskInv, TasksInv, TaskTypeOK
<1>1. CASE UNCHANGED tasks
  <2>1. process' \in {"off", "attached", "bound", "ready"}
    BY <1>t DEF Deliver, TaskTypeOK
  <2>2. choosers' \in [Choosers -> {"none", "open", "sending", "answered", "lost"}]
    <3>1. CASE s.kind = "result"
      BY <1>t, <3>1 DEF Deliver, TaskTypeOK
    <3>2. CASE s.kind # "result"
      <4>1. UNCHANGED choosers
        BY <1>t, <3>2 DEF Deliver
      <4>2. QED
        BY <1>t, <4>1 DEF TaskTypeOK
    <3>3. QED
      BY <3>1, <3>2
  <2>3. TasksInv' /\ OnTheWayInv'
    BY <1>t, <1>1, <2>1, <2>2 DEF TaskInv, TasksInv, TaskTypeOK, OnTheWayInv
  <2>4. ListInv'
    BY <1>t, <1>1 DEF TaskInv, ListInv, Alive
  <2>5. QED
    BY <2>3, <2>4 DEF TaskInv
<1>2. CASE s.kind \in {"launch", "destroy"}
  <2>1. s.n \in Launches /\ s = [kind |-> s.kind, n |-> s.n]
    BY <1>t, <1>2
  <2>2. PICK n \in Launches : n = s.n
    BY <2>1
  <2>3. PICK now \in {"runs", "failed", "ended"} :
          /\ tasks' = [tasks EXCEPT ![n].at = now]
          /\ s.kind = "launch" => now # "ended"
          /\ s.kind = "destroy" => now = "ended"
    BY <1>2, <2>2 DEF Deliver
  <2>4. UNCHANGED <<process, choosers>>
    BY <1>2 DEF Deliver
  <2>5. /\ tasks' \in [Launches -> [class : Names \cup {Nobody}, at : States]]
        /\ tasks'[n].at = now
        /\ \A m \in Launches : tasks'[m].class = tasks[m].class
        /\ \A m \in Launches : m # n => tasks'[m] = tasks[m]
    BY <2>3, TaskMoves DEF States
  <2>6. /\ s.kind = "launch"  => tasks[n].at = "coming"
        /\ s.kind = "destroy" => tasks[n].at = "runs"
    BY <2>2 DEF TaskInv, OnTheWayInv
  <2>7. TasksInv'
    <3>1. \A m \in Launches : tasks'[m].at \in States
      BY <2>5
    <3>2. \A m \in Launches : m > launched => tasks'[m].at = "none"
      BY <1>2, <2>5, <2>6 DEF TaskInv, TasksInv
    <3>3. TaskTypeOK'
      BY <1>t, <2>4, <3>1 DEF TaskTypeOK, States
    <3>4. QED
      BY <1>t, <2>5, <3>2, <3>3 DEF TaskInv, TasksInv
  <2>8. OnTheWayInv'
    <3> SUFFICES ASSUME NEW r \in sends'
                 PROVE  /\ r.kind = "launch"  => tasks'[r.n].at = "coming"
                        /\ r.kind = "destroy" => tasks'[r.n].at = "runs" /\ r.n \in finishing'
      BY DEF OnTheWayInv
    <3>1. r \in sends /\ r # s
      BY <1>t
    <3>2. /\ r.kind = "launch"  => tasks[r.n].at = "coming"
          /\ r.kind = "destroy" => tasks[r.n].at = "runs" /\ r.n \in finishing
      BY <3>1 DEF TaskInv, OnTheWayInv
    <3>3. r.kind \in {"launch", "destroy"} => r.n \in Launches /\ r = [kind |-> r.kind, n |-> r.n]
      BY <1>t, <3>1 DEF TaskTypeOK
    <3>4. r.kind \in {"launch", "destroy"} => r.n # n
      BY <1>2, <2>1, <2>2, <2>6, <3>1, <3>2, <3>3
    <3>5. QED
      BY <1>t, <2>5, <3>2, <3>3, <3>4
  <2>9. \A m \in Launches : Alive(m)' => Alive(m)
    BY <1>2, <2>5, <2>6 DEF Alive
  <2>10. ListInv'
    BY <1>t, <2>5, <2>9 DEF TaskInv, ListInv
  <2>11. QED
    BY <2>7, <2>8, <2>10 DEF TaskInv
<1>3. s.kind \in {"launch", "destroy"} \/ UNCHANGED tasks
  BY <1>t DEF Deliver
<1>4. QED
  BY <1>1, <1>2, <1>3

\* The end that is reported takes the last of the list: its own class, or arod is led
\* astray.
LEMMA DestroyedKeeps ==
    ASSUME TaskInv, NEW n \in Launches, activityDestroyed(n)
    PROVE  TaskInv'
<1>t. /\ TaskTypeOK /\ tasks[n].at = "ended"
      /\ activity_stack \in Seq(Names) /\ Len(activity_stack) \in Nat
      /\ Len(activity_stack) <= launched /\ launched \in 0..MaxLaunches /\ MaxLaunches \in Nat
      /\ \A m \in Launches : m > launched => tasks[m].at = "none"
      /\ UNCHANGED <<process, sends, launched, finishing, choosers>>
      /\ astray' = (astray \/ Strays(n)) /\ astray \in BOOLEAN
  BY TaskAssumption DEF TaskInv, TasksInv, TaskTypeOK, activityDestroyed
<1>1. /\ tasks' \in [Launches -> [class : Names \cup {Nobody}, at : States]]
      /\ tasks'[n].at = "reported"
      /\ \A m \in Launches : tasks'[m].class = tasks[m].class
      /\ \A m \in Launches : m # n => tasks'[m] = tasks[m]
  BY TaskMoves DEF activityDestroyed, States
<1>2. /\ activity_stack' \in Seq(Names)
      /\ activity_stack # <<>> =>
            /\ Len(activity_stack) > 0 /\ Len(activity_stack') = Len(activity_stack) - 1
            /\ \A i \in 1..Len(activity_stack') : activity_stack'[i] = activity_stack[i]
      /\ activity_stack = <<>> => activity_stack' = <<>>
  <2>1. CASE activity_stack = <<>>
    BY <1>t, <2>1 DEF activityDestroyed
  <2>2. CASE activity_stack # <<>>
    <3>1. Len(activity_stack) > 0
      BY <1>t, <2>2
    <3>2. activity_stack' = SubSeq(activity_stack, 1, Len(activity_stack) - 1)
      BY <2>2 DEF activityDestroyed, Front
    <3>3. PICK k \in Nat : k = Len(activity_stack) - 1
      BY <1>t, <3>1
    <3>4. activity_stack' = SubSeq(activity_stack, 1, k) /\ k < Len(activity_stack)
      BY <1>t, <3>2, <3>3
    <3>5. /\ SubSeq(activity_stack, 1, k) \in Seq(Names) /\ Len(SubSeq(activity_stack, 1, k)) = k
          /\ \A i \in 1..k : SubSeq(activity_stack, 1, k)[i] = activity_stack[i]
      BY <1>t, <3>3, <3>4
    <3>6. QED
      BY <2>2, <3>1, <3>3, <3>4, <3>5
  <2>3. QED
    BY <2>1, <2>2
<1>3. TasksInv'
  <2>1. \A m \in Launches : tasks'[m].at \in States
    BY <1>1
  <2>2. \A m \in Launches : m > launched => tasks'[m].at = "none"
    BY <1>t, <1>1
  <2>3. Len(activity_stack') <= launched
    BY <1>t, <1>2
  <2>4. astray' \in BOOLEAN
    BY <1>t DEF Strays
  <2>5. TaskTypeOK'
    BY <1>t, <2>1, <2>3, <2>4 DEF TaskTypeOK, States
  <2>6. QED
    BY <1>t, <1>1, <1>2, <2>2, <2>3, <2>5 DEF TasksInv
<1>4. OnTheWayInv'
  <2> SUFFICES ASSUME NEW s \in sends
               PROVE  /\ s.kind = "launch"  => tasks'[s.n].at = "coming"
                      /\ s.kind = "destroy" => tasks'[s.n].at = "runs" /\ s.n \in finishing
    BY <1>t DEF OnTheWayInv
  <2>1. s.kind \in {"launch", "destroy"} => s.n \in Launches /\ s.n # n
    BY <1>t DEF TaskTypeOK, TaskInv, OnTheWayInv
  <2>2. QED
    BY <1>1, <2>1 DEF TaskInv, OnTheWayInv
<1>5. ListInv'
  <2> SUFFICES ASSUME ~astray' PROVE
        /\ \A i, j \in 1..Len(activity_stack') : activity_stack'[i] = activity_stack'[j] => i = j
        /\ \A m \in Launches : Alive(m)' => Contains(activity_stack', tasks'[m].class)
        /\ \A l, m \in Launches :
              l # m /\ Alive(l)' /\ Alive(m)' => tasks'[l].class # tasks'[m].class
    BY DEF ListInv
  <2>1. ~astray /\ activity_stack # <<>> /\ activity_stack[Len(activity_stack)] = tasks[n].class
    BY <1>t DEF Strays, Last
  <2>2. /\ \A i, j \in 1..Len(activity_stack) : activity_stack[i] = activity_stack[j] => i = j
        /\ \A m \in Launches : Alive(m) => Contains(activity_stack, tasks[m].class)
        /\ \A l, m \in Launches : l # m /\ Alive(l) /\ Alive(m) => tasks[l].class # tasks[m].class
    BY <2>1 DEF TaskInv, ListInv
  <2>3. Alive(n) /\ \A m \in Launches : Alive(m)' => m # n /\ Alive(m)
    BY <1>t, <1>1 DEF Alive
  <2>4. ASSUME NEW m \in Launches, Alive(m)' PROVE Contains(activity_stack', tasks'[m].class)
    <3>1. m # n /\ Alive(m) /\ tasks[m].class # tasks[n].class
      BY <2>2, <2>3, <2>4
    <3>2. PICK i \in 1..Len(activity_stack) : activity_stack[i] = tasks[m].class
      BY <2>2, <3>1 DEF Contains
    <3>3. i \in 1..Len(activity_stack') /\ activity_stack'[i] = tasks[m].class
      BY <1>t, <1>2, <2>1, <3>1, <3>2
    <3>4. QED
      BY <1>1, <3>3 DEF Contains
  <2>5. \A i, j \in 1..Len(activity_stack') : activity_stack'[i] = activity_stack'[j] => i = j
    BY <1>t, <1>2, <2>1, <2>2
  <2>6. QED
    BY <1>1, <2>2, <2>3, <2>4, <2>5
<1>6. QED
  BY <1>3, <1>4, <1>5 DEF TaskInv

\* Every step of the task keeps the invariant.
LEMMA TaskStepKeeps ==
    ASSUME TaskInv, [TaskNext]_taskVars
    PROVE  TaskInv'
<1>t. TasksInv /\ OnTheWayInv /\ ListInv /\ TaskTypeOK
  BY DEF TaskInv, TasksInv
<1>1. CASE attachApplication
  <2>1. /\ Message("bind", 0) \in [kind : {"bind", "link"}, n : {0}]
        /\ Message("bind", 0).kind = "bind"
    BY DEF Message
  <2>2. TasksInv' /\ OnTheWayInv'
    BY <1>t, <1>1, <2>1 DEF attachApplication, TasksInv, TaskTypeOK, OnTheWayInv
  <2>3. ListInv'
    BY <1>t, <1>1 DEF attachApplication, ListInv, Alive
  <2>4. QED
    BY <2>2, <2>3 DEF TaskInv
<1>2. ASSUME NEW d \in Choosers, open_document(d) \/ ChooserEnds(d) PROVE TaskInv'
  <2>1. /\ choosers' \in [Choosers -> {"none", "open", "sending", "answered", "lost"}]
        /\ sends' \subseteq sends \cup {Message("result", d)}
        /\ UNCHANGED <<process, activity_stack, launched, tasks, finishing, astray>>
    BY <1>t, <1>2 DEF open_document, ChooserEnds, TaskTypeOK
  <2>2. /\ Message("result", d) \in [kind : {"result"}, n : Choosers]
        /\ Message("result", d).kind = "result"
    BY DEF Message
  <2>3. TasksInv' /\ OnTheWayInv'
    BY <1>t, <2>1, <2>2 DEF TasksInv, TaskTypeOK, OnTheWayInv
  <2>4. ListInv'
    BY <1>t, <2>1 DEF ListInv, Alive
  <2>5. QED
    BY <2>3, <2>4 DEF TaskInv
<1>3. ASSUME NEW n \in Launches, finishActivity(n) PROVE TaskInv'
  <2>1. /\ Message("destroy", n) \in [kind : {"launch", "destroy"}, n : Launches]
        /\ Message("destroy", n).kind = "destroy" /\ Message("destroy", n).n = n
    BY DEF Message
  <2>2. TasksInv' /\ OnTheWayInv'
    BY <1>t, <1>3, <2>1 DEF finishActivity, destroy_activity, Runs, TasksInv, TaskTypeOK, OnTheWayInv
  <2>3. ListInv'
    BY <1>t, <1>3 DEF finishActivity, destroy_activity, ListInv, Alive
  <2>4. QED
    BY <2>2, <2>3 DEF TaskInv
<1>4. CASE UNCHANGED taskVars
  <2>1. TasksInv' /\ OnTheWayInv'
    BY <1>t, <1>4 DEF taskVars, TasksInv, TaskTypeOK, OnTheWayInv
  <2>2. ListInv'
    BY <1>t, <1>4 DEF taskVars, ListInv, Alive
  <2>3. QED
    BY <2>1, <2>2 DEF TaskInv
<1>5. QED
  BY <1>1, <1>2, <1>3, <1>4, LaunchesKeep, DeliverKeeps, DestroyedKeeps
  DEF TaskNext, TaskStep, startActivity

\* What runs is listed once, and what is listed runs once.
LEMMA TasksRunOnce == TaskInv => TaskTypeOK /\ NobodyRunsTwice
BY DEF TaskInv, TasksInv, ListInv, Alive, NobodyRunsTwice

\* No activity is launched while another of its class is on its way or runs, as long as
\* activities end from the last one on: for any number of launches, in every order of the
\* threads that send them with the ends and the reports of the app (activity.rs,
\* activity_task.rs).
THEOREM NobodyRunsTwiceAlways == TaskSpec => [](TaskTypeOK /\ NobodyRunsTwice)
BY TasksRunOnce, TaskInitially, TaskStepKeeps, PTL DEF TaskSpec

-----------------------------------------------------------------------------
(***************************************************************************)
(* Alarms and pending intents.                                             *)
(***************************************************************************)
AlarmsSpec == IntentsInit /\ AlarmsInit /\ [][AlarmsNext]_<<alarmVars, intentVars>>

\* Calls between the two halves of set.
Entering == {c \in Callers : caller[c] # NoSender}

\* Senders are never taken back.
EntriesInv == entries \in Seq(PendingTargets) /\ IntentsTypeOK

\* A set that has begun has room for its alarm; an alarm has a thread and a sender.
ArmedInv ==
    /\ AlarmsTypeOK /\ cancelled \subseteq 1..armed
    /\ armed + Cardinality(Entering) <= MaxAlarms
    /\ \A n \in 1..armed : operation[n] \in Senders
    /\ \A n \in AlarmIds : n > armed => timer[n] = "none"

\* What was found asleep when it was removed still sleeps, or looked and kept silent.
SilencedInv == \A n \in silenced : timer[n] \in {"sleeps", "silent"}

AlarmsInv == EntriesInv /\ ArmedInv /\ SilencedInv /\ IntentsStartAsMade

\* No alarm is set and no record is made yet.
LEMMA AlarmsInitially == IntentsInit /\ AlarmsInit => AlarmsInv
<1> SUFFICES ASSUME IntentsInit, AlarmsInit PROVE AlarmsInv
  OBVIOUS
<1>1. EntriesInv /\ IntentsStartAsMade /\ SilencedInv
  BY IntentsAssumption
  DEF IntentsInit, AlarmsInit, EntriesInv, IntentsTypeOK, IntentsStartAsMade, SilencedInv
<1>2. Entering = {} /\ Cardinality(Entering) = 0
  BY FS_EmptySet DEF AlarmsInit, Entering
<1>3. AlarmsTypeOK
  BY AlarmsAssumption DEF AlarmsInit, AlarmsTypeOK
<1>4. ArmedInv
  BY <1>2, <1>3, AlarmsAssumption DEF AlarmsInit, ArmedInv
<1>5. QED
  BY <1>1, <1>4 DEF AlarmsInv

\* Starting a sender's target as a service if it is one, and as an activity if it was
\* made for one, keeps the word that was given for it.
LEMMA StartKeepsTheWord ==
    ASSUME EntriesInv, IntentsStartAsMade, NEW s \in Senders, NEW what \in {"service", "activity"},
           IsService(entries[s]) => what = "service",
           entries[s].intent_type = 2 => what = "activity",
           StartAs(what, entries[s]), UNCHANGED entries
    PROVE  EntriesInv' /\ IntentsStartAsMade'
<1> DEFINE t == entries[s]
           made == IF what = "activity" THEN [t EXCEPT !.extras = FALSE] ELSE t
<1>1. t \in PendingTargets /\ s \in 1..Len(entries)
  BY DEF EntriesInv, Senders
<1>2. /\ made \in PendingTargets /\ made.intent_type = t.intent_type /\ made.class = t.class
      /\ what = "service" => made = t
  BY <1>1 DEF PendingTargets
<1>3. started' = started \cup {[what |-> what, target |-> made]}
  BY DEF StartAs
<1>4. Contains(entries, t)
  BY <1>1 DEF Contains
<1>5. /\ made.intent_type \in {4, 5} => what = "service" /\ Contains(entries, made)
      /\ made.intent_type = 2 => what = "activity"
  BY <1>2, <1>4 DEF IsService
<1> HIDE DEF made, t
<1>6. EntriesInv'
  <2>1. [what |-> what, target |-> made] \in [what : {"service", "activity"}, target : PendingTargets]
    BY <1>2
  <2>2. QED
    BY <1>3, <2>1 DEF EntriesInv, IntentsTypeOK
<1>7. ASSUME NEW x \in started'
      PROVE  /\ x.target.intent_type \in {4, 5} => x.what = "service" /\ Contains(entries, x.target)
             /\ x.target.intent_type = 2 => x.what = "activity"
             /\ \E r \in Senders : /\ entries[r].intent_type = x.target.intent_type
                                   /\ entries[r].class = x.target.class
  <2>1. CASE x \in started
    BY <2>1 DEF IntentsStartAsMade
  <2>2. CASE x = [what |-> what, target |-> made]
    <3>1. x.what = what /\ x.target = made
      BY <2>2
    <3>2. entries[s].intent_type = x.target.intent_type /\ entries[s].class = x.target.class
      BY <3>1, <1>2 DEF t
    <3>3. QED
      BY <3>1, <3>2, <1>5
  <2>3. QED
    BY <1>3, <2>1, <2>2
<1>8. IntentsStartAsMade'
  BY <1>7 DEF IntentsStartAsMade, Senders
<1>9. QED
  BY <1>6, <1>8

\* A new sender leaves the others, so that the word given for them is kept.
LEMMA NewSender ==
    ASSUME EntriesInv, IntentsStartAsMade,
           NEW type \in PendingTypes, NEW class \in Classes, NEW shape \in Shapes,
           getIntentSender(type, class, shape)
    PROVE  EntriesInv' /\ IntentsStartAsMade' /\ Senders \subseteq Senders'
<1> DEFINE t == [read_intent_target(class, shape) EXCEPT !.intent_type = type]
<1>1. t \in PendingTargets
  BY DEF read_intent_target, PendingTargets, Classes, Shapes
<1> HIDE DEF t
<1>2. /\ entries' = Append(entries, t) /\ started' = started
      /\ entries' \in Seq(PendingTargets) /\ Len(entries') = Len(entries) + 1
      /\ \A s \in 1..Len(entries) : entries'[s] = entries[s]
      /\ Len(entries) \in Nat /\ Len(entries) < MaxSenders
  BY <1>1 DEF getIntentSender, EntriesInv, t
<1>3. Senders \subseteq Senders' /\ Senders = 1..Len(entries)
  BY <1>2 DEF Senders, EntriesInv
<1>4. EntriesInv'
  BY <1>2, IntentsAssumption DEF EntriesInv, IntentsTypeOK
<1>5. \A x : Contains(entries, x) => Contains(entries', x)
  BY <1>2 DEF Contains
<1>6. IntentsStartAsMade'
  BY <1>2, <1>3, <1>5 DEF IntentsStartAsMade
<1>7. QED
  BY <1>3, <1>4, <1>6

\* The calls and threads of the alarms keep the bookkeeping.
LEMMA AlarmsKeep ==
    ASSUME AlarmsInv,
           \/ \E n \in AlarmIds : Due(n)
           \/ \E c \in Callers : SetArms(c) \/ \E s \in Senders : SetCancels(c, s)
           \/ (\E s \in Senders : remove_alarm(s)) \/ removeAll
    PROVE  AlarmsInv'
<1>t. /\ armed \in 0..MaxAlarms /\ MaxAlarms \in Nat /\ armed \in Nat
      /\ operation \in [AlarmIds -> Senders \cup {NoSender}]
      /\ active_alarms \subseteq 1..armed \ cancelled /\ silenced \subseteq cancelled
      /\ cancelled \subseteq 1..armed
      /\ timer \in [AlarmIds -> {"none", "sleeps", "fires", "fired", "silent"}]
      /\ caller \in [Callers -> Senders \cup {NoSender}]
      /\ \A n \in 1..armed : operation[n] \in Senders
      /\ \A n \in AlarmIds : n > armed => timer[n] = "none"
      /\ armed + Cardinality(Entering) <= MaxAlarms
      /\ SilencedInv /\ NoSender \notin Senders
  BY AlarmsAssumption DEF AlarmsInv, ArmedInv, AlarmsTypeOK, Senders, NoSender, EntriesInv
<1>f. IsFiniteSet(Entering) /\ Cardinality(Entering) \in Nat
  BY AlarmsAssumption, FS_Subset, FS_CardinalityType DEF Entering
<1>e. UNCHANGED intentVars
  BY DEF Due, SetArms, SetCancels, remove_alarm, removeAll
<1>s. EntriesInv' /\ IntentsStartAsMade' /\ Senders' = Senders
  BY <1>e DEF AlarmsInv, EntriesInv, IntentsTypeOK, IntentsStartAsMade, Senders, intentVars
<1>c. ASSUME NEW gone \in SUBSET active_alarms, CancelAll(gone), Silence(gone),
             UNCHANGED <<armed, timer>>
      PROVE  /\ active_alarms' \subseteq 1..armed \ cancelled' /\ silenced' \subseteq cancelled'
             /\ cancelled' \subseteq 1..armed /\ SilencedInv'
  BY <1>t, <1>c DEF CancelAll, Silence, SilencedInv
<1>1. ASSUME NEW n \in AlarmIds, Due(n) PROVE AlarmsInv'
  <2>1. n \in silenced => timer'[n] = "silent"
    BY <1>t, <1>1 DEF Due
  <2>2. SilencedInv'
    BY <1>t, <1>1, <2>1 DEF Due, SilencedInv
  <2>3. ArmedInv'
    BY <1>t, <1>1, <1>s DEF Due, ArmedInv, AlarmsTypeOK, Entering
  <2>4. QED
    BY <1>s, <2>2, <2>3 DEF AlarmsInv
<1>2. ASSUME NEW c \in Callers, SetArms(c) PROVE AlarmsInv'
  <2>1. c \in Entering /\ Entering' = Entering \ {c}
    BY <1>t, <1>2 DEF SetArms, Entering
  <2>2. Cardinality(Entering') = Cardinality(Entering) - 1
    BY <1>f, <2>1, FS_RemoveElement
  <2>3. Cardinality(Entering) # 0
    BY <1>f, <2>1, FS_EmptySet
  <2>4. armed + 1 \in AlarmIds /\ armed' = armed + 1 /\ armed' \in 0..MaxAlarms
        /\ armed' + Cardinality(Entering') <= MaxAlarms
    BY <1>t, <1>f, <1>2, <2>2, <2>3 DEF SetArms, AlarmIds
  <2>5. caller[c] \in Senders
    BY <1>t, <1>2 DEF SetArms
  <2>6. /\ operation' \in [AlarmIds -> Senders \cup {NoSender}]
        /\ \A n \in 1..armed' : operation'[n] \in Senders
    BY <1>t, <1>2, <2>4, <2>5 DEF SetArms, AlarmIds
  <2>7. /\ timer' \in [AlarmIds -> {"none", "sleeps", "fires", "fired", "silent"}]
        /\ caller' \in [Callers -> Senders \cup {NoSender}]
    BY <1>t, <1>2, <2>4 DEF SetArms
  <2>8. /\ active_alarms' \subseteq 1..armed' \ cancelled' /\ silenced' \subseteq cancelled'
        /\ cancelled' \subseteq 1..armed'
    BY <1>t, <1>2, <2>4 DEF SetArms
  <2>9. \A n \in AlarmIds : n > armed' => timer'[n] = "none"
    BY <1>t, <1>2, <2>4 DEF SetArms, AlarmIds
  <2>10. SilencedInv'
    BY <1>t, <1>2, <2>4 DEF SetArms, SilencedInv
  <2>11. QED
    BY <1>s, <2>4, <2>6, <2>7, <2>8, <2>9, <2>10 DEF AlarmsInv, ArmedInv, AlarmsTypeOK
<1>3. ASSUME NEW c \in Callers, NEW s \in Senders, SetCancels(c, s) PROVE AlarmsInv'
  <2>1. c \notin Entering /\ Entering' = Entering \cup {c}
    BY <1>t, <1>3 DEF SetCancels, Entering
  <2>2. Cardinality(Entering') = Cardinality(Entering) + 1
    BY <1>f, <2>1, FS_AddElement
  <2>3. armed' + Cardinality(Entering') <= MaxAlarms
    BY <1>t, <1>f, <1>3, <2>2 DEF SetCancels, Entering
  <2>4. /\ AlarmsOf(s) \in SUBSET active_alarms /\ CancelAll(AlarmsOf(s)) /\ Silence(AlarmsOf(s))
        /\ UNCHANGED <<armed, timer, operation>>
    BY <1>3 DEF SetCancels, AlarmsOf, SameSender
  <2>5. caller' \in [Callers -> Senders \cup {NoSender}]
    BY <1>t, <1>3 DEF SetCancels
  <2>6. QED
    BY <1>t, <1>s, <1>c, <2>3, <2>4, <2>5 DEF AlarmsInv, ArmedInv, AlarmsTypeOK
<1>4. ASSUME NEW s \in Senders, remove_alarm(s) PROVE AlarmsInv'
  <2>1. /\ AlarmsOf(s) \in SUBSET active_alarms /\ CancelAll(AlarmsOf(s)) /\ Silence(AlarmsOf(s))
        /\ UNCHANGED <<armed, timer, operation, caller>>
    BY <1>4 DEF remove_alarm, AlarmsOf, SameSender
  <2>2. QED
    BY <1>t, <1>s, <1>c, <2>1 DEF AlarmsInv, ArmedInv, AlarmsTypeOK, Entering
<1>5. CASE removeAll
  <2>1. /\ active_alarms \in SUBSET active_alarms /\ CancelAll(active_alarms) /\ Silence(active_alarms)
        /\ UNCHANGED <<armed, timer, operation, caller>>
    BY <1>5 DEF removeAll
  <2>2. QED
    BY <1>t, <1>s, <1>c, <2>1 DEF AlarmsInv, ArmedInv, AlarmsTypeOK, Entering
<1>6. QED
  BY <1>1, <1>2, <1>3, <1>4, <1>5

\* Senders, sends and alarms that fire.
LEMMA IntentsKeep ==
    ASSUME AlarmsInv,
           \/ \E n \in AlarmIds : Fires(n)
           \/ IntentsNext /\ UNCHANGED alarmVars
    PROVE  AlarmsInv'
<1>1. ASSUME NEW n \in AlarmIds, Fires(n) PROVE AlarmsInv'
  <2>1. /\ armed \in Nat /\ n \in Nat
        /\ timer \in [AlarmIds -> {"none", "sleeps", "fires", "fired", "silent"}]
        /\ timer[n] = "fires" /\ timer' = [timer EXCEPT ![n] = "fired"]
    BY <1>1 DEF Fires, AlarmsInv, ArmedInv, AlarmsTypeOK, AlarmIds
  <2>2. n \in 1..armed
    BY <1>1, <2>1 DEF AlarmsInv, ArmedInv, AlarmIds
  <2>3. PICK s \in Senders : s = operation[n]
    BY <2>2 DEF AlarmsInv, ArmedInv
  <2> DEFINE what == AlarmStarts(entries[s])
  <2>4. what \in {"service", "activity"} /\ StartAs(what, entries[s]) /\ UNCHANGED entries
    BY <1>1, <2>3 DEF Fires, target_for, AlarmStarts
  <2>5. /\ IsService(entries[s]) => what = "service"
        /\ entries[s].intent_type = 2 => what = "activity"
    BY DEF IsService, AlarmStarts
  <2> HIDE DEF what
  <2>6. EntriesInv' /\ IntentsStartAsMade' /\ Senders' = Senders
    BY <2>4, <2>5, StartKeepsTheWord DEF AlarmsInv, Senders
  <2>7. SilencedInv'
    BY <1>1, <2>1 DEF Fires, AlarmsInv, SilencedInv
  <2>8. ArmedInv'
    BY <1>1, <2>1, <2>2, <2>6 DEF Fires, AlarmsInv, ArmedInv, AlarmsTypeOK, Entering
  <2>9. QED
    BY <2>6, <2>7, <2>8 DEF AlarmsInv
<1>2. ASSUME NEW type \in PendingTypes, NEW class \in Classes, NEW shape \in Shapes,
             getIntentSender(type, class, shape), UNCHANGED alarmVars
      PROVE  AlarmsInv'
  <2>1. EntriesInv' /\ IntentsStartAsMade' /\ Senders \subseteq Senders'
    BY <1>2, NewSender DEF AlarmsInv
  <2>2. QED
    BY <1>2, <2>1 DEF AlarmsInv, ArmedInv, AlarmsTypeOK, SilencedInv, Entering, alarmVars
<1>3. ASSUME NEW s \in Senders, send(s), UNCHANGED alarmVars PROVE AlarmsInv'
  <2> DEFINE what == IF IsService(entries[s]) THEN "service" ELSE "activity"
  <2>1. what \in {"service", "activity"} /\ StartAs(what, entries[s]) /\ UNCHANGED entries
    BY <1>3 DEF send, fire, target_for
  <2>2. /\ IsService(entries[s]) => what = "service"
        /\ entries[s].intent_type = 2 => what = "activity"
    BY DEF IsService
  <2> HIDE DEF what
  <2>3. EntriesInv' /\ IntentsStartAsMade'
    BY <2>1, <2>2, StartKeepsTheWord DEF AlarmsInv
  <2>4. QED
    BY <1>3, <2>1, <2>3 DEF AlarmsInv, ArmedInv, AlarmsTypeOK, SilencedInv, Entering, alarmVars, Senders
<1>4. QED
  BY <1>1, <1>2, <1>3 DEF IntentsNext

\* Every step of the alarms and of the pending intents keeps the invariant.
LEMMA AlarmsStep ==
    ASSUME AlarmsInv, [AlarmsNext]_<<alarmVars, intentVars>>
    PROVE  AlarmsInv'
<1>1. CASE UNCHANGED <<alarmVars, intentVars>>
  <2>1. EntriesInv' /\ IntentsStartAsMade' /\ Senders' = Senders
    BY <1>1 DEF AlarmsInv, EntriesInv, IntentsTypeOK, IntentsStartAsMade, Senders, intentVars
  <2>2. ArmedInv' /\ SilencedInv'
    BY <1>1, <2>1 DEF AlarmsInv, ArmedInv, AlarmsTypeOK, SilencedInv, Entering, alarmVars
  <2>3. QED
    BY <2>1, <2>2 DEF AlarmsInv
<1>2. QED
  BY <1>1, AlarmsKeep, IntentsKeep DEF AlarmsNext, AlarmStep

\* The invariant has the types, and says that the word is kept.
LEMMA AlarmsKeepTheirWord ==
    AlarmsInv => AlarmsTypeOK /\ IntentsTypeOK /\ AlarmsAndIntentsKeepTheirWord
<1>1. \A n : timer[n] \in {"sleeps", "silent"} => timer[n] # "fired"
  OBVIOUS
<1>2. QED
  BY <1>1 DEF AlarmsInv, EntriesInv, ArmedInv, SilencedInv, AlarmsAndIntentsKeepTheirWord,
              RemovedStaySilent

\* What an alarm, a send or a tap starts is what the sender was made for, as what it was
\* made for, and what a removal or a later set found asleep never fires: for every
\* interleaving of set's two halves, removals and threads (alarm.rs, pending_intent.rs).
THEOREM AlarmsAndIntentsKeepTheirWordAlways ==
    AlarmsSpec => [](AlarmsTypeOK /\ IntentsTypeOK /\ AlarmsAndIntentsKeepTheirWord)
BY AlarmsKeepTheirWord, AlarmsInitially, AlarmsStep, PTL DEF AlarmsSpec

-----------------------------------------------------------------------------
(***************************************************************************)
(* WindowComposition: the types of the stack and of the presenter's loop.  *)
(***************************************************************************)

\* A finite set of positions has a first and a last one.
LEMMA FirstAndLast ==
    ASSUME NEW n \in Nat, NEW S \in SUBSET (1 .. n), S # {}
    PROVE  Min(S) \in S /\ Max(S) \in S
<1>1. PICK least \in S : \A k \in S : least <= k
  <2>1. S \in SUBSET Nat
    OBVIOUS
  <2>2. QED
    BY <2>1, LeastNatural
<1>2. PICK most \in S : \A k \in S : most >= k
  <2>1. PICK R : R = {r \in Nat : \E k \in S : r = n - k}
    OBVIOUS
  <2>2. R \in SUBSET Nat /\ R # {}
    <3>1. PICK k \in S : TRUE
      OBVIOUS
    <3>2. n - k \in R
      BY <2>1
    <3>3. QED
      BY <2>1, <3>2
  <2>3. PICK r \in R : \A q \in R : r <= q
    BY <2>2, LeastNatural
  <2>4. PICK m \in S : r = n - m
    BY <2>1, <2>3
  <2>5. ASSUME NEW k \in S PROVE m >= k
    <3>1. n - k \in R
      BY <2>1
    <3>2. QED
      BY <2>3, <2>4, <3>1
  <2>6. QED
    BY <2>5
<1>3. QED
  BY <1>1, <1>2 DEF Min, Max

\* The base windows are windows of the stack.
LEMMA BasesFacts ==
    ASSUME stack \in Seq(Window)
    PROVE  /\ Bases \in Seq(Window)
           /\ \A i \in DOMAIN Bases : InStack(Bases[i].id)
<1>1. PICK keep : keep = {w \in ToSet(stack) : ~w.child}
  OBVIOUS
<1>2. Bases = Retain(stack, keep)
  BY <1>1 DEF Bases
<1>3. /\ Bases \in Seq(Window) /\ \A i \in DOMAIN Bases : Bases[i] \in keep
  BY <1>2, RetainFacts
<1>4. ASSUME NEW i \in DOMAIN Bases PROVE InStack(Bases[i].id)
  <2>1. Bases[i] \in ToSet(stack)
    BY <1>1, <1>3
  <2>2. PICK j \in DOMAIN stack : stack[j] = Bases[i]
    BY <2>1 DEF ToSet
  <2>3. QED
    BY <2>2 DEF InStack
<1>5. QED
  BY <1>3, <1>4

\* The place of a window is one of the stack.
LEMMA PlaceFacts ==
    ASSUME NEW w, InStack(w)
    PROVE  Place(w) \in DOMAIN stack /\ stack[Place(w)].id = w
BY DEF InStack, Place

\* The base window a frame belongs to is in the stack.
LEMMA MatchingFacts ==
    ASSUME stack \in Seq(Window), NEW f
    PROVE  Matching(f) = Absent \/ InStack(Matching(f))
<1>1. /\ Bases \in Seq(Window) /\ Len(Bases) \in Nat
      /\ DOMAIN Bases = 1 .. Len(Bases)
      /\ \A i \in DOMAIN Bases : InStack(Bases[i].id)
  BY BasesFacts
<1>2. PICK same, near : /\ same = {i \in DOMAIN Bases : Bases[i].tag = TagOf[f.win]}
                        /\ near = {i \in DOMAIN Bases : <<Bases[i].tag, TagOf[f.win]>> \in Alike}
  OBVIOUS
<1>3. Matching(f) = IF same # {} THEN Bases[Min(same)].id
                    ELSE IF near # {} THEN Bases[Min(near)].id
                    ELSE IF Len(Bases) = 1 THEN Bases[1].id ELSE Absent
  BY <1>2 DEF Matching
<1>4. same \in SUBSET (1 .. Len(Bases)) /\ near \in SUBSET (1 .. Len(Bases))
  BY <1>1, <1>2
<1>5. CASE same # {}
  <2>1. Min(same) \in same
    BY <1>1, <1>4, <1>5, FirstAndLast
  <2>2. Min(same) \in DOMAIN Bases
    BY <1>1, <1>4, <2>1
  <2>3. QED
    BY <1>1, <1>3, <1>5, <2>2
<1>6. CASE same = {} /\ near # {}
  <2>1. Min(near) \in near
    BY <1>1, <1>4, <1>6, FirstAndLast
  <2>2. Min(near) \in DOMAIN Bases
    BY <1>1, <1>4, <2>1
  <2>3. QED
    BY <1>1, <1>3, <1>6, <2>2
<1>7. CASE same = {} /\ near = {} /\ Len(Bases) = 1
  <2>1. 1 \in DOMAIN Bases
    BY <1>1, <1>7
  <2>2. QED
    BY <1>1, <1>3, <1>7, <2>1
<1>8. CASE same = {} /\ near = {} /\ Len(Bases) # 1
  BY <1>3, <1>8
<1>9. QED
  BY <1>5, <1>6, <1>7, <1>8

\* The topmost base window, if there is one, is a window.
LEMMA TopFacts ==
    ASSUME stack \in Seq(Window)
    PROVE  /\ TopBase \in Windows \cup {Absent}
           /\ Bases # <<>> => TopBase \in Windows /\ Last(Bases).canvas \in Canvas
<1>1. Bases \in Seq(Window)
  BY BasesFacts
<1>2. CASE Bases # <<>>
  <2>1. Last(Bases) \in Window
    BY <1>1, <1>2 DEF Last
  <2>2. QED
    BY <1>2, <2>1 DEF Window, TopBase
<1>3. QED
  BY <1>2 DEF TopBase

\* What stands at a place of the stack may be changed for another window.
LEMMA StackPut ==
    ASSUME stack \in Seq(Window), NEW i \in DOMAIN stack, NEW x \in Window,
           NEW t, t = [stack EXCEPT ![i] = x]
    PROVE  t \in Seq(Window)
OBVIOUS

\* Nothing is opened and nothing was drawn.
LEMMA CompositionStart == CompositionInit => CompositionTypeOK
<1> SUFFICES ASSUME CompositionInit PROVE CompositionTypeOK
  OBVIOUS
<1>1. /\ stack \in Seq(Window) /\ inbox \in Seq(Frame) /\ posts \in 0 .. MaxPosts
  BY WindowAssumption DEF CompositionInit
<1>2. Absent \in Canvas
  BY DEF Canvas
<1>3. QED
  BY <1>1, <1>2 DEF CompositionInit, CompositionTypeOK

\* What the window session does keeps the types.
LEMMA SessionTypes ==
    ASSUME CompositionTypeOK, NEW w \in Windows,
           AddToDisplay(w) \/ Relayout(w) \/ CreateSurface(w) \/ RemoveWindow(w) \/ Post(w)
    PROVE  CompositionTypeOK'
<1>1. stack \in Seq(Window) /\ inbox \in Seq(Frame) /\ posts \in 0 .. MaxPosts /\ MaxPosts \in Nat
  BY WindowAssumption DEF CompositionTypeOK
<1>2. CASE AddToDisplay(w)
  <2>1. PICK asks \in Asks, large \in Sizes :
          stack' = Append(stack,
                [id |-> w, asks |-> asks, child |-> IsChild(asks, Bases # <<>>),
                 size |-> SizeOf(asks, Bases # <<>>, large), tag |-> Absent, canvas |-> Absent])
    BY <1>2 DEF AddToDisplay
  <2>2. PICK child, extent : /\ child = IsChild(asks, Bases # <<>>)
                             /\ extent = SizeOf(asks, Bases # <<>>, large)
    OBVIOUS
  <2>3. child \in BOOLEAN
    BY <2>2 DEF IsChild
  <2>4. extent \in Sizes
    BY <2>2 DEF SizeOf, Sizes
  <2>5. PICK x : x = [id |-> w, asks |-> asks, child |-> child, size |-> extent, tag |-> Absent,
                      canvas |-> Absent]
    OBVIOUS
  <2>6. x \in Window
    BY <2>3, <2>4, <2>5 DEF Window, Canvas
  <2>7. stack' = Append(stack, x)
    BY <2>1, <2>2, <2>5
  <2>8. stack' \in Seq(Window)
    BY <1>1, <2>6, <2>7
  <2>9. QED
    BY <1>2, <2>8 DEF AddToDisplay, CompositionTypeOK, loopVars, sceneVars
<1>3. CASE Relayout(w)
  <2>1. PICK i : i = Place(w) /\ i \in DOMAIN stack
    BY <1>3, PlaceFacts DEF Relayout
  <2>2. PICK child, extent :
          /\ child = IsChild(stack[i].asks, \E j \in DOMAIN stack : j # i /\ ~stack[j].child)
          /\ extent = SizeOf(stack[i].asks, \E j \in DOMAIN stack : j # i /\ ~stack[j].child,
                             stack[i].size)
    OBVIOUS
  <2>3. child \in BOOLEAN
    BY <2>2 DEF IsChild
  <2>4. stack[i] \in Window
    BY <1>1, <2>1
  <2>5. extent \in Sizes
    BY <2>2, <2>4 DEF SizeOf, Sizes, Window
  <2>6. PICK x : x = [stack[i] EXCEPT !.child = child, !.size = extent]
    OBVIOUS
  <2>7. x \in Window
    BY <2>3, <2>4, <2>5, <2>6 DEF Window
  <2>8. stack' = [stack EXCEPT ![i] = x]
    BY <1>3, <2>1, <2>2, <2>6 DEF Relayout
  <2>9. stack' \in Seq(Window)
    BY <1>1, <2>1, <2>7, <2>8, StackPut
  <2>10. QED
    BY <1>3, <2>9 DEF Relayout, CompositionTypeOK, loopVars, sceneVars
<1>4. CASE CreateSurface(w)
  <2>1. PICK untagged : /\ untagged = {i \in DOMAIN stack : stack[i].tag = Absent}
                        /\ untagged # {}
                        /\ stack' = [stack EXCEPT ![Max(untagged)].tag = TagOf[w]]
    BY <1>4 DEF CreateSurface
  <2>2. untagged \in SUBSET (1 .. Len(stack)) /\ Len(stack) \in Nat
    BY <1>1, <2>1
  <2>3. PICK i : i = Max(untagged) /\ i \in DOMAIN stack
    BY <2>1, <2>2, FirstAndLast
  <2>4. stack[i] \in Window
    BY <1>1, <2>3
  <2>5. PICK x : x = [stack[i] EXCEPT !.tag = TagOf[w]]
    OBVIOUS
  <2>6. x \in Window
    BY <2>4, <2>5 DEF Window, Tags
  <2>7. stack' = [stack EXCEPT ![i] = x]
    BY <2>1, <2>3, <2>5
  <2>8. stack' \in Seq(Window)
    BY <1>1, <2>3, <2>6, <2>7, StackPut
  <2>9. QED
    BY <1>4, <2>8 DEF CreateSurface, CompositionTypeOK, loopVars, sceneVars
<1>5. CASE RemoveWindow(w)
  <2>1. Place(w) \in DOMAIN stack
    BY <1>5, PlaceFacts DEF RemoveWindow
  <2>2. RemoveAt(stack, Place(w)) \in Seq(Window)
    BY <1>1, <2>1, RemoveAtFacts
  <2>3. QED
    BY <1>5, <2>2 DEF RemoveWindow, CompositionTypeOK, loopVars, sceneVars
<1>6. CASE Post(w)
  <2>1. PICK x : x = stack[Place(w)] /\ x \in Window
    BY <1>1, <1>6, PlaceFacts DEF Post
  <2>2. PICK look \in Looks :
          inbox' = Append(inbox, [win |-> w, n |-> posts + 1, child |-> x.child,
                                  size |-> x.size, look |-> look])
    BY <1>6, <2>1 DEF Post
  <2>3. posts + 1 \in 1 .. MaxPosts /\ posts' \in 0 .. MaxPosts
    BY <1>1, <1>6 DEF Post
  <2>4. PICK f : f = [win |-> w, n |-> posts + 1, child |-> x.child, size |-> x.size, look |-> look]
    OBVIOUS
  <2>5. f \in Frame
    BY <2>1, <2>3, <2>4 DEF Frame, Window
  <2>6. inbox' \in Seq(Frame)
    BY <1>1, <2>2, <2>4, <2>5
  <2>7. QED
    BY <1>6, <2>3, <2>6 DEF Post, CompositionTypeOK, windowVars, loopVars, sceneVars
<1>7. QED
  BY <1>2, <1>3, <1>4, <1>5, <1>6

\* So does the loop: what it draws is a frame or a canvas, and of a window of the stack.
LEMMA LoopTypes ==
    ASSUME CompositionTypeOK, Loop \/ AllSlotsBusy
    PROVE  CompositionTypeOK'
<1>1. stack \in Seq(Window) /\ inbox \in Seq(Frame) /\ taken \in Canvas
  BY DEF CompositionTypeOK
<1>2. Absent \in Canvas /\ Frame \subseteq Canvas
  BY DEF Canvas
<1>3. CASE TakeFrame
  <2>1. Head(inbox) \in Frame /\ Tail(inbox) \in Seq(Frame)
    BY <1>1, <1>3 DEF TakeFrame
  <2>2. Covers(Head(inbox)) \in BOOLEAN
    BY DEF Covers
  <2>3. QED
    BY <1>2, <1>3, <2>1, <2>2 DEF TakeFrame, CompositionTypeOK, windowVars, sceneVars
<1>4. CASE ShowOverlay
  BY <1>2, <1>4 DEF ShowOverlay, Done, CompositionTypeOK, windowVars
<1>5. CASE DropOrphan
  BY <1>2, <1>5 DEF DropOrphan, Done, CompositionTypeOK, windowVars, sceneVars
<1>6. CASE ScanOut
  BY <1>2, <1>6 DEF ScanOut, Done, CompositionTypeOK, windowVars
<1>7. CASE CopyFrame
  <2>1. stack' \in Seq(Window)
    <3>1. CASE Matching(taken) = Absent
      BY <1>1, <1>7, <3>1 DEF CopyFrame
    <3>2. CASE Matching(taken) # Absent
      <4>1. PICK i : i = Place(Matching(taken)) /\ i \in DOMAIN stack
        BY <1>1, <3>2, MatchingFacts, PlaceFacts
      <4>2. PICK x : x = [stack[i] EXCEPT !.canvas = taken]
        OBVIOUS
      <4>3. stack[i] \in Window
        BY <1>1, <4>1
      <4>4. x \in Window
        BY <1>1, <4>2, <4>3 DEF Window
      <4>5. stack' = [stack EXCEPT ![i] = x]
        BY <1>7, <3>2, <4>1, <4>2 DEF CopyFrame
      <4>6. QED
        BY <1>1, <4>1, <4>4, <4>5, StackPut
    <3>3. QED
      BY <3>1, <3>2
  <2>2. /\ base' \in Canvas /\ view' \in Canvas /\ active' \in Windows \cup {Absent}
        /\ due' \in BOOLEAN
    BY <1>1, <1>7, TopFacts DEF CopyFrame, CompositionTypeOK
  <2>3. at' = "drain" /\ taken' = Absent /\ target' = FALSE
        /\ UNCHANGED <<opened, posts, inbox, overlay, screen>>
    BY <1>7 DEF CopyFrame, Done
  <2>4. QED
    BY <1>2, <2>1, <2>2, <2>3 DEF CompositionTypeOK
<1>8. CASE CheckTop
  <2>1. /\ base' \in Canvas /\ view' \in Canvas /\ active' \in Windows \cup {Absent}
        /\ due' \in BOOLEAN
    BY <1>1, <1>2, <1>8, TopFacts DEF CheckTop, CompositionTypeOK
  <2>2. at' = "child" /\ UNCHANGED <<windowVars, posts, inbox, taken, target, overlay, screen>>
    BY <1>8 DEF CheckTop
  <2>3. QED
    BY <2>1, <2>2 DEF CompositionTypeOK, windowVars
<1>9. CASE CheckChild
  BY <1>2, <1>9 DEF CheckChild, CompositionTypeOK, windowVars
<1>10. CASE PresentComposite
  <2>1. /\ screen' \in [base : Canvas, view : Canvas, overlay : Canvas, direct : BOOLEAN]
        /\ due' \in BOOLEAN
    <3>1. CASE due /\ (base # Absent \/ view # Absent)
      <4>1. /\ screen' = [base |-> base, view |-> view, overlay |-> overlay, direct |-> FALSE]
            /\ due' = FALSE
        BY <1>10, <3>1 DEF PresentComposite
      <4>2. base \in Canvas /\ view \in Canvas /\ overlay \in Canvas
        BY DEF CompositionTypeOK
      <4>3. QED
        BY <4>1, <4>2
    <3>2. CASE ~(due /\ (base # Absent \/ view # Absent))
      BY <1>10, <3>2 DEF PresentComposite, CompositionTypeOK
    <3>3. QED
      BY <3>1, <3>2
  <2>2. /\ at' = "drain"
        /\ UNCHANGED <<windowVars, posts, inbox, taken, target, base, view, overlay, active>>
    BY <1>10 DEF PresentComposite
  <2>3. QED
    BY <2>1, <2>2 DEF CompositionTypeOK, windowVars
<1>11. CASE AllSlotsBusy
  BY <1>11 DEF AllSlotsBusy, CompositionTypeOK, windowVars, sceneVars
<1>12. QED
  BY <1>3, <1>4, <1>5, <1>6, <1>7, <1>8, <1>9, <1>10, <1>11 DEF Loop

\* So does every step.
LEMMA CompositionStep ==
    ASSUME CompositionTypeOK, [CompositionNext]_compositionVars
    PROVE  CompositionTypeOK'
<1>1. CASE UNCHANGED compositionVars
  BY <1>1 DEF compositionVars, windowVars, loopVars, sceneVars, CompositionTypeOK
<1>2. QED
  BY <1>1, SessionTypes, LoopTypes DEF CompositionNext

-----------------------------------------------------------------------------
(***************************************************************************)
(* All of them side by side, as they are checked.                          *)
(***************************************************************************)
DesktopPartsInv ==
    /\ FrameInv /\ CompositionTypeOK /\ VsyncInv /\ LayoutInv /\ TaskInv /\ AlarmsInv
    /\ subject \in {"buffers", "windows", "vsync", "layout", "task", "alarms"}

\* A step is of one of them, and leaves the others as they are.
LEMMA OneMoves ==
    ASSUME [Next]_parts
    PROVE  /\ [FrameNext]_frameVars /\ [CompositionNext]_compositionVars
           /\ [VsyncNext]_vsyncVars /\ [LayoutNext]_layoutVars
           /\ [TaskNext]_taskVars /\ [AlarmsNext]_<<alarmVars, intentVars>>
           /\ UNCHANGED subject
<1>1. CASE UNCHANGED parts
  BY <1>1 DEF parts, display, appVars, alarmAll
<1>2. CASE DisplayNext /\ UNCHANGED appVars /\ UNCHANGED subject
  BY <1>2 DEF DisplayNext, appVars, alarmAll
<1>3. CASE AppNext /\ UNCHANGED display /\ UNCHANGED subject
  BY <1>3 DEF AppNext, display, alarmAll
<1>4. QED
  BY <1>1, <1>2, <1>3 DEF Next

\* Every step of one of them keeps the invariants of all.
LEMMA DesktopPartsStep ==
    ASSUME DesktopPartsInv, [Next]_parts
    PROVE  DesktopPartsInv'
<1>1. FrameInv' /\ CompositionTypeOK'
  BY OneMoves, FrameStep, CompositionStep DEF DesktopPartsInv
<1>2. VsyncInv' /\ LayoutInv'
  BY OneMoves, VsyncStep, LayoutStep DEF DesktopPartsInv
<1>3. TaskInv' /\ AlarmsInv'
  BY OneMoves, TaskStepKeeps, AlarmsStep DEF DesktopPartsInv
<1>4. QED
  BY <1>1, <1>2, <1>3, OneMoves DEF DesktopPartsInv

\* The display path, the app's task and its alarms, each with the types and the invariants
\* that MCDesktop checks, and the buffers as BufferOwnership has them: for any windows,
\* queues, buffers, requests, resizes, starts and alarms.
THEOREM DesktopKeepsItsInvariants ==
    Spec => /\ [](/\ TypeOK /\ RequestsAreAnswered /\ EveryWindowIsTold /\ NobodyRunsTwice
                  /\ AlarmsAndIntentsKeepTheirWord)
            /\ BuffersAreOwned
<1>1. Init => DesktopPartsInv /\ Ownership!Init
  BY FrameStart, CompositionStart, VsyncStart, LayoutStart, TaskInitially, AlarmsInitially
  DEF Init, DesktopPartsInv
<1>2. DesktopPartsInv /\ [Next]_parts => DesktopPartsInv'
  BY DesktopPartsStep
<1>3. DesktopPartsInv /\ [Next]_parts => [Ownership!Next]_Ownership!vars
  BY OneMoves, FrameStep, OwnershipSteps DEF DesktopPartsInv
<1>4. ASSUME DesktopPartsInv
      PROVE  /\ TypeOK /\ RequestsAreAnswered /\ EveryWindowIsTold /\ NobodyRunsTwice
             /\ AlarmsAndIntentsKeepTheirWord /\ NoBufferIsLost
  <2>1. FrameTypeOK /\ NoBufferIsLost
    BY <1>4, WaysLeadHome DEF DesktopPartsInv, FrameInv
  <2>2. VsyncTypeOK /\ RequestsAreAnswered
    BY <1>4 DEF DesktopPartsInv, VsyncInv
  <2>3. LayoutTypeOK /\ EveryWindowIsTold
    BY <1>4, LayoutTells DEF DesktopPartsInv
  <2>4. TaskTypeOK /\ NobodyRunsTwice
    BY <1>4, TasksRunOnce DEF DesktopPartsInv
  <2>5. AlarmsTypeOK /\ IntentsTypeOK /\ AlarmsAndIntentsKeepTheirWord
    BY <1>4, AlarmsKeepTheirWord DEF DesktopPartsInv
  <2>6. TypeOK
    BY <1>4, <2>1, <2>2, <2>3, <2>4, <2>5 DEF DesktopPartsInv, TypeOK
  <2>7. QED
    BY <2>1, <2>2, <2>3, <2>4, <2>5, <2>6
<1>5. QED
  BY <1>1, <1>2, <1>3, <1>4, PTL DEF Spec, BuffersAreOwned, NobodyOverwritesTheScreen,
     Ownership!Spec
=============================================================================
