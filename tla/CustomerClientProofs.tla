------------------------- MODULE CustomerClientProofs -------------------------
(***************************************************************************)
(* What CustomerClient promises for any slots, openings and bounds: a list *)
(* the tab believes current shows what the tab was told it had changed; an *)
(* outcome the modal shows is about the slot it shows; the slot to reopen  *)
(* is answered as soon as its day is there.                                *)
(***************************************************************************)
EXTENDS CustomerClient, QueryCacheProofs

-------------------------------------------------------------------------------
(* The tab itself: its type, the modal's requests, the slot it reopens.    *)

\* The server: whose each opening is, and the hours and packs of the customer.
ServerOK ==
  /\ taken \in [Slots -> BOOLEAN] /\ mine \in [Slots -> Statuses]
  /\ share \in [Slots -> Nat] /\ bank \in Nat /\ unpaid \in Nat /\ paid \in Nat

\* At Checkout the tab knows what it went there for.
PlaceOK ==
  /\ page \in {"rooms", "dashboard", "packs", "checkout"} /\ signedIn \in BOOLEAN
  /\ query \in [slot: Slots, outcome: {"sucesso", "cancelado"}] \cup {None}
  /\ leaving \in Places \cup {None} /\ (page = "checkout" => leaving \in Places)

\* A booking is made, cancelled and paid for by its slot.
RequestsOK ==
  /\ calls \in Seq(Calls) /\ here \subseteq DOMAIN calls
  /\ \A i \in DOMAIN calls : calls[i].op \in {"book", "cancel", "pay"} => calls[i].slot \in Slots
  /\ dialog \in [slot: Slots, call: Nat] \cup {None}
  /\ dialog # None => dialog.call \in 0 .. Len(calls)

\* The modal's requests are about its slot, and their answers still count.
RoomsOK ==
  /\ day \in Slots \cup {None} /\ reopen \in Slots \cup {None} /\ awaiting \in BOOLEAN
  /\ modal \in Modals \cup {None}
  /\ modal # None => \A i \in {modal.create, modal.purchase} \ {0} :
       i \in DOMAIN calls /\ calls[i].slot = modal.slot /\ calls[i].live

\* A cache of what each query reads.
TypedCache(c) == DOMAIN c = Keys /\ \A k \in Keys : c[k] \in Entries(Values(k))

\* So is the tab's.
CacheOK == TypedCache(cache)

\* What is counted.
CountsOK == applied \in Nat /\ spent \in Nat /\ acked \in [Keys -> Nat]

\* The second invariant.
TInv == /\ ServerOK /\ PlaceOK /\ RequestsOK /\ RoomsOK /\ CacheOK /\ CountsOK
        /\ ReopenIsAnswered

\* It holds where the customer starts.
LEMMA InitTyped == Init => TInv
<1> SUFFICES ASSUME Init PROVE TInv
  OBVIOUS
<1>1. ServerOK
  BY CustomerAssumption DEF Init, ServerOK, Statuses
<1>2. PlaceOK
  BY CustomerAssumption DEF Init, PlaceOK
<1>3. RequestsOK
  <2>1. calls = <<>> /\ here = {} /\ dialog = None
    BY DEF Init
  <2> QED  BY <2>1 DEF RequestsOK
<1>4. RoomsOK /\ CountsOK /\ ReopenIsAnswered
  BY CustomerAssumption DEF Init, RoomsOK, CountsOK, ReopenIsAnswered
<1>5. CacheOK
  BY DEF Init, CacheOK, TypedCache, Empty, Entries
<1> QED  BY <1>1, <1>2, <1>3, <1>4, <1>5 DEF TInv

\* Which steps move the server.
LEMMA ServerMoves ==
  ASSUME Next
  PROVE  \/ UNCHANGED server
         \/ PayAtCheckout \/ PackArrives
         \/ \E i \in DOMAIN calls :
              ServeBook(i) \/ ServeBuy(i) \/ ServeCancel(i) \/ ServePay(i) \/ ServeDrop(i)
         \/ \E s \in Slots : OthersTake(s) \/ HoldLapses(s)
<1>1. CASE Modal
  BY <1>1 DEF Modal, Choose, Confirm, BuyForSlot, CloseModal, TimesOut, CheckBankAgain, Poll, SignIn
<1>2. CASE Pages
  BY <1>2 DEF Pages, OpenCalendar, Navigate, PickSlot, ReadUrl, OpenDialog, PayBooking, CloseDialog,
     CancelBooking, BuyPack, CancelPurchase, ResumePurchase, GoTo, Unload, Reload, LeaveCheckout
<1>3. CASE Answers
  BY <1>3 DEF Answers, AnswerBook, AnswerBuy, AnswerCancel, AnswerPay, AnswerDrop, AnswerError
<1>4. CASE Server
  BY <1>4 DEF Server, Refuse, ServeRead, DeliverRead
<1>5. CASE Outside
  BY <1>5 DEF Outside, FailRead, MinutePasses
<1> QED  BY <1>1, <1>2, <1>3, <1>4, <1>5 DEF Next

\* What the list of requests is.
LEMMA RequestsAre ==
  ASSUME RequestsOK
  PROVE  /\ Len(calls) \in Nat /\ DOMAIN calls = 1 .. Len(calls)
         /\ \A i \in DOMAIN calls : calls[i] \in Calls
  BY DEF RequestsOK

\* What is booked comes out of hours that are there, what is cancelled gives
\* its own back.
LEMMA ServerInv == ASSUME TInv, Next PROVE ServerOK'
<1> USE DEF TInv, ServerOK
<1>1. CASE UNCHANGED server
  BY <1>1 DEF server
<1>2. CASE PayAtCheckout
  BY <1>2 DEF PayAtCheckout, Statuses
<1>3. CASE PackArrives
  BY <1>3, CustomerAssumption DEF PackArrives
<1>4. ASSUME NEW i \in DOMAIN calls, ServeBook(i) PROVE ServerOK'
  <2> DEFINE s == calls[i].slot
             h == CASE calls[i].how = "package" -> Duration
                    [] calls[i].how = "mixed"   -> Least(bank, Duration)
                    [] OTHER                    -> 0
  <2>1. calls[i].op = "book" /\ CanServe(calls[i])
    BY <1>4 DEF ServeBook, Serve
  <2>2. h \in Nat /\ h <= bank
    BY <2>1, CustomerAssumption DEF CanServe, Least
  <2>3. bank' = bank - h /\ share' = [share EXCEPT ![s] = h] /\ UNCHANGED <<taken, unpaid, paid>>
    BY <1>4 DEF ServeBook, Serve
  <2>4. mine' = [mine EXCEPT ![s] = "booked"] \/ mine' = [mine EXCEPT ![s] = "hold"]
    BY <1>4 DEF ServeBook
  <2> HIDE DEF h, s
  <2>5. share' \in [Slots -> Nat]
    BY <2>2, <2>3
  <2>6. bank \in Nat
    OBVIOUS
  <2>7. bank' \in Nat
    BY ONLY <2>2, <2>3, <2>6
  <2>8. mine' \in [Slots -> Statuses]
    BY <2>4 DEF Statuses
  <2> QED  BY <2>3, <2>5, <2>7, <2>8
<1>5. ASSUME NEW i \in DOMAIN calls, ServeBuy(i) PROVE ServerOK'
  BY <1>5 DEF ServeBuy, Serve
<1>6. ASSUME NEW i \in DOMAIN calls, ServeCancel(i) PROVE ServerOK'
  <2>1. calls[i].slot \in Slots
    BY <1>6 DEF ServeCancel, Serve, RequestsOK
  <2>2. bank' \in Nat
    BY <1>6, <2>1, CustomerAssumption DEF ServeCancel
  <2> QED  BY <1>6, <2>1, <2>2 DEF ServeCancel, Serve, Statuses
<1>7. ASSUME NEW i \in DOMAIN calls, ServePay(i) PROVE ServerOK'
  <2>1. calls[i].slot \in Slots /\ share[calls[i].slot] \in Nat
    BY <1>7 DEF ServePay, Serve, RequestsOK
  <2>2. bank' \in Nat
    BY <1>7, <2>1 DEF ServePay, Serve, CanServe, CanResume, Held
  <2> QED  BY <1>7, <2>2 DEF ServePay, Serve, Statuses
<1>8. ASSUME NEW i \in DOMAIN calls, ServeDrop(i) PROVE ServerOK'
  BY <1>8 DEF ServeDrop, Serve, CanServe
<1>9. ASSUME NEW s \in Slots, OthersTake(s) \/ HoldLapses(s) PROVE ServerOK'
  <2>1. CASE OthersTake(s)
    BY <2>1 DEF OthersTake
  <2>2. CASE HoldLapses(s)
    <3>1. share[s] \in Nat /\ bank \in Nat
      OBVIOUS
    <3>2. bank' \in Nat
      BY <2>2, <3>1 DEF HoldLapses
    <3> QED  BY <2>2, <3>2 DEF HoldLapses, Statuses
  <2> QED  BY <1>9, <2>1, <2>2
<1> QED  BY <1>1, <1>2, <1>3, <1>4, <1>5, <1>6, <1>7, <1>8, <1>9, ServerMoves

-------------------------------------------------------------------------------
(* The requests. *)

\* No request is sent; each is followed up or forgotten, the modal's is not.
Followed ==
  /\ calls' \in Seq(Calls) /\ Len(calls') = Len(calls)
  /\ \A i \in DOMAIN calls :
       /\ calls'[i] \in Calls
       /\ calls'[i] = Gone \/ (calls'[i].op = calls[i].op /\ calls'[i].slot = calls[i].slot)
       /\ modal' # None /\ modal # None /\ i \in {modal.create, modal.purchase} =>
            calls'[i].slot = calls[i].slot /\ calls'[i].live = calls[i].live

\* A request's record as it is followed up.
LEMMA CallTyped ==
  ASSUME NEW x \in Calls, NEW g \in {"sent", "served", "told", "failed"},
         NEW r \in {None, "url", "done", "refused"}, NEW n \in Nat
  PROVE  /\ [x EXCEPT !.live = FALSE] \in Calls
         /\ [x EXCEPT !.stage = g, !.n = 0] \in Calls
         /\ [x EXCEPT !.stage = "served", !.how = None, !.result = r, !.n = n] \in Calls
         /\ Gone \in Calls
<1>1. [x EXCEPT !.live = FALSE] \in Calls
  BY DEF Calls
<1>2. [x EXCEPT !.stage = g, !.n = 0] \in Calls
  BY DEF Calls
<1>3. [x EXCEPT !.stage = "served", !.how = None, !.result = r, !.n = n] \in Calls
  BY DEF Calls
<1>4. Gone \in Calls
  BY DEF Gone, Calls, Ops
<1> QED  BY <1>1, <1>2, <1>3, <1>4

\* One record replaced.
LEMMA ReplaceTyped ==
  ASSUME RequestsOK, NEW i \in DOMAIN calls, NEW x \in Calls, calls' = [calls EXCEPT ![i] = x]
  PROVE  /\ calls' \in Seq(Calls) /\ Len(calls') = Len(calls) /\ calls'[i] = x
         /\ \A j \in DOMAIN calls : j # i => calls'[j] = calls[j]
  BY DEF RequestsOK

\* An answer is told to the modal or to nobody.
LEMMA TellFollowed ==
  ASSUME TInv, NEW i \in DOMAIN calls, NEW g \in {"told", "failed"}, Tell(i, g)
  PROVE  Followed
<1> DEFINE y == [calls[i] EXCEPT !.stage = g, !.n = 0]
           x == IF modal # None /\ i \in {modal.create, modal.purchase} THEN y ELSE Gone
<1>1. calls[i] \in Calls /\ \A j \in DOMAIN calls : calls[j] \in Calls
  BY RequestsAre DEF TInv
<1>2. y \in Calls /\ Gone \in Calls
  BY <1>1, CallTyped
<1>3. y.op = calls[i].op /\ y.slot = calls[i].slot /\ y.live = calls[i].live
  BY <1>1 DEF Calls
<1>4. calls' = [calls EXCEPT ![i] = x]
  BY DEF Tell
<1> HIDE DEF y
<1>5. x \in Calls
  BY <1>2
<1>6. x = Gone \/ x = y
  OBVIOUS
<1>7. modal # None /\ i \in {modal.create, modal.purchase} => x = y
  OBVIOUS
<1> HIDE DEF x
<1>8. /\ calls' \in Seq(Calls) /\ Len(calls') = Len(calls) /\ calls'[i] = x
      /\ \A j \in DOMAIN calls : j # i => calls'[j] = calls[j]
  BY <1>4, <1>5, ReplaceTyped DEF TInv
<1>9. ASSUME NEW j \in DOMAIN calls
      PROVE  /\ calls'[j] \in Calls
             /\ calls'[j] = Gone \/ (calls'[j].op = calls[j].op /\ calls'[j].slot = calls[j].slot)
             /\ modal # None /\ j \in {modal.create, modal.purchase} =>
                  calls'[j].slot = calls[j].slot /\ calls'[j].live = calls[j].live
  <2>1. CASE j = i
    BY <2>1, <1>3, <1>5, <1>6, <1>7, <1>8
  <2>2. CASE j # i
    BY <1>1, <1>8, <1>9, <2>2
  <2> QED  BY <2>1, <2>2
<1> QED  BY <1>8, <1>9 DEF Followed

\* A reply reaches whoever still listens.
LEMMA ReplyFollowed ==
  ASSUME TInv, NEW i \in DOMAIN calls, NEW r \in {"url", "done", "refused"}, NEW n \in Nat,
         calls' = [calls EXCEPT ![i] = Replied(@, r, n)]
  PROVE  Followed
<1> DEFINE y == [calls[i] EXCEPT !.stage = "served", !.how = None, !.result = r, !.n = n]
           x == Replied(calls[i], r, n)
<1>1. calls[i] \in Calls /\ \A j \in DOMAIN calls : calls[j] \in Calls
  BY RequestsAre DEF TInv
<1>2. y \in Calls /\ Gone \in Calls
  BY <1>1, CallTyped
<1>3. y.op = calls[i].op /\ y.slot = calls[i].slot /\ y.live = calls[i].live
  BY <1>1 DEF Calls
<1>4. calls' = [calls EXCEPT ![i] = x]
  OBVIOUS
<1>5. x = IF calls[i].live THEN y ELSE Gone
  BY DEF Replied
<1>6. modal # None /\ i \in {modal.create, modal.purchase} => calls[i].live
  <2>1. i # 0
    BY RequestsAre DEF TInv
  <2> QED  BY <2>1 DEF TInv, RoomsOK
<1> HIDE DEF y, x
<1>7. x \in Calls
  BY <1>2, <1>5
<1>8. /\ calls' \in Seq(Calls) /\ Len(calls') = Len(calls) /\ calls'[i] = x
      /\ \A j \in DOMAIN calls : j # i => calls'[j] = calls[j]
  BY <1>4, <1>7, ReplaceTyped DEF TInv
<1>9. ASSUME NEW j \in DOMAIN calls
      PROVE  /\ calls'[j] \in Calls
             /\ calls'[j] = Gone \/ (calls'[j].op = calls[j].op /\ calls'[j].slot = calls[j].slot)
             /\ modal # None /\ j \in {modal.create, modal.purchase} =>
                  calls'[j].slot = calls[j].slot /\ calls'[j].live = calls[j].live
  <2>1. CASE j = i
    BY <2>1, <1>3, <1>5, <1>6, <1>7, <1>8
  <2>2. CASE j # i
    BY <1>1, <1>8, <1>9, <2>2
  <2> QED  BY <2>1, <2>2
<1> QED  BY <1>8, <1>9 DEF Followed

\* A page load closes the modal.
LEMMA LoadFollowed == ASSUME TInv, NEW p, NEW q, Load(p, q) PROVE Followed
<1> DEFINE x(i) == IF calls[i].stage = "sent" THEN [calls[i] EXCEPT !.live = FALSE] ELSE Gone
<1>1. calls' = [i \in DOMAIN calls |-> x(i)] /\ modal' = None
  BY DEF Load, Unmount
<1>2. ASSUME NEW i \in DOMAIN calls
      PROVE  x(i) \in Calls /\ (x(i) = Gone \/ (x(i).op = calls[i].op /\ x(i).slot = calls[i].slot))
  <2>1. calls[i] \in Calls
    BY <1>2, RequestsAre DEF TInv
  <2>2. [calls[i] EXCEPT !.live = FALSE] \in Calls /\ Gone \in Calls
    BY <2>1, CallTyped
  <2>3. [calls[i] EXCEPT !.live = FALSE].op = calls[i].op
        /\ [calls[i] EXCEPT !.live = FALSE].slot = calls[i].slot
    BY <2>1 DEF Calls
  <2>4. x(i) = [calls[i] EXCEPT !.live = FALSE] \/ x(i) = Gone
    OBVIOUS
  <2> HIDE DEF x
  <2> QED  BY <2>2, <2>3, <2>4
<1>3. Len(calls) \in Nat /\ DOMAIN calls = 1 .. Len(calls)
  BY RequestsAre DEF TInv
<1> HIDE DEF x
<1>4. calls' \in Seq(Calls) /\ Len(calls') = Len(calls)
  BY <1>1, <1>2, <1>3
<1> QED  BY <1>1, <1>2, <1>4 DEF Followed

\* Where the modal stays, its requests stay, about the slots they were about.
ModalHeard ==
  modal # None /\ modal' # None => \A i \in {modal.create, modal.purchase} \ {0} :
    i \in DOMAIN calls' /\ calls'[i].slot = calls[i].slot /\ calls'[i].live

\* A step that sends nothing.
LEMMA FollowedInv ==
  ASSUME TInv, Followed, here' \subseteq here,
         dialog' \in {dialog, None} \/ \E s \in Slots : dialog' = [slot |-> s, call |-> 0]
  PROVE  RequestsOK' /\ ModalHeard
<1>1. /\ calls' \in Seq(Calls) /\ Len(calls') = Len(calls) /\ Len(calls) \in Nat
      /\ DOMAIN calls = 1 .. Len(calls) /\ DOMAIN calls' = DOMAIN calls
  BY RequestsAre DEF Followed, TInv
<1>2. here' \subseteq DOMAIN calls'
  BY <1>1 DEF TInv, RequestsOK
<1>3. ASSUME NEW i \in DOMAIN calls', calls'[i].op \in {"book", "cancel", "pay"}
      PROVE  calls'[i].slot \in Slots
  BY <1>1, <1>3 DEF TInv, RequestsOK, Followed, Gone
<1>4. dialog' \in [slot: Slots, call: Nat] \cup {None}
  BY DEF TInv, RequestsOK
<1>5. dialog' # None => dialog'.call \in 0 .. Len(calls')
  BY <1>1 DEF TInv, RequestsOK
<1>6. ModalHeard
  BY <1>1 DEF TInv, RoomsOK, Followed, ModalHeard
<1> QED  BY <1>1, <1>2, <1>3, <1>4, <1>5, <1>6 DEF RequestsOK

\* Nor does one that leaves the requests alone.
LEMMA SameFollowed == ASSUME TInv, UNCHANGED calls PROVE Followed
  BY RequestsAre DEF TInv, RequestsOK, Followed

\* A step that sends a request.
LEMMA SentInv ==
  ASSUME TInv, NEW op \in Ops, NEW s \in Slots \cup {None},
         NEW how \in {"package", "mixed", "hourly", None}, Send(op, s, how),
         op \in {"book", "cancel", "pay"} => s \in Slots,
         here' \subseteq here \cup {Sent},
         dialog' = dialog \/ (dialog # None /\ dialog' = [dialog EXCEPT !.call = Sent])
  PROVE  /\ RequestsOK' /\ ModalHeard
         /\ Sent \in DOMAIN calls' /\ calls'[Sent].slot = s /\ calls'[Sent].live
<1> DEFINE x == [op |-> op, slot |-> s, how |-> how, stage |-> "sent", result |-> None, n |-> 0,
                 live |-> TRUE]
<1>1. Len(calls) \in Nat /\ DOMAIN calls = 1 .. Len(calls) /\ calls \in Seq(Calls)
  BY RequestsAre DEF TInv, RequestsOK
<1>2. x \in Calls /\ calls' = Append(calls, x)
  BY DEF Calls, Send
<1>3. x.slot = s /\ x.op = op /\ x.live = TRUE
  OBVIOUS
<1> HIDE DEF x
<1>4. /\ calls' \in Seq(Calls) /\ Len(calls') = Len(calls) + 1 /\ Sent = Len(calls) + 1
      /\ DOMAIN calls' = 1 .. Len(calls) + 1 /\ calls'[Sent] = x
      /\ \A i \in DOMAIN calls : calls'[i] = calls[i]
  BY <1>1, <1>2 DEF Sent
<1>5. Sent \in DOMAIN calls' /\ Sent \in Nat /\ DOMAIN calls \subseteq DOMAIN calls'
  BY <1>1, <1>4
<1>6. here' \subseteq DOMAIN calls'
  BY <1>5 DEF TInv, RequestsOK
<1>7. ASSUME NEW i \in DOMAIN calls', calls'[i].op \in {"book", "cancel", "pay"}
      PROVE  calls'[i].slot \in Slots
  <2>1. CASE i = Sent
    BY <1>3, <1>4, <1>7, <2>1
  <2>2. CASE i # Sent
    <3>1. i \in DOMAIN calls
      BY <1>1, <1>4, <2>2
    <3> QED  BY <1>4, <1>7, <3>1 DEF TInv, RequestsOK
  <2> QED  BY <2>1, <2>2
<1>8. dialog' \in [slot: Slots, call: Nat] \cup {None} /\ (dialog' # None => dialog'.call \in 0 .. Len(calls'))
  <2>1. CASE dialog' = dialog
    BY <1>1, <1>4, <2>1 DEF TInv, RequestsOK
  <2>2. CASE dialog # None /\ dialog' = [dialog EXCEPT !.call = Sent]
    <3>1. dialog \in [slot: Slots, call: Nat]
      BY <2>2 DEF TInv, RequestsOK
    <3>2. dialog' \in [slot: Slots, call: Nat] /\ dialog'.call = Sent
      BY <1>5, <2>2, <3>1
    <3> QED  BY <1>1, <1>4, <3>2
  <2> QED  BY <2>1, <2>2
<1>9. ModalHeard
  BY <1>4, <1>5 DEF TInv, RoomsOK, ModalHeard
<1> QED  BY <1>3, <1>4, <1>5, <1>6, <1>7, <1>8, <1>9 DEF RequestsOK

\* Which steps move the requests, and the dialog that shows one.
LEMMA RequestMoves ==
  ASSUME Next
  PROVE  \/ /\ UNCHANGED calls /\ here' \subseteq here
            /\ dialog' \in {dialog, None} \/ \E s \in Slots : dialog' = [slot |-> s, call |-> 0]
         \/ Confirm \/ BuyForSlot \/ CancelBooking \/ BuyPack \/ CancelPurchase
         \/ \E s \in Slots : PayBooking(s)
         \/ Answers \/ Unload \/ Reload \/ PayAtCheckout \/ LeaveCheckout
         \/ \E i \in DOMAIN calls :
              ServeBook(i) \/ ServeBuy(i) \/ ServeCancel(i) \/ ServePay(i) \/ ServeDrop(i) \/ Refuse(i)
<1>1. CASE Modal
  BY <1>1 DEF Modal, Choose, CloseModal, TimesOut, CheckBankAgain, Poll, SignIn, Unmount, view
<1>2. CASE Pages
  BY <1>2 DEF Pages, OpenCalendar, Navigate, PickSlot, ReadUrl, OpenDialog, CloseDialog,
     ResumePurchase, GoTo, Unmount, view
<1>3. CASE Answers
  BY <1>3
<1>4. CASE Server
  BY <1>4 DEF Server, ServeRead, DeliverRead, PackArrives, view
<1>5. CASE Outside
  BY <1>5 DEF Outside, FailRead, MinutePasses, OthersTake, HoldLapses, view
<1> QED  BY <1>1, <1>2, <1>3, <1>4, <1>5 DEF Next

\* Every answer is told.
LEMMA AnswerTells ==
  ASSUME Answers
  PROVE  /\ \E i \in DOMAIN calls : Tell(i, "told") \/ Tell(i, "failed")
         /\ UNCHANGED <<here, rooms>> /\ dialog' \in {dialog, None}
  BY DEF Answers, AnswerBook, AnswerBuy, AnswerCancel, AnswerPay, AnswerDrop, AnswerError, view

\* The requests sent, and what the pages know of them.
LEMMA RequestsInv == ASSUME TInv, Next PROVE RequestsOK' /\ ModalHeard
<1>1. CASE /\ UNCHANGED calls /\ here' \subseteq here
           /\ dialog' \in {dialog, None} \/ \E s \in Slots : dialog' = [slot |-> s, call |-> 0]
  BY <1>1, SameFollowed, FollowedInv
<1>2. CASE Confirm
  <2>1. modal.slot \in Slots
    BY <1>2 DEF Confirm, CanConfirm, Form, TInv, RoomsOK, Modals
  <2>2. Method \in {"package", "mixed", "hourly", None} /\ "book" \in Ops
    BY DEF Method, Ops
  <2>3. Send("book", modal.slot, Method) /\ UNCHANGED <<here, dialog>>
    BY <1>2 DEF Confirm, view
  <2> QED  BY <2>1, <2>2, <2>3, SentInv
<1>3. CASE BuyForSlot
  <2>1. modal.slot \in Slots
    BY <1>3 DEF BuyForSlot, Form, TInv, RoomsOK, Modals
  <2>2. Send("buy", modal.slot, None) /\ UNCHANGED <<here, dialog>> /\ "buy" \in Ops
    BY <1>3 DEF BuyForSlot, view, Ops
  <2> QED  BY <2>1, <2>2, SentInv
<1>4. CASE CancelBooking
  <2>1. dialog # None /\ dialog.slot \in Slots
    BY <1>4 DEF CancelBooking, TInv, RequestsOK
  <2>2. /\ Send("cancel", dialog.slot, None) /\ here' = here \cup {Sent}
        /\ dialog' = [dialog EXCEPT !.call = Sent] /\ "cancel" \in Ops
    BY <1>4 DEF CancelBooking, Ops
  <2> QED  BY <2>1, <2>2, SentInv
<1>5. CASE BuyPack
  <2>1. Send("buy", None, None) /\ here' = here \cup {Sent} /\ UNCHANGED dialog /\ "buy" \in Ops
    BY <1>5 DEF BuyPack, Ops
  <2> QED  BY <2>1, SentInv
<1>6. CASE CancelPurchase
  <2>1. Send("drop", None, None) /\ here' = here \cup {Sent} /\ UNCHANGED dialog /\ "drop" \in Ops
    BY <1>6 DEF CancelPurchase, Ops
  <2> QED  BY <2>1, SentInv
<1>7. ASSUME NEW s \in Slots, PayBooking(s) PROVE RequestsOK' /\ ModalHeard
  <2>1. Send("pay", s, None) /\ here' = here \cup {Sent} /\ UNCHANGED dialog /\ "pay" \in Ops
    BY <1>7 DEF PayBooking, Ops
  <2> QED  BY <1>7, <2>1, SentInv
<1>8. CASE Answers
  BY <1>8, AnswerTells, TellFollowed, FollowedInv
<1>9. CASE Unload \/ Reload \/ PayAtCheckout \/ LeaveCheckout
  <2>1. PICK p, q : Load(p, q)
    BY <1>9 DEF Unload, Reload, PayAtCheckout, LeaveCheckout, Return
  <2>2. here' = {} /\ dialog' = None
    BY <2>1 DEF Load, Unmount
  <2> QED  BY <2>1, <2>2, LoadFollowed, FollowedInv
<1>10. ASSUME NEW i \in DOMAIN calls,
              ServeBook(i) \/ ServeBuy(i) \/ ServeCancel(i) \/ ServePay(i) \/ ServeDrop(i) \/ Refuse(i)
       PROVE  RequestsOK' /\ ModalHeard
  <2>1. \E r \in {"url", "done", "refused"}, n \in {0, applied + 1} :
          calls' = [calls EXCEPT ![i] = Replied(@, r, n)]
    BY <1>10 DEF ServeBook, ServeBuy, ServeCancel, ServePay, ServeDrop, Serve, Refuse
  <2>2. 0 \in Nat /\ applied + 1 \in Nat
    BY DEF TInv, CountsOK
  <2>3. UNCHANGED <<here, dialog>>
    BY <1>10 DEF ServeBook, ServeBuy, ServeCancel, ServePay, ServeDrop, Serve, Refuse, view
  <2>4. Followed
    BY <1>10, <2>1, <2>2, ReplyFollowed
  <2> QED  BY <2>3, <2>4, FollowedInv
<1> QED  BY <1>1, <1>2, <1>3, <1>4, <1>5, <1>6, <1>7, <1>8, <1>9, <1>10, RequestMoves

-------------------------------------------------------------------------------
(* Counts and places.                                                      *)

\* Which steps count.
LEMMA CountMoves ==
  ASSUME Next
  PROVE  /\ applied' \in {applied, applied + 1} /\ spent' \in {spent, spent + 1}
         /\ acked' = acked \/ \E i \in DOMAIN calls : Hear(i)
<1>1. CASE Modal
  BY <1>1 DEF Modal, Choose, Confirm, BuyForSlot, CloseModal, TimesOut, CheckBankAgain, Poll, SignIn
<1>2. CASE Pages
  BY <1>2 DEF Pages, OpenCalendar, Navigate, PickSlot, ReadUrl, OpenDialog, PayBooking, CloseDialog,
     CancelBooking, BuyPack, CancelPurchase, ResumePurchase, GoTo, Unload, Reload, PayAtCheckout,
     LeaveCheckout, Return, Load, Spend
<1>3. CASE Answers
  BY <1>3 DEF Answers, AnswerBook, AnswerBuy, AnswerCancel, AnswerPay, AnswerDrop, AnswerError, Spend
<1>4. CASE Server
  BY <1>4 DEF Server, ServeBook, ServeBuy, ServeCancel, ServePay, ServeDrop, Serve, Refuse, ServeRead,
     DeliverRead, PackArrives, Spend
<1>5. CASE Outside
  BY <1>5 DEF Outside, FailRead, MinutePasses, OthersTake, HoldLapses, Spend
<1> QED  BY <1>1, <1>2, <1>3, <1>4, <1>5 DEF Next

\* What is counted, and the last change each list was told of.
LEMMA CountsInv == ASSUME TInv, Next PROVE CountsOK'
<1>1. applied' \in Nat /\ spent' \in Nat
  BY CountMoves DEF TInv, CountsOK
<1>2. ASSUME NEW i \in DOMAIN calls, Hear(i) PROVE acked' \in [Keys -> Nat]
  <2>1. calls[i].n \in Nat
    BY <1>2, RequestsAre DEF TInv, Calls
  <2> QED  BY <1>2, <2>1 DEF Hear, Most, TInv, CountsOK
<1>3. acked' \in [Keys -> Nat]
  BY <1>2, CountMoves DEF TInv, CountsOK
<1> QED  BY <1>1, <1>3 DEF CountsOK

\* Which steps change the page, or where the tab is going.
LEMMA PlaceMoves ==
  ASSUME Next
  PROVE  \/ UNCHANGED <<page, signedIn, query, leaving>>
         \/ SignIn \/ ReadUrl \/ ResumePurchase \/ Answers
         \/ \E p \in {"rooms", "dashboard", "packs"} : GoTo(p)
         \/ Unload \/ Reload \/ PayAtCheckout \/ LeaveCheckout
<1>1. CASE Modal
  BY <1>1 DEF Modal, Choose, Confirm, BuyForSlot, CloseModal, TimesOut, CheckBankAgain, Poll, view
<1>2. CASE Pages
  BY <1>2 DEF Pages, OpenCalendar, Navigate, PickSlot, OpenDialog, PayBooking, CloseDialog,
     CancelBooking, BuyPack, CancelPurchase, view
<1>3. CASE Answers
  BY <1>3
<1>4. CASE Server
  BY <1>4 DEF Server, ServeBook, ServeBuy, ServeCancel, ServePay, ServeDrop, Serve, Refuse, ServeRead,
     DeliverRead, PackArrives, view
<1>5. CASE Outside
  BY <1>5 DEF Outside, FailRead, MinutePasses, OthersTake, HoldLapses, view
<1> QED  BY <1>1, <1>2, <1>3, <1>4, <1>5 DEF Next

\* The page, and the Checkout it is about to be left for.
LEMMA PlaceInv == ASSUME TInv, Next PROVE PlaceOK'
<1> USE DEF TInv, PlaceOK
<1>1. CASE UNCHANGED <<page, signedIn, query, leaving>>
  BY <1>1
<1>2. CASE SignIn
  BY <1>2 DEF SignIn
<1>3. CASE ReadUrl
  BY <1>3 DEF ReadUrl
<1>4. CASE ResumePurchase
  BY <1>4 DEF ResumePurchase, view, Places
<1>5. CASE Answers
  <2>1. PICK i \in DOMAIN calls : AnswerBook(i) \/ AnswerBuy(i) \/ AnswerCancel(i) \/ AnswerPay(i)
                                  \/ AnswerDrop(i) \/ AnswerError(i)
    BY <1>5 DEF Answers
  <2>2. calls[i].slot \in Slots \cup {None}
    BY RequestsAre DEF Calls
  <2>3. UNCHANGED <<page, signedIn, query>>
    BY <2>1 DEF AnswerBook, AnswerBuy, AnswerCancel, AnswerPay, AnswerDrop, AnswerError, view
  <2>4. leaving' = leaving \/ leaving' \in Places
    BY <2>1, <2>2 DEF AnswerBook, AnswerBuy, AnswerCancel, AnswerPay, AnswerDrop, AnswerError, Places
  <2> QED  BY <2>3, <2>4
<1>6. CASE \E p \in {"rooms", "dashboard", "packs"} : GoTo(p)
  BY <1>6 DEF GoTo
<1>7. CASE Unload
  BY <1>7 DEF Unload, Load
<1>8. CASE Reload
  BY <1>8 DEF Reload, Load
<1>9. CASE PayAtCheckout \/ LeaveCheckout
  <2>1. PICK outcome \in {"sucesso", "cancelado"} : Return(outcome)
    BY <1>9 DEF PayAtCheckout, LeaveCheckout
  <2>2. leaving \in Places
    BY <2>1 DEF Return
  <2> QED  BY <2>1, <2>2 DEF Return, Load, Places
<1> QED  BY <1>1, <1>2, <1>3, <1>4, <1>5, <1>6, <1>7, <1>8, <1>9, PlaceMoves

-------------------------------------------------------------------------------
(* The rooms page and the cache.                                           *)

\* The cache holds what it held, read again or not.
Kept(c) == TypedCache(c) /\ \A k \in Keys : Has(c[k]) <=> Has(cache[k])

\* What a modal may turn into, requests aside.
ModalTurns ==
  \/ modal' \in {None, modal}
  \/ modal # None /\ \E x \in {"pack", "hourly", "buy"} : modal' = [modal EXCEPT !.choice = x]
  \/ modal # None /\ \E x \in BOOLEAN : modal' = [modal EXCEPT !.timedOut = x]
  \/ \E s \in Slots : modal' = Fresh(s)
  \/ modal # None /\ \E s \in Slots : modal' = Reslot(modal, s)
  \/ Confirm \/ BuyForSlot

\* What a step leaves of the rooms page.
RoomsStep ==
  /\ CacheOK' /\ ReopenIsAnswered' /\ ModalTurns
  /\ day' \in Slots \cup {None} /\ reopen' \in Slots \cup {None} /\ awaiting' \in BOOLEAN

\* Mounting a query keeps what it holds.
LEMMA MountedTyped ==
  ASSUME NEW c, TypedCache(c), NEW K
  PROVE  TypedCache(Mounted(c, K)) /\ \A k \in Keys : Has(Mounted(c, K)[k]) <=> Has(c[k])
<1>1. ASSUME NEW k \in Keys
      PROVE  Mounted(c, K)[k] \in Entries(Values(k)) /\ (Has(Mounted(c, K)[k]) <=> Has(c[k]))
  <2>1. c[k] \in Entries(Values(k))
    BY <1>1 DEF TypedCache
  <2>2. Mount(c[k]) \in Entries(Values(k)) /\ (Has(Mount(c[k])) <=> Has(c[k]))
    BY <2>1, EntryMoves
  <2> QED  BY <1>1, <2>1, <2>2 DEF Mounted
<1>2. DOMAIN Mounted(c, K) = Keys
  BY DEF Mounted
<1> QED  BY <1>1, <1>2 DEF TypedCache

\* So does an invalidation.
LEMMA InvalidatedKept == ASSUME CacheOK, NEW K PROVE Kept(Invalidated(K))
<1>1. ASSUME NEW k \in Keys
      PROVE  Invalidated(K)[k] \in Entries(Values(k)) /\ (Has(Invalidated(K)[k]) <=> Has(cache[k]))
  <2>1. cache[k] \in Entries(Values(k))
    BY <1>1 DEF CacheOK, TypedCache
  <2>2. /\ Invalidate(cache[k], k \in Shown) \in Entries(Values(k))
        /\ Has(Invalidate(cache[k], k \in Shown)) <=> Has(cache[k])
    BY <2>1, EntryMoves
  <2> QED  BY <1>1, <2>1, <2>2 DEF Invalidated
<1>2. DOMAIN Invalidated(K) = Keys
  BY DEF Invalidated
<1> QED  BY <1>1, <1>2 DEF Kept, TypedCache

\* One query's entry replaced.
LEMMA EntryTyped ==
  ASSUME CacheOK, NEW k \in Keys, NEW e \in Entries(Values(k))
  PROVE  /\ TypedCache([cache EXCEPT ![k] = e])
         /\ (Has(e) <=> Has(cache[k])) => Kept([cache EXCEPT ![k] = e])
  BY DEF CacheOK, TypedCache, Kept

\* A step that shows the same day, and reads nothing new, leaves the slot to
\* reopen as it was.
LEMMA CalmStep ==
  ASSUME TInv, Kept(cache'), UNCHANGED <<day, reopen>>, awaiting' \in BOOLEAN, ModalTurns
  PROVE  RoomsStep
<1>1. ReopenIsAnswered'
  <2> SUFFICES ASSUME reopen # None, day = reopen PROVE ~Has(cache'[reopen])
    BY DEF ReopenIsAnswered
  <2>1. reopen \in Keys /\ ~Has(cache[reopen])
    BY DEF TInv, RoomsOK, ReopenIsAnswered, Keys
  <2> QED  BY <2>1 DEF Kept
<1>2. day' \in Slots \cup {None} /\ reopen' \in Slots \cup {None}
  BY DEF TInv, RoomsOK
<1> QED  BY <1>1, <1>2 DEF RoomsStep, Kept, CacheOK

\* A step that forgets the slot to reopen, or the day.
LEMMA ForgetStep ==
  ASSUME TypedCache(cache'), day' \in Slots \cup {None}, reopen' \in Slots \cup {None},
         reopen' = None \/ day' = None, awaiting' \in BOOLEAN, ModalTurns
  PROVE  RoomsStep
<1>1. ReopenIsAnswered'
  BY DEF ReopenIsAnswered
<1> QED  BY <1>1 DEF RoomsStep, CacheOK

\* The effect that selects the slot again answers it, or it cannot yet.
LEMMA ReselectStep ==
  ASSUME NEW r \in Slots \cup {None}, NEW d \in Slots \cup {None}, NEW c, TypedCache(c),
         Reselect(r, d, c), day' = d, awaiting' \in BOOLEAN
  PROVE  RoomsStep
<1>1. CASE r # None /\ d = r /\ Has(c[r])
  <2>1. reopen' = None /\ r \in Slots
    BY <1>1 DEF Reselect
  <2>2. TypedCache(cache') /\ ModalTurns
    BY <1>1, <2>1, MountedTyped DEF Reselect, ShowModal, ModalTurns
  <2> QED  BY <2>1, <2>2, ForgetStep
<1>2. CASE ~(r # None /\ d = r /\ Has(c[r]))
  <2>1. reopen' = r /\ modal' = modal /\ cache' = c
    BY <1>2 DEF Reselect
  <2> QED  BY <1>2, <2>1 DEF RoomsStep, CacheOK, ReopenIsAnswered, ModalTurns
<1> QED  BY <1>1, <1>2

\* What a read returns is of the query's type.
LEMMA SnapshotTyped ==
  ASSUME TInv, NEW k \in Keys PROVE Snapshot(k) \in [n: Nat, v: Values(k)]
<1>1. Holds(k) \in Values(k)
  BY CustomerAssumption DEF TInv, ServerOK, Holds, Values, Keys, Ours, Free, Held
<1>2. (IF k \in Ours THEN applied ELSE 0) \in Nat
  BY DEF TInv, CountsOK
<1> QED  BY <1>1, <1>2 DEF Snapshot

\* The delivery of a read, on the day shown or another.
LEMMA DeliverStep == ASSUME TInv, NEW k \in Keys, DeliverRead(k) PROVE RoomsStep
<1> DEFINE e == IF k \in Ours THEN Deliver(cache[k])
                ELSE [Deliver(Answer(cache[k], Snapshot(k))) EXCEPT !.late = FALSE]
           c == [cache EXCEPT ![k] = e]
<1>1. e \in Entries(Values(k))
  <2>1. cache[k] \in Entries(Values(k)) /\ Snapshot(k) \in [n: Nat, v: Values(k)]
    BY SnapshotTyped DEF TInv, CacheOK, TypedCache
  <2>2. /\ Deliver(cache[k]) \in Entries(Values(k))
        /\ Deliver(Answer(cache[k], Snapshot(k))) \in Entries(Values(k))
    BY <2>1, EntryMoves
  <2>3. ASSUME NEW x \in Entries(Values(k)) PROVE [x EXCEPT !.late = FALSE] \in Entries(Values(k))
    BY <2>3 DEF Entries
  <2> QED  BY <2>2, <2>3
<1>2. awaiting' \in BOOLEAN /\ day' = day
  BY DEF DeliverRead, TInv, RoomsOK
<1>3. \/ k \in Slots /\ k = day /\ Reselect(reopen, day, c)
      \/ /\ ~(k \in Slots /\ k = day) /\ cache' = c /\ UNCHANGED reopen
         /\ modal' = modal \/ (modal # None /\ modal' = [modal EXCEPT !.timedOut = FALSE])
  BY DEF DeliverRead
<1> HIDE DEF e
<1>4. TypedCache(c) /\ \A j \in Keys : j # k => c[j] = cache[j]
  BY <1>1, EntryTyped DEF TInv, CacheOK, TypedCache
<1> HIDE DEF c
<1>5. CASE Reselect(reopen, day, c)
  BY <1>2, <1>4, <1>5, ReselectStep DEF TInv, RoomsOK
<1>6. CASE /\ ~(k \in Slots /\ k = day) /\ cache' = c /\ UNCHANGED reopen
           /\ modal' = modal \/ (modal # None /\ modal' = [modal EXCEPT !.timedOut = FALSE])
  <2>1. ModalTurns
    BY <1>6 DEF ModalTurns
  <2>2. ReopenIsAnswered'
    <3> SUFFICES ASSUME reopen # None, day = reopen PROVE ~Has(c[reopen])
      BY <1>2, <1>6 DEF ReopenIsAnswered
    <3>1. reopen \in Slots /\ reopen \in Keys /\ ~Has(cache[reopen])
      BY DEF TInv, RoomsOK, ReopenIsAnswered, Keys
    <3> QED  BY <1>4, <1>6, <3>1
  <2> QED  BY <1>2, <1>4, <1>6, <2>1, <2>2 DEF RoomsStep, CacheOK, TInv, RoomsOK
<1> QED  BY <1>3, <1>5, <1>6

\* A step that moves neither the cache nor the rooms page.
LEMMA SameStep ==
  ASSUME TInv, UNCHANGED <<cache, day, reopen>>, awaiting' \in BOOLEAN, ModalTurns PROVE RoomsStep
<1>1. Kept(cache')
  BY DEF TInv, CacheOK, Kept
<1> QED  BY <1>1, CalmStep

\* A page that is left forgets all of it.
LEMMA UnmountStep == ASSUME Unmount, TypedCache(cache') PROVE RoomsStep
  BY ForgetStep DEF Unmount, ModalTurns

\* A page load.
LEMMA LoadStep == ASSUME TInv, NEW p, NEW q, Load(p, q) PROVE RoomsStep
<1>1. TypedCache([k \in Keys |-> Empty])
  BY DEF TypedCache, Empty, Entries
<1>2. TypedCache(cache')
  BY <1>1, MountedTyped DEF Load
<1> QED  BY <1>2, UnmountStep DEF Load

\* The modal's steps.
LEMMA ModalStep == ASSUME TInv, Modal PROVE RoomsStep
<1>1. CASE \E choice \in {"pack", "hourly", "buy"} : Choose(choice)
  <2>1. ModalTurns /\ UNCHANGED <<cache, day, reopen>> /\ awaiting' \in BOOLEAN
    BY <1>1 DEF Choose, Form, ModalTurns, TInv, RoomsOK
  <2> QED  BY <2>1, SameStep
<1>2. CASE Confirm \/ BuyForSlot
  <2>1. ModalTurns /\ UNCHANGED <<cache, day, reopen>> /\ awaiting' \in BOOLEAN
    BY <1>2 DEF Confirm, BuyForSlot, ModalTurns, TInv, RoomsOK
  <2> QED  BY <2>1, SameStep
<1>3. CASE CloseModal
  <2>1. ModalTurns /\ UNCHANGED <<cache, day, reopen>> /\ awaiting' \in BOOLEAN
    BY <1>3 DEF CloseModal, ModalTurns
  <2> QED  BY <2>1, SameStep
<1>4. CASE TimesOut
  <2>1. ModalTurns /\ UNCHANGED <<cache, day, reopen>> /\ awaiting' \in BOOLEAN
    BY <1>4 DEF TimesOut, Polling, ModalTurns, TInv, RoomsOK
  <2> QED  BY <2>1, SameStep
<1>5. CASE CheckBankAgain
  <2>1. ModalTurns /\ UNCHANGED <<day, reopen>> /\ awaiting' \in BOOLEAN
    BY <1>5 DEF CheckBankAgain, Form, ModalTurns, TInv, RoomsOK
  <2>2. Kept(cache')
    BY <1>5, InvalidatedKept DEF CheckBankAgain, TInv
  <2> QED  BY <2>1, <2>2, CalmStep
<1>6. CASE Poll
  <2>1. ModalTurns /\ UNCHANGED <<day, reopen>> /\ awaiting' \in BOOLEAN
    BY <1>6 DEF Poll, rooms, ModalTurns, TInv, RoomsOK
  <2>2. "bank" \in Keys /\ cache["bank"] \in Entries(Values("bank"))
    BY DEF TInv, CacheOK, TypedCache, Keys, Ours
  <2>3. Kept(cache')
    BY <1>6, <2>2, EntryMoves, EntryTyped DEF Poll, TInv
  <2> QED  BY <2>1, <2>3, CalmStep
<1>7. CASE SignIn
  BY <1>7, UnmountStep DEF SignIn, TInv, CacheOK
<1> QED  BY <1>1, <1>2, <1>3, <1>4, <1>5, <1>6, <1>7 DEF Modal

\* The steps of the pages.
LEMMA PageStep == ASSUME TInv, Pages PROVE RoomsStep
<1>0. TypedCache(cache) /\ awaiting \in BOOLEAN /\ day \in Slots \cup {None} /\ reopen \in Slots \cup {None}
  BY DEF TInv, CacheOK, RoomsOK
<1>1. ASSUME NEW s \in Slots, OpenCalendar(s) \/ Navigate(s) PROVE RoomsStep
  <2>1. Reselect(reopen, s, Mounted(cache, {s})) /\ day' = s /\ awaiting' \in BOOLEAN
    BY <1>0, <1>1 DEF OpenCalendar, Navigate
  <2>2. TypedCache(Mounted(cache, {s}))
    BY <1>0, MountedTyped
  <2> QED  BY <1>0, <1>1, <2>1, <2>2, ReselectStep
<1>2. ASSUME NEW s \in Slots, PickSlot(s) PROVE RoomsStep
  <2>1. ShowModal(s, cache) /\ UNCHANGED <<day, reopen>> /\ awaiting' \in BOOLEAN
    BY <1>0, <1>2 DEF PickSlot
  <2>2. Kept(cache')
    BY <1>0, <2>1, MountedTyped DEF ShowModal, Kept
  <2>3. ModalTurns
    BY <1>2, <2>1 DEF ShowModal, ModalTurns
  <2> QED  BY <2>1, <2>2, <2>3, CalmStep
<1>3. CASE ReadUrl
  <2>1. query.slot \in Slots /\ query.slot \in Slots \cup {None}
    BY <1>3 DEF ReadUrl, TInv, PlaceOK
  <2>2. awaiting' \in BOOLEAN
    BY <1>3 DEF ReadUrl
  <2>3. CASE day = None
    <3>1. reopen' = query.slot /\ UNCHANGED <<day, modal, cache>>
      BY <1>3, <2>3 DEF ReadUrl
    <3> QED  BY <1>0, <2>1, <2>2, <2>3, <3>1, ForgetStep DEF ModalTurns
  <2>4. CASE day # None
    <3>1. day' = query.slot /\ Reselect(query.slot, query.slot, Mounted(cache, {query.slot}))
      BY <1>3, <2>4 DEF ReadUrl
    <3>2. TypedCache(Mounted(cache, {query.slot}))
      BY <1>0, MountedTyped
    <3> QED  BY <2>1, <2>2, <3>1, <3>2, ReselectStep
  <2> QED  BY <2>3, <2>4
<1>4. CASE (\E s \in Slots : OpenDialog(s) \/ PayBooking(s)) \/ CloseDialog \/ CancelBooking
           \/ BuyPack \/ CancelPurchase \/ ResumePurchase
  <2>1. UNCHANGED <<cache, rooms>>
    BY <1>4 DEF OpenDialog, PayBooking, CloseDialog, CancelBooking, BuyPack, CancelPurchase, ResumePurchase
  <2> QED  BY <1>0, <2>1, SameStep DEF rooms, ModalTurns
<1>5. CASE \E p \in {"rooms", "dashboard", "packs"} : GoTo(p)
  BY <1>0, <1>5, MountedTyped, UnmountStep DEF GoTo
<1>6. CASE Unload \/ Reload \/ PayAtCheckout \/ LeaveCheckout
  BY <1>6, LoadStep DEF Unload, Reload, PayAtCheckout, LeaveCheckout, Return
<1> QED  BY <1>1, <1>2, <1>3, <1>4, <1>5, <1>6 DEF Pages

\* The answers, the server's side and what happens by itself.
LEMMA OtherStep == ASSUME TInv, Answers \/ Server \/ Outside PROVE RoomsStep
<1>0. CacheOK /\ awaiting \in BOOLEAN
  BY DEF TInv, RoomsOK
<1>1. CASE Answers
  <2>1. UNCHANGED rooms /\ \E K : cache' = Invalidated(K)
    BY <1>1 DEF Answers, AnswerBook, AnswerBuy, AnswerCancel, AnswerPay, AnswerDrop, AnswerError
  <2> QED  BY <1>0, <2>1, InvalidatedKept, CalmStep DEF rooms, ModalTurns
<1>2. ASSUME NEW k \in Keys, ServeRead(k) PROVE RoomsStep
  <2>1. cache[k] \in Entries(Values(k)) /\ Snapshot(k) \in [n: Nat, v: Values(k)]
    BY <1>2, SnapshotTyped DEF TInv, CacheOK, TypedCache
  <2>2. Answer(cache[k], Snapshot(k)) \in Entries(Values(k))
    BY <2>1, EntryMoves
  <2>3. Has(Answer(cache[k], Snapshot(k))) <=> Has(cache[k])
    BY <2>1 DEF Entries, Answer, Has
  <2>4. Kept(cache') /\ UNCHANGED rooms
    BY <1>0, <1>2, <2>2, <2>3, EntryTyped DEF ServeRead
  <2> QED  BY <1>0, <2>4, CalmStep DEF rooms, ModalTurns
<1>3. ASSUME NEW k \in Keys, DeliverRead(k) PROVE RoomsStep
  BY <1>3, DeliverStep
<1>4. CASE PackArrives \/ (\E s \in Slots : OthersTake(s) \/ HoldLapses(s))
           \/ \E i \in DOMAIN calls : ServeBook(i) \/ ServeBuy(i) \/ ServeCancel(i) \/ ServePay(i)
                                      \/ ServeDrop(i) \/ Refuse(i)
  <2>1. UNCHANGED <<cache, rooms>>
    BY <1>4 DEF PackArrives, OthersTake, HoldLapses, ServeBook, ServeBuy, ServeCancel, ServePay,
       ServeDrop, Serve, Refuse
  <2> QED  BY <1>0, <2>1, SameStep DEF rooms, ModalTurns
<1>5. CASE FailRead
  <2>1. "bank" \in Keys /\ cache["bank"] \in Entries(Values("bank"))
    BY DEF TInv, CacheOK, TypedCache, Keys, Ours
  <2>2. Kept(cache') /\ UNCHANGED rooms
    BY <1>0, <1>5, <2>1, EntryMoves, EntryTyped DEF FailRead
  <2> QED  BY <1>0, <2>2, CalmStep DEF rooms, ModalTurns
<1>6. CASE MinutePasses
  <2>1. cache' = [k \in Keys |-> Age(cache[k])] /\ UNCHANGED rooms
    BY <1>6 DEF MinutePasses
  <2>2. ASSUME NEW k \in Keys PROVE cache'[k] \in Entries(Values(k)) /\ (Has(cache'[k]) <=> Has(cache[k]))
    <3>1. cache[k] \in Entries(Values(k))
      BY <2>2, <1>0 DEF CacheOK, TypedCache
    <3> QED  BY <2>1, <2>2, <3>1, EntryMoves
  <2>3. Kept(cache')
    BY <2>1, <2>2 DEF Kept, TypedCache
  <2> QED  BY <1>0, <2>1, <2>3, CalmStep DEF rooms, ModalTurns
<1> QED  BY <1>1, <1>2, <1>3, <1>4, <1>5, <1>6 DEF Server, Outside

\* The rooms page and its modal.
LEMMA RoomsInv == ASSUME TInv, Next PROVE RoomsStep /\ RoomsOK'
<1>1. RoomsStep
  BY ModalStep, PageStep, OtherStep DEF Next
<1>2. RequestsOK' /\ ModalHeard
  BY RequestsInv
<1> DEFINE About(m) == \A i \in {m.create, m.purchase} \ {0} :
                         i \in DOMAIN calls' /\ calls'[i].slot = m.slot /\ calls'[i].live
<1>3. SUFFICES modal' \in Modals \cup {None} /\ (modal' # None => About(modal'))
  BY <1>1 DEF RoomsStep, RoomsOK
<1>4. modal # None /\ modal' # None => About(modal)
  BY <1>2 DEF ModalHeard, TInv, RoomsOK
<1>5. modal # None => modal \in Modals
  BY DEF TInv, RoomsOK
<1>6. CASE modal' \in {None, modal}
  BY <1>4, <1>5, <1>6
<1>7. CASE modal # None /\ \E x \in {"pack", "hourly", "buy"} : modal' = [modal EXCEPT !.choice = x]
  <2>1. /\ modal' \in Modals /\ modal'.create = modal.create /\ modal'.purchase = modal.purchase
        /\ modal'.slot = modal.slot
    BY <1>5, <1>7 DEF Modals
  <2> QED  BY <1>4, <1>7, <2>1
<1>8. CASE modal # None /\ \E x \in BOOLEAN : modal' = [modal EXCEPT !.timedOut = x]
  <2>1. /\ modal' \in Modals /\ modal'.create = modal.create /\ modal'.purchase = modal.purchase
        /\ modal'.slot = modal.slot
    BY <1>5, <1>8 DEF Modals
  <2> QED  BY <1>4, <1>8, <2>1
<1>9. CASE \E s \in Slots : modal' = Fresh(s)
  BY <1>9 DEF Fresh, Modals
<1>10. CASE modal # None /\ \E s \in Slots : modal' = Reslot(modal, s)
  <2>1. PICK s \in Slots : modal' = Reslot(modal, s)
    BY <1>10
  <2>2. modal' \in [slot: {s}, choice: {None}, create: {0}, purchase: {0}, timedOut: BOOLEAN]
    BY <1>5, <1>10, <2>1 DEF Reslot, Modals
  <2>3. modal' \in Modals /\ modal'.create = 0 /\ modal'.purchase = 0
    BY <2>2 DEF Modals
  <2> QED  BY <2>3
<1>11. CASE Confirm
  <2>1. modal # None /\ modal \in Modals /\ modal.slot \in Slots
    BY <1>5, <1>11 DEF Confirm, CanConfirm, Form, Modals
  <2>2. Method \in {"package", "mixed", "hourly", None} /\ "book" \in Ops
    BY DEF Method, Ops
  <2>3. Send("book", modal.slot, Method) /\ UNCHANGED <<here, dialog>>
    BY <1>11 DEF Confirm, view
  <2>4. Sent \in DOMAIN calls' /\ calls'[Sent].slot = modal.slot /\ calls'[Sent].live
    BY <2>1, <2>2, <2>3, SentInv
  <2>5. Sent \in Nat
    BY RequestsAre DEF Sent, TInv
  <2>6. /\ modal' \in Modals /\ modal'.create = Sent /\ modal'.purchase = modal.purchase
        /\ modal'.slot = modal.slot
    BY <1>11, <2>1, <2>5 DEF Confirm, Modals
  <2> QED  BY <1>4, <2>1, <2>4, <2>6
<1>12. CASE BuyForSlot
  <2>1. modal # None /\ modal \in Modals /\ modal.slot \in Slots
    BY <1>5, <1>12 DEF BuyForSlot, Form, Modals
  <2>2. Send("buy", modal.slot, None) /\ UNCHANGED <<here, dialog>> /\ "buy" \in Ops
    BY <1>12 DEF BuyForSlot, view, Ops
  <2>3. Sent \in DOMAIN calls' /\ calls'[Sent].slot = modal.slot /\ calls'[Sent].live
    BY <2>1, <2>2, SentInv
  <2>4. Sent \in Nat
    BY RequestsAre DEF Sent, TInv
  <2>5. /\ modal' \in Modals /\ modal'.create = modal.create /\ modal'.purchase = Sent
        /\ modal'.slot = modal.slot
    BY <1>12, <2>1, <2>4 DEF BuyForSlot, Modals
  <2> QED  BY <1>4, <2>1, <2>3, <2>5
<1> QED  BY <1>1, <1>6, <1>7, <1>8, <1>9, <1>10, <1>11, <1>12 DEF RoomsStep, ModalTurns

\* The second invariant, step by step.
LEMMA NextTyped == TInv /\ [Next]_vars => TInv'
<1> SUFFICES ASSUME TInv, [Next]_vars PROVE TInv'
  OBVIOUS
<1>1. CASE Next
  BY <1>1, ServerInv, PlaceInv, RequestsInv, RoomsInv, CountsInv DEF TInv, RoomsStep
<1>2. CASE UNCHANGED vars
  BY <1>2 DEF TInv, ServerOK, PlaceOK, RequestsOK, RoomsOK, CacheOK, TypedCache, CountsOK, ReopenIsAnswered,
     vars, server, view, rooms
<1> QED  BY <1>1, <1>2

\* ... of every reachable state.
LEMMA TypedAlways == Spec => []TInv
  BY InitTyped, NextTyped, PTL DEF Spec

\* Every variable has the shape the code gives it, for any slots and bounds:
\* what a component refers to was sent, no count goes below nothing.
THEOREM TabIsTyped == Spec => []TypeOK
<1>1. TInv => TypeOK
  <2> SUFFICES ASSUME TInv PROVE TypeOK
    OBVIOUS
  <2>1. ASSUME modal # None, NEW i \in {modal.create, modal.purchase} PROVE i \in 0 .. Len(calls)
    <3>1. Len(calls) \in Nat /\ DOMAIN calls = 1 .. Len(calls)
      BY RequestsAre DEF TInv
    <3>2. i = 0 \/ i \in DOMAIN calls
      BY <2>1 DEF TInv, RoomsOK
    <3> QED  BY <3>1, <3>2
  <2> QED  BY <2>1 DEF TInv, ServerOK, PlaceOK, Places, RequestsOK, RoomsOK, CacheOK, TypedCache, CountsOK, TypeOK
<1> QED  BY <1>1, TypedAlways, PTL

\* However answers, clicks and reopened slots interleave, what the modal says of
\* a booking or a purchase is about the slot it shows.
THEOREM OutcomesMatchTheSlot == Spec => []OutcomeIsForThisSlot
<1>1. TInv => OutcomeIsForThisSlot
  BY DEF TInv, RoomsOK, OutcomeIsForThisSlot
<1> QED  BY <1>1, TypedAlways, PTL

\* Whichever of the calendar, the URL and the read comes last, the slot the
\* customer came back for is answered as soon as its day is there.
THEOREM ReopenedIsAnswered == Spec => []ReopenIsAnswered
<1>1. TInv => ReopenIsAnswered
  BY DEF TInv
<1> QED  BY <1>1, TypedAlways, PTL

-------------------------------------------------------------------------------
(* The cache: its lists show what the tab was told it had changed.         *)

\* A request's record, its number at most n.
IsCall(x, n) ==
  x \in [op: {x.op}, slot: {x.slot}, how: {x.how}, stage: {x.stage}, result: {x.result},
         n: 0 .. n, live: {x.live}]

\* The requests sent, none of them numbered beyond what was applied.
Numbered(cs, n) ==
  /\ Len(cs) \in Nat /\ DOMAIN cs = 1 .. Len(cs) /\ cs = [i \in DOMAIN cs |-> cs[i]]
  /\ \A i \in DOMAIN cs : IsCall(cs[i], n)

\* A cache that is sound for what was told, none of it beyond what was applied.
Fits(c, told, n) ==
  /\ DOMAIN c = Keys
  /\ \A k \in Ours : told[k] \in Nat /\ told[k] <= n /\ Keeps(c[k], told[k])

\* What the cache must be sound for: nothing in a tab that is leaving.
Told == [k \in Keys |-> IF leaving = None THEN acked[k] ELSE 0]

\* The tab was told nothing beyond what was applied.
Heard == /\ acked = [k \in Keys |-> acked[k]]
         /\ \A k \in Ours : acked[k] \in Nat /\ acked[k] <= applied

\* The first invariant, of the cache.
IInv == applied \in Nat /\ Heard /\ Numbered(calls, applied) /\ Fits(cache, Told, applied)

-------------------------------------------------------------------------------
(* The cache.                                                              *)

\* Mounting keeps a cache sound, whatever is mounted.
LEMMA MountedFits ==
  ASSUME NEW c, NEW told, NEW n, NEW K, Fits(c, told, n) PROVE Fits(Mounted(c, K), told, n)
  BY MountKeeps DEF Fits, Mounted, Ours, Keys

\* So does one query's move that keeps its entry sound.
LEMMA MoveFits ==
  ASSUME NEW c, NEW told, NEW n, NEW k \in Keys, NEW e, Fits(c, told, n),
         k \in Ours => Keeps(e, told[k])
  PROVE  Fits([c EXCEPT ![k] = e], told, n)
  BY DEF Fits, Ours, Keys

\* What is sound for a change is sound for none.
LEMMA KeepsLess == ASSUME NEW e, NEW a \in Nat, Keeps(e, a) PROVE Keeps(e, 0)
  BY DEF Keeps, IsEntry, Has, Sound

\* A tab that leaves need not show anything.
LEMMA LeavingFits ==
  ASSUME IInv, leaving' # None PROVE Fits(cache, Told', applied)
<1> SUFFICES ASSUME NEW k \in Ours PROVE Told'[k] = 0 /\ Keeps(cache[k], 0)
  BY DEF IInv, Fits
<1>1. Told'[k] = 0
  BY DEF Told, Ours, Keys
<1>2. Keeps(cache[k], Told[k]) /\ Told[k] \in Nat
  BY DEF IInv, Fits
<1> QED  BY <1>1, <1>2, KeepsLess

\* What the tab was told bounds what the cache must be sound for.
LEMMA ToldBounds ==
  ASSUME applied' \in Nat, Heard' PROVE \A k \in Ours : Told'[k] \in Nat /\ Told'[k] <= applied'
  BY DEF Told, Heard, Ours, Keys

\* An invalidation makes room for what the tab is told of a request that was
\* applied, if it covers what the request touches.
LEMMA InvalidatedFits ==
  ASSUME IInv, NEW K, NEW told, NEW n \in Nat, applied <= n,
         \A k \in Ours : told[k] \in Nat /\ told[k] <= n /\ (k \notin K => told[k] \in {0, Told[k]})
  PROVE  Fits(Invalidated(K), told, n)
<1> SUFFICES ASSUME NEW k \in Ours PROVE Keeps(Invalidated(K)[k], told[k])
  BY DEF Fits, Invalidated, Ours, Keys
<1>1. k \in Keys /\ Keeps(cache[k], Told[k]) /\ Told[k] \in Nat
  BY DEF IInv, Fits, Ours, Keys
<1>2. CASE k \in K
  BY <1>1, <1>2, InvalidateKeeps DEF Invalidated
<1>3. CASE k \notin K
  BY <1>1, <1>3, KeepsLess DEF Invalidated
<1> QED  BY <1>2, <1>3

\* The reopened slot's modal mounts the bank, at most.
LEMMA ReselectFits ==
  ASSUME NEW r, NEW d, NEW c, NEW told, NEW n, Fits(c, told, n), Reselect(r, d, c)
  PROVE  Fits(cache', told, n)
  BY MountedFits DEF Reselect, ShowModal

\* A load starts from an empty cache.
LEMMA LoadFits ==
  ASSUME NEW p, NEW q, IInv, Load(p, q), UNCHANGED applied
  PROVE  Heard' /\ Fits(cache', Told', applied')
<1>1. Heard'
  BY DEF IInv, Heard, Load
<1> DEFINE told == Told'
<1>2. \A k \in Ours : told[k] \in Nat /\ told[k] <= applied'
  BY <1>1, ToldBounds DEF IInv
<1> HIDE DEF told
<1>3. Fits([k \in Keys |-> Empty], told, applied')
  BY <1>2, EmptyKeeps DEF Fits, Ours, Keys
<1>4. Fits(cache', told, applied')
  BY <1>3, MountedFits DEF Load
<1> QED  BY <1>1, <1>4 DEF told

-------------------------------------------------------------------------------
(* The requests.                                                           *)

\* A request's record stays one when it is followed up.
LEMMA CallMoves ==
  ASSUME NEW m \in Nat, NEW k \in 0 .. m, NEW x, IsCall(x, k),
         NEW g, NEW h, NEW r, NEW l, NEW n \in 0 .. m
  PROVE  /\ IsCall(x, m)
         /\ IsCall([x EXCEPT !.live = l], k)
         /\ IsCall([x EXCEPT !.stage = g, !.n = n], m)
         /\ IsCall([x EXCEPT !.stage = g, !.how = h, !.result = r, !.n = n], m)
<1>1. IsCall(x, m)
  BY DEF IsCall
<1>2. IsCall([x EXCEPT !.live = l], k)
  BY DEF IsCall
<1>3. IsCall([x EXCEPT !.stage = g, !.n = n], m)
  BY <1>1 DEF IsCall
<1>4. IsCall([x EXCEPT !.stage = g, !.how = h, !.result = r, !.n = n], m)
  BY <1>1 DEF IsCall
<1> QED  BY <1>1, <1>2, <1>3, <1>4

\* A request nobody listens to any more has no number.
LEMMA GoneIsCall == ASSUME NEW m \in Nat PROVE IsCall(Gone, m)
  BY DEF IsCall, Gone

\* A request that is sent has no number yet.
LEMMA SendNumbered ==
  ASSUME NEW op, NEW s, NEW how, IInv, Send(op, s, how) PROVE Numbered(calls', applied)
<1> DEFINE x == [op |-> op, slot |-> s, how |-> how, stage |-> "sent", result |-> None, n |-> 0, live |-> TRUE]
<1> DEFINE T == {calls[i] : i \in DOMAIN calls} \cup {x}
<1>1. calls \in Seq(T) /\ calls' = Append(calls, x)
  BY DEF IInv, Numbered, Send
<1>2. /\ Len(calls') = Len(calls) + 1 /\ DOMAIN calls' = 1 .. Len(calls) + 1
      /\ calls'[Len(calls) + 1] = x
      /\ \A i \in 1 .. Len(calls) : calls'[i] = calls[i]
      /\ calls' \in Seq(T)
  BY <1>1
<1>3. calls' = [i \in DOMAIN calls' |-> calls'[i]]
  BY <1>2
<1>4. IsCall(x, applied)
  BY DEF IsCall, IInv
<1> QED
  BY <1>2, <1>3, <1>4 DEF Numbered, IInv

\* Replacing a request's record by another keeps them numbered.
LEMMA ReplaceNumbered ==
  ASSUME NEW n \in Nat, NEW m \in Nat, NEW i \in DOMAIN calls, NEW x,
         Numbered(calls, n), n <= m, IsCall(x, m)
  PROVE  Numbered([calls EXCEPT ![i] = x], m)
<1> DEFINE cs == [calls EXCEPT ![i] = x]
<1>1. DOMAIN cs = 1 .. Len(calls) /\ cs \in Seq({calls[j] : j \in DOMAIN calls} \cup {x})
  BY DEF Numbered
<1>2. Len(cs) = Len(calls)
  BY <1>1 DEF Numbered
<1>3. ASSUME NEW j \in DOMAIN calls PROVE IsCall(cs[j], m)
  BY DEF Numbered, IsCall
<1> QED
  BY <1>1, <1>2, <1>3 DEF Numbered

-------------------------------------------------------------------------------
(* The steps.                                                              *)

\* Before anything is asked or sent.
LEMMA InitInv == Init => IInv
<1> SUFFICES ASSUME Init PROVE IInv
  OBVIOUS
<1>1. Numbered(calls, applied)
  BY DEF Init, Numbered
<1>2. Fits(cache, Told, applied)
  BY EmptyKeeps DEF Init, Fits, Told, Ours, Keys
<1> QED  BY <1>1, <1>2 DEF Init, IInv, Heard, Ours, Keys

\* A step that touches neither the cache nor the requests.
LEMMA AsideInv ==
  ASSUME IInv, UNCHANGED <<applied, acked, cache, calls, leaving>> PROVE IInv'
  BY DEF IInv, Heard, Told

\* A step that sends a request.
LEMMA SendInv ==
  ASSUME IInv, NEW op, NEW s, NEW how, Send(op, s, how), UNCHANGED <<applied, acked, cache, leaving>>
  PROVE  IInv'
<1>1. Numbered(calls', applied)
  BY SendNumbered
<1> QED  BY <1>1 DEF IInv, Heard, Told

\* A step that only moves the cache.
LEMMA CacheInv ==
  ASSUME IInv, UNCHANGED <<applied, acked, calls, leaving>>, Fits(cache', Told, applied) PROVE IInv'
  BY DEF IInv, Heard, Told

\* A step that loads a page.
LEMMA LoadInv ==
  ASSUME IInv, NEW p, NEW q, Load(p, q), UNCHANGED applied PROVE IInv'
<1>1. Heard' /\ Fits(cache', Told', applied')
  BY LoadFits
<1>2. Numbered(calls', applied)
  <2>1. /\ DOMAIN calls' = 1 .. Len(calls) /\ Len(calls') = Len(calls)
        /\ calls' = [i \in DOMAIN calls' |-> calls'[i]]
    <3> DEFINE x(i) == IF calls[i].stage = "sent" THEN [calls[i] EXCEPT !.live = FALSE] ELSE Gone
               T == {x(i) : i \in 1 .. Len(calls)}
    <3>1. calls' = [i \in 1 .. Len(calls) |-> x(i)]
      BY DEF Load, IInv, Numbered
    <3>2. \A i \in 1 .. Len(calls) : x(i) \in T
      OBVIOUS
    <3>3. calls' \in Seq(T)
      <4> HIDE DEF x, T
      <4> QED  BY <3>1, <3>2 DEF IInv, Numbered
    <3> HIDE DEF x, T
    <3> QED  BY <3>1, <3>3 DEF IInv, Numbered
  <2>2. ASSUME NEW i \in DOMAIN calls PROVE IsCall(calls'[i], applied)
    <3>1. IsCall(calls[i], applied) /\ applied \in 0 .. applied
      BY DEF IInv, Numbered
    <3>2. IsCall([calls[i] EXCEPT !.live = FALSE], applied)
      BY <3>1, CallMoves DEF IInv
    <3> QED  BY <3>2, GoneIsCall DEF Load, IInv
  <2> QED  BY <2>1, <2>2 DEF IInv, Numbered
<1> QED  BY <1>1, <1>2 DEF IInv, Load

\* The tab is told nothing later than what was applied.
LEMMA TellNumbered ==
  ASSUME IInv, NEW i \in DOMAIN calls, NEW stage, Tell(i, stage)
  PROVE  Numbered(calls', applied)
<1> DEFINE x == IF modal # None /\ i \in {modal.create, modal.purchase}
                THEN [calls[i] EXCEPT !.stage = stage, !.n = 0] ELSE Gone
<1>1. calls' = [calls EXCEPT ![i] = x]
  BY DEF Tell
<1>2. IsCall(x, applied)
  <2>1. IsCall(calls[i], applied) /\ applied \in 0 .. applied /\ 0 \in 0 .. applied
    BY DEF IInv, Numbered
  <2>2. IsCall([calls[i] EXCEPT !.stage = stage, !.n = 0], applied)
    BY <2>1, CallMoves DEF IInv
  <2> QED  BY <2>2, GoneIsCall DEF IInv
<1>3. applied \in Nat /\ Numbered(calls, applied) /\ applied <= applied
  BY DEF IInv
<1> HIDE DEF x
<1>4. Numbered([calls EXCEPT ![i] = x], applied)
  BY <1>2, <1>3, ReplaceNumbered
<1> QED  BY <1>1, <1>4

\* A step that hears an answer, if the tab leaves or what the handler
\* invalidates covers what the request touches.
LEMMA AnswerInv ==
  ASSUME IInv, NEW i, Arrived(i), NEW K, leaving' # None \/ Touches(calls[i].op) \subseteq K,
         leaving' = None => leaving = None,
         Tell(i, "told"), Hear(i), cache' = Invalidated(K), UNCHANGED applied
  PROVE  IInv'
<1>1. i \in DOMAIN calls /\ calls[i].n \in 0 .. applied
  BY DEF Arrived, IInv, Numbered, IsCall
<1>2. Heard'
  BY <1>1 DEF Hear, Heard, Most, IInv, Ours, Keys
<1> DEFINE told == Told'
<1>3. \A k \in Ours : told[k] \in Nat /\ told[k] <= applied /\ (k \notin K => told[k] \in {0, Told[k]})
  <2>1. \A k \in Ours : told[k] \in Nat /\ told[k] <= applied
    BY <1>2, ToldBounds DEF IInv
  <2>2. ASSUME NEW k \in Ours, k \notin K PROVE told[k] \in {0, Told[k]}
    BY <2>2 DEF Told, Hear, Ours, Keys
  <2> QED  BY <2>1, <2>2
<1> HIDE DEF told
<1>4. applied \in Nat /\ applied <= applied
  BY DEF IInv
<1>5. Fits(Invalidated(K), told, applied)
  BY <1>3, <1>4, InvalidatedFits
<1> QED  BY <1>1, <1>2, <1>5, TellNumbered DEF IInv, told

\* An invalidation alone.
LEMMA RefreshFits == ASSUME IInv, NEW K PROVE Fits(Invalidated(K), Told, applied)
  BY InvalidatedFits DEF IInv, Fits

\* A step in which the server makes a change, or replies that it made none.
LEMMA ReplyInv ==
  ASSUME IInv, NEW i \in DOMAIN calls, NEW result, NEW m \in Nat, NEW n \in 0 .. m, applied <= m,
         calls' = [calls EXCEPT ![i] = Replied(@, result, n)], applied' = m, UNCHANGED <<acked, cache, leaving>>
  PROVE  IInv'
<1>1. IsCall(Replied(calls[i], result, n), m)
  <2>1. IsCall(calls[i], applied) /\ applied \in 0 .. m
    BY DEF IInv, Numbered
  <2>2. IsCall([calls[i] EXCEPT !.stage = "served", !.how = None, !.result = result, !.n = n], m)
    BY <2>1, CallMoves
  <2> QED  BY <2>2, GoneIsCall DEF Replied
<1>2. Numbered(calls', m)
  BY <1>1, ReplaceNumbered DEF IInv
<1>3. Fits(cache, Told, m)
  BY DEF IInv, Fits
<1>4. Heard'
  BY DEF IInv, Heard, Ours, Keys
<1> QED  BY <1>2, <1>3, <1>4 DEF IInv, Told

\* A change.
LEMMA ServeInv == ASSUME IInv, NEW i, NEW op, NEW result, Serve(i, op, result) PROVE IInv'
<1>1. applied + 1 \in Nat /\ applied + 1 \in 0 .. applied + 1 /\ applied <= applied + 1
  BY DEF IInv
<1> QED  BY <1>1, ReplyInv DEF Serve

-------------------------------------------------------------------------------
(* What the customer sees.                                                 *)

\* Every step, one by one.
LEMMA NextInv == IInv /\ TInv /\ [Next]_vars => IInv'
<1> SUFFICES ASSUME IInv, TInv, [Next]_vars PROVE IInv'
  OBVIOUS
<1>1. CASE \E choice \in {"pack", "hourly", "buy"} : Choose(choice)
  BY <1>1, AsideInv DEF Choose, view, rooms
<1>2. CASE CloseModal
  BY <1>2, AsideInv DEF CloseModal, view, rooms
<1>3. CASE TimesOut
  BY <1>3, AsideInv DEF TimesOut, view, rooms
<1>4. CASE SignIn
  BY <1>4, AsideInv DEF SignIn, view, rooms
<1>5. CASE \E s \in Slots : OpenDialog(s)
  BY <1>5, AsideInv DEF OpenDialog, view, rooms
<1>6. CASE CloseDialog
  BY <1>6, AsideInv DEF CloseDialog, view, rooms
<1>7. CASE ResumePurchase
  <2>1. leaving' # None
    BY <1>7, CustomerAssumption DEF ResumePurchase, Places
  <2> QED  BY <1>7, <2>1, LeavingFits DEF ResumePurchase, view, rooms, IInv, Heard
<1>8. CASE PackArrives
  BY <1>8, AsideInv DEF PackArrives, view, rooms
<1>9. CASE \E s \in Slots : OthersTake(s)
  BY <1>9, AsideInv DEF OthersTake, view, rooms
<1>10. CASE \E s \in Slots : HoldLapses(s)
  BY <1>10, AsideInv DEF HoldLapses, view, rooms
<1>11. CASE Confirm
  BY <1>11, SendInv DEF Confirm, view, rooms
<1>12. CASE BuyForSlot
  BY <1>12, SendInv DEF BuyForSlot, view, rooms
<1>13. CASE \E s \in Slots : PayBooking(s)
  BY <1>13, SendInv DEF PayBooking, view, rooms
<1>14. CASE CancelBooking
  BY <1>14, SendInv DEF CancelBooking, view, rooms
<1>15. CASE BuyPack
  BY <1>15, SendInv DEF BuyPack, view, rooms
<1>16. CASE CancelPurchase
  BY <1>16, SendInv DEF CancelPurchase, view, rooms
<1>17. CASE CheckBankAgain
  BY <1>17, RefreshFits, CacheInv DEF CheckBankAgain, view
<1>18. CASE Poll
  <2>1. Keeps(Ask(cache["bank"]), Told["bank"])
    BY AskKeeps DEF IInv, Fits, Ours
  <2>2. Fits(cache', Told, applied)
    BY <1>18, <2>1, MoveFits DEF Poll, IInv, Keys, Ours
  <2> QED  BY <1>18, <2>2, CacheInv DEF Poll, view
<1>19. CASE \E s \in Slots : OpenCalendar(s)
  <2>1. PICK s \in Slots : OpenCalendar(s)
    BY <1>19
  <2>2. Fits(Mounted(cache, {s}), Told, applied)
    BY MountedFits DEF IInv
  <2>3. Fits(cache', Told, applied)
    BY <2>1, <2>2, ReselectFits DEF OpenCalendar
  <2> QED  BY <2>1, <2>3, CacheInv DEF OpenCalendar, view
<1>20. CASE \E s \in Slots : Navigate(s)
  <2>1. PICK s \in Slots : Navigate(s)
    BY <1>20
  <2>2. Fits(Mounted(cache, {s}), Told, applied)
    BY MountedFits DEF IInv
  <2>3. Fits(cache', Told, applied)
    BY <2>1, <2>2, ReselectFits DEF Navigate
  <2> QED  BY <2>1, <2>3, CacheInv DEF Navigate, view
<1>21. CASE \E s \in Slots : PickSlot(s)
  <2>1. Fits(cache', Told, applied)
    BY <1>21, MountedFits DEF PickSlot, ShowModal, IInv
  <2> QED  BY <1>21, <2>1, CacheInv DEF PickSlot, view
<1>22. CASE ReadUrl
  <2>1. Fits(Mounted(cache, {query.slot}), Told, applied) /\ Fits(cache, Told, applied)
    BY MountedFits DEF IInv
  <2>2. Fits(cache', Told, applied)
    BY <1>22, <2>1, ReselectFits DEF ReadUrl
  <2> QED  BY <1>22, <2>2, CacheInv DEF ReadUrl
<1>23. CASE \E p \in {"rooms", "dashboard", "packs"} : GoTo(p)
  <2>1. Fits(cache', Told, applied)
    BY <1>23, MountedFits DEF GoTo, IInv
  <2> QED  BY <1>23, <2>1, CacheInv DEF GoTo
<1>24. CASE Unload
  BY <1>24, LoadInv DEF Unload
<1>25. CASE Reload
  BY <1>25, LoadInv DEF Reload
<1>26. CASE PayAtCheckout
  BY <1>26, LoadInv DEF PayAtCheckout, Return
<1>27. CASE LeaveCheckout
  BY <1>27, LoadInv DEF LeaveCheckout, Return
<1>28. CASE \E i \in DOMAIN calls : AnswerBook(i)
  <2>1. Touches("book") \subseteq Invalidates("book")
    BY DEF Touches, Invalidates, PacksMe
  <2>2. PICK i \in DOMAIN calls : AnswerBook(i)
    BY <1>28
  <2>3. calls[i].slot \in Slots \cup {None}
    BY RequestsAre DEF TInv, Calls
  <2>4. leaving' = None => leaving = None
    BY <2>2, <2>3, CustomerAssumption DEF AnswerBook, Places
  <2> QED  BY <2>1, <2>2, <2>4, AnswerInv DEF AnswerBook
<1>29. CASE \E i \in DOMAIN calls : AnswerBuy(i)
  <2>1. Touches("buy") \subseteq Invalidates("buy")
    BY DEF Touches, Invalidates, PacksMe
  <2>2. PICK i \in DOMAIN calls : AnswerBuy(i)
    BY <1>29
  <2>3. calls[i].slot \in Slots \cup {None}
    BY RequestsAre DEF TInv, Calls
  <2>4. leaving' = None => leaving = None
    BY <2>2, <2>3, CustomerAssumption DEF AnswerBuy, Places
  <2> QED  BY <2>1, <2>2, <2>4, AnswerInv DEF AnswerBuy
<1>30. CASE \E i \in DOMAIN calls : AnswerCancel(i)
  <2>1. Touches("cancel") \subseteq Invalidates("cancel")
    BY DEF Touches, Invalidates, PacksMe
  <2> QED  BY <1>30, <2>1, AnswerInv DEF AnswerCancel
<1>31. CASE \E i \in DOMAIN calls : AnswerPay(i)
  <2>1. PICK i \in DOMAIN calls : AnswerPay(i)
    BY <1>31
  <2>2. calls[i].slot \in Slots \cup {None}
    BY RequestsAre DEF TInv, Calls
  <2>3. leaving' # None
    BY <2>1, <2>2, CustomerAssumption DEF AnswerPay, Places
  <2> QED  BY <2>1, <2>3, AnswerInv DEF AnswerPay
<1>32. CASE \E i \in DOMAIN calls : AnswerDrop(i)
  <2>1. Touches("drop") \subseteq Invalidates("drop")
    BY DEF Touches, Invalidates, PacksMe
  <2> QED  BY <1>32, <2>1, AnswerInv DEF AnswerDrop
<1>33. CASE \E i \in DOMAIN calls : AnswerError(i)
  <2>1. Fits(cache', Told, applied)
    BY <1>33, RefreshFits DEF AnswerError
  <2>2. Numbered(calls', applied)
    BY <1>33, TellNumbered DEF AnswerError, Arrived
  <2> QED  BY <1>33, <2>1, <2>2 DEF AnswerError, IInv, Heard, Told
<1>34. CASE \E i \in DOMAIN calls : ServeBook(i)
  BY <1>34, ServeInv DEF ServeBook
<1>35. CASE \E i \in DOMAIN calls : ServeBuy(i)
  BY <1>35, ServeInv DEF ServeBuy
<1>36. CASE \E i \in DOMAIN calls : ServeCancel(i)
  BY <1>36, ServeInv DEF ServeCancel
<1>37. CASE \E i \in DOMAIN calls : ServePay(i)
  BY <1>37, ServeInv DEF ServePay
<1>38. CASE \E i \in DOMAIN calls : ServeDrop(i)
  BY <1>38, ServeInv DEF ServeDrop
<1>39. CASE \E i \in DOMAIN calls : Refuse(i)
  <2>1. applied \in Nat /\ 0 \in 0 .. applied /\ applied <= applied
    BY DEF IInv
  <2> QED  BY <1>39, <2>1, ReplyInv DEF Refuse
<1>40. CASE \E k \in Keys : ServeRead(k)
  <2>1. PICK k \in Ours : ServeRead(k)
    BY <1>40 DEF ServeRead
  <2>2. /\ Keeps(cache[k], Told[k]) /\ Told[k] \in Nat
        /\ Snapshot(k).n \in Nat /\ Snapshot(k).n >= Told[k]
    BY DEF IInv, Fits, Snapshot
  <2>3. Keeps(Answer(cache[k], Snapshot(k)), Told[k])
    BY <2>2, AnswerKeeps
  <2>4. Fits(cache', Told, applied)
    BY <2>1, <2>3, MoveFits DEF ServeRead, IInv, Keys
  <2> QED  BY <2>1, <2>4, CacheInv DEF ServeRead, view
<1>41. CASE \E k \in Keys : DeliverRead(k)
  <2>1. PICK k \in Keys : DeliverRead(k)
    BY <1>41
  <2> DEFINE e == IF k \in Ours THEN Deliver(cache[k])
                  ELSE [Deliver(Answer(cache[k], Snapshot(k))) EXCEPT !.late = FALSE]
             c == [cache EXCEPT ![k] = e]
  <2>2. k \in Ours => Keeps(e, Told[k])
    BY <2>1, DeliverKeeps DEF DeliverRead, IInv, Fits
  <2>3. Fits(c, Told, applied)
    <3> HIDE DEF e
    <3> QED  BY <2>2, MoveFits DEF IInv
  <2>4. \/ Reselect(reopen, day, c)
        \/ cache' = c
    BY <2>1 DEF DeliverRead
  <2>5. Fits(cache', Told, applied)
    <3> HIDE DEF c
    <3> QED  BY <2>3, <2>4, ReselectFits
  <2> QED  BY <2>1, <2>5, CacheInv DEF DeliverRead, view
<1>42. CASE FailRead
  <2>1. Keeps(Fail(cache["bank"]), Told["bank"])
    BY FailKeeps DEF IInv, Fits, Ours
  <2>2. Fits(cache', Told, applied)
    BY <1>42, <2>1, MoveFits DEF FailRead, IInv, Keys, Ours
  <2> QED  BY <1>42, <2>2, CacheInv DEF FailRead, view
<1>43. CASE MinutePasses
  <2>1. Fits(cache', Told, applied)
    BY <1>43, AgeKeeps DEF MinutePasses, IInv, Fits, Ours, Keys
  <2> QED  BY <1>43, <2>1, CacheInv DEF MinutePasses, view
<1>44. CASE UNCHANGED vars
  BY <1>44, AsideInv DEF vars
<1> QED
  BY <1>1, <1>2, <1>3, <1>4, <1>5, <1>6, <1>7, <1>8, <1>9, <1>10, <1>11, <1>12, <1>13, <1>14, <1>15, <1>16, <1>17,
     <1>18, <1>19, <1>20, <1>21, <1>22, <1>23, <1>24, <1>25, <1>26, <1>27, <1>28, <1>29, <1>30, <1>31, <1>32, <1>33,
     <1>34, <1>35, <1>36, <1>37, <1>38, <1>39, <1>40, <1>41, <1>42, <1>43, <1>44
  DEF Next, Modal, Pages, Answers, Server, Outside

\* The first invariant says what the customer sees.
LEMMA InvShows == IInv => OwnChangesShown
  BY DEF IInv, Fits, Told, Keeps, Sound, AtRest, OwnChangesShown, Ours, Keys

\* For any slots, openings and bounds, a list the tab believes current shows
\* every change the tab was told it had made, as long as it is not leaving.
THEOREM OwnChangesTheorem == Spec => []OwnChangesShown
<1>1. Init => IInv
  BY InitInv
<1>2. IInv /\ TInv /\ [Next]_vars => IInv'
  BY NextInv
<1>3. IInv => OwnChangesShown
  BY InvShows
<1> QED  BY <1>1, <1>2, <1>3, TypedAlways, PTL DEF Spec
================================================================================
