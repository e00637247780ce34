-------------------------- MODULE SubmissionGuardProofs -------------------------
(***************************************************************************)
(* What holds of the submission guard for every set of forms, and however  *)
(* deep the page nests its submissions, clicks and events.                 *)
(*                                                                         *)
(* The proofs look at the stack from below: what is under way is replaced  *)
(* at the top only, so a frame keeps its height.                           *)
(***************************************************************************)
EXTENDS SubmissionGuard, FiniteSetTheorems, TLAPS

\* The frame at a height of the stack; the outermost is at height 1.
At(s, h) == s[Len(s) + 1 - h]

Happenings == {"click", "key", "submit"}

\* Frame x may lie on top of frame y.
Lies(x, y) ==
  /\ x.kind = "script" => y.kind \in Happenings
  /\ x.kind = "call" => y.kind = "script"
  /\ x.kind \in Happenings => y.kind \in {"script", "call"}

\* Page listeners run on top of events, and events that are not the user's on top
\* of what page code calls.
Layered(s) ==
  /\ \A h \in 1..Len(s) : At(s, h).kind # "script" => At(s, h).form \in Forms
  /\ \A h \in 2..Len(s) : Lies(At(s, h), At(s, h - 1))
  /\ s # <<>> => At(s, 1).kind # "call"

\* An event of the user's that leads to a submission by itself.
Submits(x) ==
  \/ x.kind = "submit" /\ x.phase = "before"
  \/ x.kind = "click" /\ x.phase = "after" /\ x.control = "submit"
  \/ x.kind = "key" /\ x.phase = "after"

\* What the user has started is at the bottom, and leads to a submission only of
\* the forms of A.
Started(s, A) ==
  s # <<>> /\ At(s, 1).kind # "script" =>
    At(s, 1).trusted /\ (Submits(At(s, 1)) => At(s, 1).form \in A)

\* The forms of P have a call of a submit method under way.
Called(s, P) == \A f \in P : \E h \in 1..Len(s) : At(s, h) = Call(f)

\* A submit event that has passed the guard and will submit form f, or hand its
\* authorization back.
Owes(s, h, f) ==
  /\ At(s, h).kind = "submit" /\ At(s, h).form = f
  /\ At(s, h).trusted /\ At(s, h).phase = "after"
  /\ ~At(s, h).prevented \/ (At(s, h).used /\ \E g \in 1 .. h - 1 : At(s, g).kind = "script")
Owing(s, f) == {h \in 1..Len(s) : Owes(s, h, f)}

Count(s, f) == Cardinality(Owing(s, f))

One(S, f) == IF f \in S THEN 1 ELSE 0

\* The permissions of a form that stand.
Standing(f) ==
  One(authorizedForms, f) + One(activationForms, f) + One(allowedFormEvents, f) + One(restores, f)

\* Submissions of a form that took place or still may.
Claims(f) == submitted[f] + Count(stack, f) + Standing(f)

\* Each was activated by the user.
CreditInv == \A f \in Forms : Claims(f) <= activations[f]

\* What the user has started is authorized, or page code has used it up.
GuardInv ==
  /\ TypeOK /\ refused \subseteq Forms \X {TRUE}
  /\ Layered(stack) /\ Started(stack, authorizedForms \cup spent)
  /\ Called(stack, allowedFormEvents)
  /\ CreditInv
-----------------------------------------------------------------------------
(* The stack, from below: how stack t differs from stack s. *)

\* Frame x was pushed.
Pushed(s, x, t) ==
  /\ t \in Seq(Frame) /\ Len(t) = Len(s) + 1 /\ At(t, Len(t)) = x
  /\ \A h \in 1..Len(s) : At(t, h) = At(s, h)

\* The top frame was popped.
Popped(s, t) ==
  /\ t \in Seq(Frame) /\ Len(t) = Len(s) - 1
  /\ \A h \in 1..Len(t) : At(t, h) = At(s, h)

\* The top frame became x.
Became(s, x, t) ==
  /\ t \in Seq(Frame) /\ Len(t) = Len(s) /\ At(t, Len(s)) = x
  /\ \A h \in 1 .. Len(s) - 1 : At(t, h) = At(s, h)

\* The event below the top frame was canceled.
Canceled(s, t) ==
  /\ t \in Seq(Frame) /\ Len(t) = Len(s) /\ At(t, Len(s)) = At(s, Len(s))
  /\ At(t, Len(s) - 1) = [At(s, Len(s) - 1) EXCEPT !.prevented = TRUE]
  /\ \A h \in 1 .. Len(s) - 2 : At(t, h) = At(s, h)

\* The top of the stack is its highest frame.
LEMMA TopAt ==
  ASSUME NEW s \in Seq(Frame), s # <<>>
  PROVE  Len(s) \in Nat \ {0} /\ At(s, Len(s)) = Head(s) /\ Head(s) \in Frame
  BY DEF At

\* A frame at a height is a frame.
LEMMA AtTyped ==
  ASSUME NEW s \in Seq(Frame), NEW h \in 1..Len(s)
  PROVE  At(s, h) \in Frame
<1>1. Len(s) + 1 - h \in 1..Len(s)
  OBVIOUS
<1> QED
  BY <1>1 DEF At

\* What Push makes of the stack.
LEMMA PushAt ==
  ASSUME NEW s \in Seq(Frame), NEW x \in Frame
  PROVE  Pushed(s, x, <<x>> \o s)
<1> DEFINE t == <<x>> \o s
<1>1. t \in Seq(Frame) /\ Len(t) = Len(s) + 1 /\ t[1] = x
  OBVIOUS
<1>2. \A i \in 1..Len(s) : t[i + 1] = s[i]
  OBVIOUS
<1>3. ASSUME NEW h \in 1..Len(s) PROVE At(t, h) = At(s, h)
  <2>1. Len(s) + 1 - h \in 1..Len(s) /\ Len(t) + 1 - h = (Len(s) + 1 - h) + 1
    BY <1>1
  <2> QED
    BY <2>1, <1>2 DEF At
<1> HIDE DEF t
<1>4. Pushed(s, x, t)
  BY <1>1, <1>3 DEF At, Pushed
<1> QED
  BY <1>4 DEF t

\* What Pop makes of the stack.
LEMMA PopAt ==
  ASSUME NEW s \in Seq(Frame), s # <<>>
  PROVE  Popped(s, Tail(s))
<1> DEFINE t == Tail(s)
<1>1. t \in Seq(Frame) /\ Len(t) = Len(s) - 1
  OBVIOUS
<1>2. ASSUME NEW h \in 1..Len(t) PROVE At(t, h) = At(s, h)
  <2>1. Len(t) + 1 - h \in 1..Len(t) /\ Len(s) + 1 - h = (Len(t) + 1 - h) + 1
    BY <1>1
  <2>2. \A i \in 1..Len(t) : t[i] = s[i + 1]
    OBVIOUS
  <2> QED
    BY <2>1, <2>2 DEF At
<1> HIDE DEF t
<1>3. Popped(s, t)
  BY <1>1, <1>2 DEF Popped
<1> QED
  BY <1>3 DEF t

\* What Become makes of the stack.
LEMMA BecomeAt ==
  ASSUME NEW s \in Seq(Frame), s # <<>>, NEW x \in Frame
  PROVE  Became(s, x, <<x>> \o Tail(s))
<1>1. Popped(s, Tail(s)) /\ Tail(s) \in Seq(Frame)
  BY PopAt
<1>2. Pushed(Tail(s), x, <<x>> \o Tail(s))
  BY <1>1, PushAt
<1>3. Len(s) \in Nat \ {0}
  BY TopAt
<1> QED
  BY <1>1, <1>2, <1>3 DEF Popped, Pushed, Became

\* Frames that are changed, and made, are frames.
LEMMA FramesMade ==
  /\ \A x \in Frame : /\ [x EXCEPT !.phase = "after"] \in Frame
                      /\ [x EXCEPT !.phase = "after", !.used = TRUE] \in Frame
                      /\ [x EXCEPT !.prevented = TRUE] \in Frame
  /\ \A kind \in {"click", "key", "submit", "script", "call"}, f \in Forms \cup {NoForm},
       c \in Controls, b \in BOOLEAN : Event(kind, f, c, b) \in Frame
  BY DEF Frame, Event

\* A frame that has passed the guard is the same event.
LEMMA FramePassed ==
  ASSUME NEW x \in Frame, NEW y,
         y = [x EXCEPT !.phase = "after"] \/ y = [x EXCEPT !.phase = "after", !.used = TRUE]
  PROVE  /\ y \in Frame /\ y.kind = x.kind /\ y.form = x.form /\ y.phase = "after"
         /\ y.trusted = x.trusted /\ y.control = x.control /\ y.prevented = x.prevented
<1>1. y \in Frame
  BY FramesMade
<1> QED
  BY <1>1 DEF Frame

\* Something is below the top of a stack that is higher than one.
LEMMA TailMade ==
  ASSUME NEW F, NEW s \in Seq(F), Len(s) > 1, NEW u, Len(u) = Len(s) - 1
  PROVE  u # <<>>
  OBVIOUS

\* What preventDefault makes of the stack.
LEMMA PreventAt ==
  ASSUME NEW s \in Seq(Frame), Len(s) > 1
  PROVE  Canceled(s, <<Head(s)>> \o <<[s[2] EXCEPT !.prevented = TRUE]>> \o Tail(Tail(s)))
<1> DEFINE y == [s[2] EXCEPT !.prevented = TRUE]
           r == Tail(Tail(s))
           q == <<y>> \o r
           t == <<Head(s)>> \o q
<1>1. s # <<>> /\ Head(s) = s[1] /\ s[1] \in Frame /\ s[2] \in Frame
  OBVIOUS
<1>2. y \in Frame
  BY <1>1, FramesMade
<1>3. Popped(s, Tail(s)) /\ Tail(s) \in Seq(Frame) /\ Tail(s) # <<>>
  <2>1. Popped(s, Tail(s))
    BY <1>1, PopAt
  <2>2. Tail(s) \in Seq(Frame) /\ Len(Tail(s)) = Len(s) - 1
    BY <2>1 DEF Popped
  <2> QED
    BY <2>1, <2>2, TailMade
<1>4. Popped(Tail(s), r) /\ r \in Seq(Frame)
  <2>1. Popped(Tail(s), r)
    BY <1>3, PopAt
  <2> QED
    BY <2>1 DEF Popped
<1>5. Pushed(r, y, q) /\ q \in Seq(Frame)
  <2> HIDE DEF y, r
  <2> QED
    BY <1>2, <1>4, PushAt DEF Pushed
<1>6. Pushed(q, Head(s), t)
  <2> HIDE DEF y, r, q
  <2> QED
    BY <1>1, <1>5, PushAt
<1>7. t = <<Head(s)>> \o <<[s[2] EXCEPT !.prevented = TRUE]>> \o Tail(Tail(s))
  <2> HIDE DEF y, r
  <2>1. <<Head(s)>> \o (<<y>> \o r) = <<Head(s)>> \o <<y>> \o r
    BY <1>1, <1>2, <1>4
  <2> QED
    BY <2>1 DEF y, r
<1>8. At(s, Len(s)) = Head(s) /\ At(s, Len(s) - 1) = s[2] /\ Len(s) \in Nat
  BY <1>1 DEF At
<1> HIDE DEF t, q, r, y
<1>9. Len(r) = Len(s) - 2 /\ Len(q) = Len(s) - 1 /\ Len(t) = Len(s)
  BY <1>3, <1>4, <1>5, <1>6, <1>8 DEF Popped, Pushed
<1>10. ASSUME NEW h \in 1 .. Len(s) - 2 PROVE At(t, h) = At(s, h)
  <2>1. At(r, h) = At(s, h)
    BY <1>3, <1>4, <1>8, <1>9 DEF Popped
  <2>2. At(t, h) = At(r, h)
    BY <1>5, <1>6, <1>8, <1>9 DEF Pushed
  <2> QED
    BY <2>1, <2>2
<1>11. At(t, Len(s)) = Head(s) /\ At(t, Len(s) - 1) = y
  BY <1>5, <1>6, <1>8, <1>9 DEF Pushed
<1>12. At(t, Len(s) - 1) = [At(s, Len(s) - 1) EXCEPT !.prevented = TRUE]
  BY <1>8, <1>11 DEF y
<1>13. Canceled(s, t)
  BY <1>6, <1>8, <1>9, <1>10, <1>11, <1>12 DEF Canceled, Pushed
<1> QED
  BY <1>7, <1>13
-----------------------------------------------------------------------------
(* What lies on what. *)

\* A frame that suits the top of the stack may be pushed.
LEMMA LayerPush ==
  ASSUME NEW s \in Seq(Frame), Layered(s), NEW x \in Frame, NEW t, Pushed(s, x, t),
         x.kind # "script" => x.form \in Forms,
         s = <<>> => x.kind # "call", s # <<>> => Lies(x, Head(s))
  PROVE  Layered(t)
<1>1. Len(s) \in Nat /\ Len(t) = Len(s) + 1 /\ (s = <<>> <=> Len(s) = 0)
  BY DEF Pushed
<1>2. \A h \in 1..Len(t) : At(t, h).kind # "script" => At(t, h).form \in Forms
  BY <1>1 DEF Pushed, Layered
<1>3. ASSUME NEW h \in 2..Len(t) PROVE Lies(At(t, h), At(t, h - 1))
  <2>1. CASE h = Len(t)
    <3>1. s # <<>> /\ At(t, h) = x /\ At(t, h - 1) = At(s, Len(s))
      BY <2>1, <1>1 DEF Pushed
    <3> QED
      BY <3>1, TopAt
  <2>2. CASE h # Len(t)
    <3>1. h \in 2..Len(s) /\ At(t, h) = At(s, h) /\ At(t, h - 1) = At(s, h - 1)
      BY <2>2, <1>1 DEF Pushed
    <3> QED
      BY <3>1 DEF Layered
  <2> QED
    BY <2>1, <2>2
<1>4. At(t, 1).kind # "call"
  <2>1. CASE s = <<>>
    BY <2>1, <1>1 DEF Pushed
  <2>2. CASE s # <<>>
    BY <2>2, <1>1 DEF Pushed, Layered
  <2> QED
    BY <2>1, <2>2
<1> QED
  BY <1>2, <1>3, <1>4 DEF Layered

\* What is left when the top is popped lies as before.
LEMMA LayerPop ==
  ASSUME NEW s \in Seq(Frame), s # <<>>, Layered(s), NEW t, Popped(s, t)
  PROVE  Layered(t)
<1>1. Len(s) \in Nat \ {0} /\ Len(t) = Len(s) - 1 /\ (t = <<>> <=> Len(t) = 0)
  BY TopAt DEF Popped
<1>2. \A h \in 1..Len(t) : At(t, h).kind # "script" => At(t, h).form \in Forms
  BY <1>1 DEF Popped, Layered
<1>3. ASSUME NEW h \in 2..Len(t) PROVE Lies(At(t, h), At(t, h - 1))
  <2>1. h \in 2..Len(s) /\ At(t, h) = At(s, h) /\ At(t, h - 1) = At(s, h - 1)
    BY <1>1 DEF Popped
  <2> QED
    BY <2>1 DEF Layered
<1>4. t # <<>> => At(t, 1).kind # "call"
  BY <1>1 DEF Popped, Layered
<1> QED
  BY <1>2, <1>3, <1>4 DEF Layered

\* An event becomes another one, or moves to the next phase of its dispatch.
LEMMA LayerBecome ==
  ASSUME NEW s \in Seq(Frame), s # <<>>, Layered(s), NEW x \in Frame, NEW t, Became(s, x, t),
         Head(s).kind \in Happenings, x.kind \in Happenings, x.form \in Forms
  PROVE  Layered(t)
<1>1. Len(s) \in Nat \ {0} /\ Len(t) = Len(s) /\ At(t, Len(s)) = x /\ At(s, Len(s)) = Head(s)
  BY TopAt DEF Became
<1>2. \A h \in 1..Len(t) : At(t, h).kind # "script" => At(t, h).form \in Forms
  BY <1>1 DEF Became, Layered
<1>3. ASSUME NEW h \in 2..Len(t) PROVE Lies(At(t, h), At(t, h - 1))
  <2>1. At(t, h - 1) = At(s, h - 1) /\ Lies(At(s, h), At(s, h - 1))
    BY <1>1 DEF Became, Layered
  <2>2. CASE h = Len(s)
    <3>1. At(t, h) = x /\ At(s, h) = Head(s)
      BY <2>2, <1>1
    <3> QED
      BY <2>1, <3>1 DEF Lies, Happenings
  <2>3. CASE h # Len(s)
    <3>1. At(t, h) = At(s, h)
      BY <2>3, <1>1 DEF Became
    <3> QED
      BY <2>1, <3>1
  <2> QED
    BY <2>2, <2>3
<1>4. At(t, 1).kind # "call"
  <2>1. CASE Len(s) = 1
    BY <2>1, <1>1 DEF Happenings
  <2>2. CASE Len(s) # 1
    <3>1. At(t, 1) = At(s, 1)
      BY <2>2, <1>1 DEF Became
    <3> QED
      BY <3>1 DEF Layered
  <2> QED
    BY <2>1, <2>2
<1> QED
  BY <1>2, <1>3, <1>4 DEF Layered

\* What a listener cancels lies as before.
LEMMA LayerCancel ==
  ASSUME NEW s \in Seq(Frame), Len(s) > 1, Layered(s), NEW t, Canceled(s, t)
  PROVE  Layered(t)
<1>1. Len(s) \in Nat /\ Len(t) = Len(s) /\ At(s, Len(s) - 1) \in Frame
  BY AtTyped DEF Canceled
<1>2. \A h \in 1..Len(s) : At(t, h).kind = At(s, h).kind /\ At(t, h).form = At(s, h).form
  BY <1>1 DEF Canceled, Frame
<1>3. \A h \in 2..Len(s) : h \in 1..Len(s) /\ h - 1 \in 1..Len(s)
  BY <1>1
<1>4. s # <<>> /\ 1 \in 1..Len(s)
  BY <1>1
<1> QED
  BY <1>1, <1>2, <1>3, <1>4 DEF Layered, Lies
-----------------------------------------------------------------------------
(* The events under way that have passed the guard. *)

\* What an event owes depends on it and on what is below it.
LEMMA OwesBelow ==
  ASSUME NEW s, NEW t, NEW h \in Nat \ {0}, \A g \in 1..h : At(t, g) = At(s, g), NEW f
  PROVE  Owes(t, h, f) <=> Owes(s, h, f)
<1>1. At(t, h) = At(s, h) /\ \A g \in 1 .. h - 1 : At(t, g) = At(s, g)
  OBVIOUS
<1> QED
  BY <1>1 DEF Owes

\* There are finitely many.
LEMMA CountTyped ==
  ASSUME NEW s \in Seq(Frame), NEW f
  PROVE  IsFiniteSet(Owing(s, f)) /\ Count(s, f) \in Nat
<1>1. Owing(s, f) \subseteq 1..Len(s)
  BY DEF Owing
<1>2. IsFiniteSet(1..Len(s))
  BY FS_Interval
<1>3. IsFiniteSet(Owing(s, f))
  BY <1>1, <1>2, FS_Subset
<1> QED
  BY <1>3, FS_CardinalityType DEF Count

\* Those among others are no more.
LEMMA CountLess ==
  ASSUME NEW s \in Seq(Frame), NEW t \in Seq(Frame), NEW f, Owing(t, f) \subseteq Owing(s, f)
  PROVE  Count(t, f) <= Count(s, f)
<1>1. IsFiniteSet(Owing(s, f))
  BY CountTyped
<1> QED
  BY <1>1, FS_Subset DEF Count

\* A frame that is pushed has not passed the guard yet.
LEMMA CountPush ==
  ASSUME NEW s \in Seq(Frame), NEW x, x.phase = "before", NEW t, Pushed(s, x, t), NEW f
  PROVE  Count(t, f) <= Count(s, f)
<1>1. Len(s) \in Nat /\ Len(t) = Len(s) + 1 /\ t \in Seq(Frame)
  BY DEF Pushed
<1>2. ~Owes(t, Len(t), f)
  BY DEF Owes, Pushed
<1>3. ASSUME NEW h \in 1..Len(s) PROVE Owes(t, h, f) <=> Owes(s, h, f)
  <2>1. \A g \in 1..h : At(t, g) = At(s, g)
    BY <1>1 DEF Pushed
  <2> QED
    BY <2>1, OwesBelow
<1>4. Owing(t, f) \subseteq Owing(s, f)
  BY <1>1, <1>2, <1>3 DEF Owing
<1> QED
  BY <1>1, <1>4, CountLess

\* When an event is over it owes nothing any more.
LEMMA CountPop ==
  ASSUME NEW s \in Seq(Frame), s # <<>>, NEW t, Popped(s, t), NEW f
  PROVE  /\ Count(t, f) <= Count(s, f)
         /\ Owes(s, Len(s), f) => Count(t, f) = Count(s, f) - 1
<1>1. Len(s) \in Nat \ {0} /\ Len(t) = Len(s) - 1 /\ t \in Seq(Frame)
  BY TopAt DEF Popped
<1>2. ASSUME NEW h \in 1..Len(t) PROVE Owes(t, h, f) <=> Owes(s, h, f)
  <2>1. \A g \in 1..h : At(t, g) = At(s, g)
    BY <1>1 DEF Popped
  <2> QED
    BY <2>1, OwesBelow
<1>3. Owing(t, f) = Owing(s, f) \ {Len(s)}
  BY <1>1, <1>2 DEF Owing
<1>4. ASSUME Owes(s, Len(s), f) PROVE Count(t, f) = Count(s, f) - 1
  <2>1. Len(s) \in Owing(s, f) /\ IsFiniteSet(Owing(s, f))
    BY <1>1, <1>4, CountTyped DEF Owing
  <2>2. Cardinality(Owing(s, f) \ {Len(s)}) = Cardinality(Owing(s, f)) - 1
    BY <2>1, FS_RemoveElement
  <2> QED
    BY <2>2, <1>3 DEF Count
<1> QED
  BY <1>1, <1>3, <1>4, CountLess

\* An event that has passed the guard counts once more.
LEMMA CountBecome ==
  ASSUME NEW s \in Seq(Frame), s # <<>>, NEW x, NEW t, Became(s, x, t), NEW f
  PROVE  /\ Count(t, f) <= Count(s, f) + 1
         /\ ~Owes(t, Len(s), f) => Count(t, f) <= Count(s, f)
<1>1. Len(s) \in Nat \ {0} /\ Len(t) = Len(s) /\ t \in Seq(Frame)
  BY TopAt DEF Became
<1>2. ASSUME NEW h \in 1 .. Len(s) - 1 PROVE Owes(t, h, f) <=> Owes(s, h, f)
  <2>1. \A g \in 1..h : At(t, g) = At(s, g)
    BY <1>1 DEF Became
  <2> QED
    BY <2>1, OwesBelow
<1>3. Owing(t, f) \subseteq Owing(s, f) \cup {Len(s)}
  BY <1>1, <1>2 DEF Owing
<1>4. ASSUME ~Owes(t, Len(s), f) PROVE Count(t, f) <= Count(s, f)
  <2>1. Owing(t, f) \subseteq Owing(s, f)
    BY <1>3, <1>4 DEF Owing
  <2> QED
    BY <1>1, <2>1, CountLess
<1>5. Count(t, f) <= Count(s, f) + 1
  <2>1. IsFiniteSet(Owing(s, f)) /\ Count(s, f) \in Nat
    BY CountTyped
  <2>2. /\ IsFiniteSet(Owing(s, f) \cup {Len(s)})
        /\ Cardinality(Owing(s, f) \cup {Len(s)}) <= Count(s, f) + 1
    <3>1. /\ IsFiniteSet(Owing(s, f) \cup {Len(s)})
          /\ Cardinality(Owing(s, f) \cup {Len(s)})
               = IF Len(s) \in Owing(s, f) THEN Cardinality(Owing(s, f))
                 ELSE Cardinality(Owing(s, f)) + 1
      BY <2>1, FS_AddElement
    <3> QED
      BY <2>1, <3>1 DEF Count
  <2>3. Cardinality(Owing(t, f)) <= Cardinality(Owing(s, f) \cup {Len(s)})
    BY <1>3, <2>2, FS_Subset
  <2>4. Cardinality(Owing(s, f) \cup {Len(s)}) \in Nat /\ Cardinality(Owing(t, f)) \in Nat
    BY <2>2, FS_CardinalityType, <1>1, CountTyped DEF Count
  <2> QED
    BY <2>1, <2>2, <2>3, <2>4 DEF Count
<1> QED
  BY <1>4, <1>5

\* An event that is canceled owes no more than before.
LEMMA CountCancel ==
  ASSUME NEW s \in Seq(Frame), Len(s) > 1, NEW t, Canceled(s, t), NEW f
  PROVE  Count(t, f) <= Count(s, f)
<1>1. Len(s) \in Nat /\ Len(t) = Len(s) /\ t \in Seq(Frame) /\ At(s, Len(s) - 1) \in Frame
  BY AtTyped DEF Canceled
<1>2. \A h \in 1..Len(s) : /\ At(t, h).kind = At(s, h).kind /\ At(t, h).form = At(s, h).form
                           /\ At(t, h).trusted = At(s, h).trusted /\ At(t, h).phase = At(s, h).phase
                           /\ At(t, h).used = At(s, h).used
                           /\ ~At(t, h).prevented => ~At(s, h).prevented
  <2> SUFFICES ASSUME NEW h \in 1..Len(s)
               PROVE  At(t, h) = At(s, h) \/ At(t, h) = [At(s, h) EXCEPT !.prevented = TRUE]
    <3>1. ASSUME NEW h \in 1..Len(s),
                 At(t, h) = At(s, h) \/ At(t, h) = [At(s, h) EXCEPT !.prevented = TRUE]
          PROVE  /\ At(t, h).kind = At(s, h).kind /\ At(t, h).form = At(s, h).form
                 /\ At(t, h).trusted = At(s, h).trusted /\ At(t, h).phase = At(s, h).phase
                 /\ At(t, h).used = At(s, h).used
                 /\ ~At(t, h).prevented => ~At(s, h).prevented
      <4>1. At(s, h) \in Frame
        BY AtTyped
      <4> QED
        BY <3>1, <4>1 DEF Frame
    <3> QED
      BY <3>1
  <2>1. h \in 1 .. Len(s) - 2 \/ h = Len(s) - 1 \/ h = Len(s)
    BY <1>1
  <2> QED
    BY <2>1 DEF Canceled
<1>3. ASSUME NEW h \in 1..Len(s), Owes(t, h, f) PROVE Owes(s, h, f)
  <2>1. \A g \in 1 .. h - 1 : At(t, g).kind = At(s, g).kind
    BY <1>1, <1>2
  <2> QED
    BY <1>2, <1>3, <2>1 DEF Owes
<1>4. Owing(t, f) \subseteq Owing(s, f)
  BY <1>1, <1>3 DEF Owing
<1> QED
  BY <1>1, <1>4, CountLess
-----------------------------------------------------------------------------
(* What the user has started, and the calls under way. *)

\* Page code below a frame that is none itself.
LEMMA ScriptedBelow ==
  ASSUME NEW s \in Seq(Frame), s # <<>>, Head(s).kind # "script"
  PROVE  Scripted(s) <=> \E g \in 1 .. Len(s) - 1 : At(s, g).kind = "script"
<1>1. Len(s) \in Nat \ {0} /\ s[1].kind # "script"
  BY TopAt
<1>2. ASSUME Scripted(s) PROVE \E g \in 1 .. Len(s) - 1 : At(s, g).kind = "script"
  <2>1. PICK i \in 1..Len(s) : s[i].kind = "script"
    BY <1>2 DEF Scripted
  <2>2. i # 1
    BY <1>1, <2>1
  <2>3. Len(s) + 1 - i \in 1 .. Len(s) - 1 /\ Len(s) + 1 - (Len(s) + 1 - i) = i
    BY <1>1, <2>1, <2>2
  <2>4. At(s, Len(s) + 1 - i).kind = "script"
    BY <2>1, <2>3 DEF At
  <2> QED
    BY <2>3, <2>4
<1>3. ASSUME NEW g \in 1 .. Len(s) - 1, At(s, g).kind = "script" PROVE Scripted(s)
  <2>1. Len(s) + 1 - g \in 1..Len(s)
    BY <1>1
  <2> QED
    BY <1>3, <2>1 DEF At, Scripted
<1> QED
  BY <1>2, <1>3

\* What is pushed is not at the bottom.
LEMMA StartedPush ==
  ASSUME NEW s \in Seq(Frame), s # <<>>, NEW x, NEW t, Pushed(s, x, t),
         NEW A, NEW B, A \subseteq B, Started(s, A)
  PROVE  Started(t, B)
<1>1. 1 \in 1..Len(s)
  BY TopAt
<1>2. At(t, 1) = At(s, 1)
  BY <1>1 DEF Pushed
<1> QED
  BY <1>2 DEF Started

\* What is popped was not at the bottom, or nothing is left.
LEMMA StartedPop ==
  ASSUME NEW s \in Seq(Frame), s # <<>>, NEW t, Popped(s, t),
         NEW A, NEW B, A \subseteq B, Started(s, A)
  PROVE  Started(t, B)
<1>1. CASE t = <<>>
  BY <1>1 DEF Started
<1>2. CASE t # <<>>
  <2>1. 1 \in 1..Len(t)
    BY <1>2, TopAt DEF Popped
  <2>2. At(t, 1) = At(s, 1)
    BY <2>1 DEF Popped
  <2> QED
    BY <2>2 DEF Started
<1> QED
  BY <1>1, <1>2

\* What becomes another frame was not at the bottom, or is in order.
LEMMA StartedBecome ==
  ASSUME NEW s \in Seq(Frame), s # <<>>, NEW x, NEW t, Became(s, x, t),
         NEW A, NEW B, A \subseteq B, Started(s, A),
         At(s, 1) = Head(s) => x.trusted /\ (Submits(x) => x.form \in B)
  PROVE  Started(t, B)
<1>1. Len(s) \in Nat \ {0} /\ At(s, Len(s)) = Head(s)
  BY TopAt
<1>2. CASE Len(s) = 1
  BY <1>1, <1>2 DEF Started, Became
<1>3. CASE Len(s) # 1
  <2>1. At(t, 1) = At(s, 1) /\ s # <<>>
    BY <1>1, <1>3 DEF Became
  <2> QED
    BY <2>1 DEF Started
<1> QED
  BY <1>2, <1>3

\* What is canceled is the same event.
LEMMA StartedCancel ==
  ASSUME NEW s \in Seq(Frame), Len(s) > 1, NEW t, Canceled(s, t), NEW A, Started(s, A)
  PROVE  Started(t, A)
<1>1. Len(s) \in Nat /\ 1 \in 1..Len(s) /\ s # <<>>
  OBVIOUS
<1>2. At(s, 1) \in Frame
  BY <1>1, AtTyped
<1>3. At(t, 1) = At(s, 1) \/ At(t, 1) = [At(s, 1) EXCEPT !.prevented = TRUE]
  <2>1. \A n \in Nat : n > 1 => 1 \in 1 .. n - 2 \/ 1 = n - 1
    OBVIOUS
  <2>2. 1 \in 1 .. Len(s) - 2 \/ 1 = Len(s) - 1
    BY <1>1, <2>1
  <2> QED
    BY <2>2 DEF Canceled
<1>4. /\ At(t, 1).kind = At(s, 1).kind /\ At(t, 1).form = At(s, 1).form
      /\ At(t, 1).trusted = At(s, 1).trusted /\ At(t, 1).phase = At(s, 1).phase
      /\ At(t, 1).control = At(s, 1).control
  BY <1>2, <1>3 DEF Frame
<1> QED
  BY <1>1, <1>4 DEF Started, Submits

\* A call stays under way below what is pushed.
LEMMA CalledPush ==
  ASSUME NEW s \in Seq(Frame), NEW x, NEW t, Pushed(s, x, t), NEW P, Called(s, P)
  PROVE  Called(t, P) /\ (\A f : x = Call(f) => Called(t, P \cup {f}))
<1>1. Len(s) \in Nat /\ Len(t) = Len(s) + 1 /\ At(t, Len(t)) = x
  BY DEF Pushed
<1>2. Called(t, P)
  <2> SUFFICES ASSUME NEW f \in P PROVE \E h \in 1..Len(t) : At(t, h) = Call(f)
    BY DEF Called
  <2>1. PICK h \in 1..Len(s) : At(s, h) = Call(f)
    BY DEF Called
  <2>2. At(t, h) = At(s, h)
    BY DEF Pushed
  <2>3. h \in 1..Len(t)
    BY <1>1
  <2> QED
    BY <2>1, <2>2, <2>3
<1>3. ASSUME NEW f, x = Call(f) PROVE Called(t, P \cup {f})
  <2>1. Len(t) \in 1..Len(t) /\ At(t, Len(t)) = Call(f)
    BY <1>1, <1>3
  <2> QED
    BY <1>2, <2>1 DEF Called
<1> QED
  BY <1>2, <1>3

\* A call that is not at the top stays under way.
LEMMA CalledPop ==
  ASSUME NEW s \in Seq(Frame), s # <<>>, NEW t, Popped(s, t), NEW P, Called(s, P),
         NEW Q, Q \subseteq P, \A f \in Q : Head(s) # Call(f)
  PROVE  Called(t, Q)
<1>1. Len(s) \in Nat \ {0} /\ Len(t) = Len(s) - 1 /\ At(s, Len(s)) = Head(s)
  BY TopAt DEF Popped
<1> SUFFICES ASSUME NEW f \in Q PROVE \E h \in 1..Len(t) : At(t, h) = Call(f)
  BY DEF Called
<1>2. PICK h \in 1..Len(s) : At(s, h) = Call(f)
  BY DEF Called
<1>3. h \in 1..Len(t) /\ At(t, h) = At(s, h)
  BY <1>1, <1>2 DEF Popped
<1> QED
  BY <1>2, <1>3

\* So does one when an event at the top becomes another frame.
LEMMA CalledBecome ==
  ASSUME NEW s \in Seq(Frame), s # <<>>, Head(s).kind # "call", NEW x, NEW t, Became(s, x, t),
         NEW P, Called(s, P), NEW Q, Q \subseteq P
  PROVE  Called(t, Q)
<1>1. Len(s) \in Nat \ {0} /\ Len(t) = Len(s) /\ At(s, Len(s)) = Head(s)
  BY TopAt DEF Became
<1> SUFFICES ASSUME NEW f \in Q PROVE \E h \in 1..Len(t) : At(t, h) = Call(f)
  BY DEF Called
<1>2. PICK h \in 1..Len(s) : At(s, h) = Call(f)
  BY DEF Called
<1>3. Call(f).kind = "call"
  BY DEF Call, Event
<1>4. h \in 1..Len(t) /\ At(t, h) = At(s, h)
  BY <1>1, <1>2, <1>3 DEF Became
<1> QED
  BY <1>2, <1>4

\* Or when an event is canceled.
LEMMA CalledCancel ==
  ASSUME NEW s \in Seq(Frame), Len(s) > 1, Layered(s), Head(s).kind = "script",
         NEW t, Canceled(s, t), NEW P, Called(s, P)
  PROVE  Called(t, P)
<1>1. Len(s) \in Nat \ {0} /\ Len(t) = Len(s) /\ At(s, Len(s)) = Head(s) /\ Len(s) \in 2..Len(s)
  BY TopAt DEF Canceled
<1>2. At(s, Len(s) - 1).kind \in Happenings
  BY <1>1 DEF Layered, Lies
<1> SUFFICES ASSUME NEW f \in P PROVE \E h \in 1..Len(t) : At(t, h) = Call(f)
  BY DEF Called
<1>3. PICK h \in 1..Len(s) : At(s, h) = Call(f)
  BY DEF Called
<1>4. Call(f).kind = "call"
  BY DEF Call, Event
<1>5. h # Len(s) - 1
  BY <1>2, <1>3, <1>4 DEF Happenings
<1>6. h \in 1..Len(t) /\ At(t, h) = At(s, h)
  BY <1>1, <1>3, <1>5 DEF Canceled
<1> QED
  BY <1>3, <1>6
-----------------------------------------------------------------------------
(* The steps that give no form another credit. *)

\* The credits of a form are natural numbers.
LEMMA ClaimsTyped ==
  ASSUME TypeOK, NEW f \in Forms
  PROVE  /\ submitted[f] \in Nat /\ activations[f] \in Nat /\ Count(stack, f) \in Nat
         /\ Standing(f) \in Nat
<1>1. \A S : One(S, f) \in Nat
  BY DEF One
<1>2. Standing(f) \in Nat
  BY <1>1 DEF Standing
<1> QED
  BY <1>2, CountTyped DEF TypeOK

\* Fewer permissions stand for less.
LEMMA StandingLess ==
  ASSUME NEW f, authorizedForms' \subseteq authorizedForms, activationForms' \subseteq activationForms,
         allowedFormEvents' \subseteq allowedFormEvents, restores' \subseteq restores
  PROVE  /\ Standing(f) \in Nat /\ Standing(f)' \in Nat /\ Standing(f)' <= Standing(f)
         /\ f \in allowedFormEvents \ allowedFormEvents' \/ f \in authorizedForms \ authorizedForms'
              \/ f \in activationForms \ activationForms' => Standing(f)' < Standing(f)
  BY DEF Standing, One

\* A step that submits nothing and hands out no permission keeps the credits.
LEMMA CreditKept ==
  ASSUME GuardInv, stack' \in Seq(Frame), \A f \in Forms : Count(stack', f) <= Count(stack, f),
         authorizedForms' \subseteq authorizedForms, activationForms' \subseteq activationForms,
         allowedFormEvents' \subseteq allowedFormEvents, restores' \subseteq restores,
         submitted' = submitted, activations' = activations
  PROVE  CreditInv'
<1> SUFFICES ASSUME NEW f \in Forms PROVE Claims(f)' <= activations'[f]
  BY DEF CreditInv
<1>1. Claims(f) <= activations[f] /\ TypeOK
  BY DEF GuardInv, CreditInv
<1>2. /\ submitted[f] \in Nat /\ activations[f] \in Nat /\ Count(stack, f) \in Nat
      /\ Count(stack', f) \in Nat /\ Count(stack', f) <= Count(stack, f)
  BY <1>1, ClaimsTyped, CountTyped
<1>3. Standing(f) \in Nat /\ Standing(f)' \in Nat /\ Standing(f)' <= Standing(f)
  BY StandingLess
<1> QED
  BY <1>1, <1>2, <1>3 DEF Claims

\* What the user does.
LEMMA GestureKeeps ==
  ASSUME GuardInv, NEW f \in Forms,
         (\E c \in Controls : UserClick(f, c)) \/ UserEnter(f)
  PROVE  GuardInv'
<1>1. PICK x \in Frame : /\ stack = <<>> /\ stack' = <<x>> \o stack /\ x.phase = "before"
                         /\ x.kind \in {"click", "key"} /\ x.form = f /\ x.trusted
  <2>1. CASE UserEnter(f)
    <3>1. Event("key", f, "other", TRUE) \in Frame
      BY FramesMade DEF Controls
    <3> QED
      BY <2>1, <3>1 DEF UserEnter, Gesture, Idle, Push, Event
  <2>2. ASSUME NEW c \in Controls, UserClick(f, c)
        PROVE  \E x \in Frame : /\ stack = <<>> /\ stack' = <<x>> \o stack /\ x.phase = "before"
                                /\ x.kind \in {"click", "key"} /\ x.form = f /\ x.trusted
    <3>1. Event("click", f, c, TRUE) \in Frame
      BY FramesMade
    <3> QED
      BY <2>2, <3>1 DEF UserClick, Gesture, Idle, Push, Event
  <2> QED
    BY <2>1, <2>2
<1>2. /\ UNCHANGED <<guard, activations, submitted, refused, latest>> /\ spent' = {}
  BY DEF UserClick, UserEnter, Gesture
<1>3. stack \in Seq(Frame) /\ Pushed(stack, x, stack')
  BY <1>1, PushAt DEF GuardInv, TypeOK
<1>4. TypeOK' /\ refused' \subseteq Forms \X {TRUE}
  BY <1>2, <1>3 DEF GuardInv, TypeOK, guard, Pushed
<1>5. Layered(stack')
  <2>1. Layered(stack)
    BY DEF GuardInv
  <2> QED
    BY <1>1, <1>3, <2>1, LayerPush
<1>6. At(stack', 1) = x
  BY <1>1, <1>3 DEF Pushed
<1>7. Started(stack', authorizedForms' \cup spent')
  BY <1>1, <1>6 DEF Started, Submits
<1>8. Called(stack', allowedFormEvents')
  BY <1>2, <1>3, CalledPush DEF GuardInv, guard
<1>9. CreditInv'
  <2>1. \A g \in Forms : Count(stack', g) <= Count(stack, g)
    BY <1>1, <1>3, CountPush
  <2>2. stack' \in Seq(Frame)
    BY <1>3 DEF Pushed
  <2> QED
    BY <1>2, <2>1, <2>2, CreditKept DEF guard
<1> QED
  BY <1>4, <1>5, <1>7, <1>8, <1>9 DEF GuardInv

\* The end of an activation, by the timer or by the user.
LEMMA ExpiryKeeps ==
  ASSUME GuardInv, UserInteracts \/ \E f \in Forms : Expire(f)
  PROVE  GuardInv'
<1>1. /\ UNCHANGED <<authorizedForms, allowedFormEvents, restores, stack, activations,
                     submitted, spent, refused>>
      /\ activationForms' \subseteq activationForms /\ latest' \in {latest, NoForm}
  BY DEF UserInteracts, Expire, history
<1>2. TypeOK' /\ refused' \subseteq Forms \X {TRUE}
  BY <1>1 DEF GuardInv, TypeOK
<1>3. stack' \in Seq(Frame) /\ \A f \in Forms : Count(stack', f) <= Count(stack, f)
  BY <1>1, CountTyped DEF GuardInv, TypeOK
<1>4. CreditInv'
  BY <1>1, <1>3, CreditKept
<1> QED
  BY <1>1, <1>2, <1>4 DEF GuardInv

\* Page code begins, and dispatches events of its own.
LEMMA PagePushKeeps ==
  ASSUME GuardInv, RunScript \/ \E kind \in {"click", "submit"}, f \in Forms : CallDispatch(kind, f)
  PROVE  GuardInv'
<1>1. PICK x \in Frame :
        /\ stack' = <<x>> \o stack /\ x.phase = "before" /\ x.kind # "call"
        /\ x.kind # "script" => x.form \in Forms
        /\ stack # <<>> => Lies(x, Head(stack))
        /\ stack = <<>> => x.kind = "script"
  <2>1. CASE RunScript
    <3>1. Script \in Frame
      BY FramesMade DEF Controls, Script
    <3> QED
      BY <2>1, <3>1 DEF RunScript, Idle, Push, Script, Event, Lies, Happenings, Top
  <2>2. ASSUME NEW kind \in {"click", "submit"}, NEW f \in Forms, CallDispatch(kind, f)
        PROVE  \E x \in Frame :
                 /\ stack' = <<x>> \o stack /\ x.phase = "before" /\ x.kind # "call"
                 /\ x.kind # "script" => x.form \in Forms
                 /\ stack # <<>> => Lies(x, Head(stack))
                 /\ stack = <<>> => x.kind = "script"
    <3> DEFINE x == Event(kind, f, IF kind = "click" THEN "submit" ELSE "other", FALSE)
    <3>1. x \in Frame
      BY FramesMade DEF Controls
    <3>2. x.kind = kind /\ x.form = f /\ x.phase = "before"
      BY DEF Event
    <3>3. stack' = <<x>> \o stack /\ stack # <<>> /\ Head(stack).kind = "script"
      BY <2>2 DEF CallDispatch, Calling, Running, Push, Top
    <3>4. Lies(x, Head(stack))
      BY <3>2, <3>3 DEF Lies, Happenings
    <3> HIDE DEF x
    <3> QED
      BY <3>1, <3>2, <3>3, <3>4
  <2> QED
    BY <2>1, <2>2
<1>2. UNCHANGED <<guard, history>>
  BY DEF RunScript, CallDispatch, Calling, guard, history
<1>3. stack \in Seq(Frame) /\ Pushed(stack, x, stack')
  BY <1>1, PushAt DEF GuardInv, TypeOK
<1>4. TypeOK' /\ refused' \subseteq Forms \X {TRUE}
  BY <1>2, <1>3 DEF GuardInv, TypeOK, guard, history, Pushed
<1>5. Layered(stack')
  <2>1. Layered(stack)
    BY DEF GuardInv
  <2> QED
    BY <1>1, <1>3, <2>1, LayerPush
<1>6. Started(stack', authorizedForms' \cup spent')
  <2>1. CASE stack = <<>>
    <3>1. At(stack', 1) = x
      BY <1>3, <2>1 DEF Pushed
    <3> QED
      BY <1>1, <2>1, <3>1 DEF Started
  <2>2. CASE stack # <<>>
    <3>1. Started(stack, authorizedForms \cup spent)
      BY DEF GuardInv
    <3>2. authorizedForms \cup spent \subseteq authorizedForms' \cup spent'
      BY <1>2 DEF guard, history
    <3> QED
      BY <1>3, <2>2, <3>1, <3>2, StartedPush
  <2> QED
    BY <2>1, <2>2
<1>7. Called(stack', allowedFormEvents')
  BY <1>2, <1>3, CalledPush DEF GuardInv, guard
<1>8. CreditInv'
  <2>1. \A g \in Forms : Count(stack', g) <= Count(stack, g)
    BY <1>1, <1>3, CountPush
  <2>2. stack' \in Seq(Frame)
    BY <1>3 DEF Pushed
  <2> QED
    BY <1>2, <2>1, <2>2, CreditKept DEF guard, history
<1> QED
  BY <1>4, <1>5, <1>6, <1>7, <1>8 DEF GuardInv

\* Page code cancels the event it handles.
LEMMA PreventKeeps ==
  ASSUME GuardInv, PreventDefault
  PROVE  GuardInv'
<1>1. stack # <<>> /\ Head(stack).kind = "script" /\ Len(stack) > 1 /\ stack \in Seq(Frame)
  BY DEF PreventDefault, Running, Top, GuardInv, TypeOK
<1>2. Canceled(stack, stack')
  <2>1. stack' = <<Head(stack)>> \o <<[stack[2] EXCEPT !.prevented = TRUE]>> \o Tail(Tail(stack))
    BY DEF PreventDefault, Top
  <2> QED
    BY <1>1, <2>1, PreventAt
<1>3. UNCHANGED <<guard, history>>
  BY DEF PreventDefault
<1>4. TypeOK' /\ refused' \subseteq Forms \X {TRUE}
  BY <1>2, <1>3 DEF GuardInv, TypeOK, guard, history, Canceled
<1>5. Layered(stack')
  BY <1>1, <1>2, LayerCancel DEF GuardInv
<1>6. Started(stack', authorizedForms' \cup spent')
  BY <1>1, <1>2, <1>3, StartedCancel DEF GuardInv, guard, history
<1>7. Called(stack', allowedFormEvents')
  BY <1>1, <1>2, <1>3, CalledCancel DEF GuardInv, guard
<1>8. CreditInv'
  <2>1. \A g \in Forms : Count(stack', g) <= Count(stack, g)
    BY <1>1, <1>2, CountCancel
  <2>2. stack' \in Seq(Frame)
    BY <1>2 DEF Canceled
  <2> QED
    BY <1>3, <2>1, <2>2, CreditKept DEF guard, history
<1> QED
  BY <1>4, <1>5, <1>6, <1>7, <1>8 DEF GuardInv
-----------------------------------------------------------------------------
(* The ends of events, calls and page code. *)

\* What is popped leaves the rest in order, if no permission is handed out and a call
\* that returns takes its own.
LEMMA PopKeeps ==
  ASSUME GuardInv, stack # <<>>, stack' = Tail(stack),
         authorizedForms \cup spent \subseteq authorizedForms' \cup spent',
         allowedFormEvents' \subseteq allowedFormEvents,
         \A f \in allowedFormEvents' : Head(stack) # Call(f)
  PROVE  /\ Popped(stack, stack') /\ stack' \in Seq(Frame) /\ stack \in Seq(Frame)
         /\ Layered(stack') /\ Started(stack', authorizedForms' \cup spent')
         /\ Called(stack', allowedFormEvents')
         /\ \A f \in Forms : /\ Count(stack', f) <= Count(stack, f)
                             /\ Owes(stack, Len(stack), f) => Count(stack', f) = Count(stack, f) - 1
<1>1. stack \in Seq(Frame) /\ Popped(stack, stack') /\ stack' \in Seq(Frame)
  BY PopAt DEF GuardInv, TypeOK, Popped
<1>2. Layered(stack')
  BY <1>1, LayerPop DEF GuardInv
<1>3. Started(stack', authorizedForms' \cup spent')
  BY <1>1, StartedPop DEF GuardInv
<1>4. Called(stack', allowedFormEvents')
  BY <1>1, CalledPop DEF GuardInv
<1>5. \A f \in Forms : /\ Count(stack', f) <= Count(stack, f)
                       /\ Owes(stack, Len(stack), f) => Count(stack', f) = Count(stack, f) - 1
  BY <1>1, CountPop
<1> QED
  BY <1>1, <1>2, <1>3, <1>4, <1>5

\* A submit method returns.
LEMMA CallReturnsKeeps ==
  ASSUME GuardInv, CallReturns
  PROVE  GuardInv'
<1>1. /\ stack # <<>> /\ stack' = Tail(stack) /\ Head(stack).kind = "call"
      /\ allowedFormEvents' = allowedFormEvents \ {Head(stack).form}
      /\ UNCHANGED <<authorizedForms, activationForms, restores, history>>
  BY DEF CallReturns, Running, Pop, Top
<1>2. \A f \in allowedFormEvents' : Head(stack) # Call(f)
  BY <1>1 DEF Call, Event
<1>3. /\ Popped(stack, stack') /\ stack' \in Seq(Frame)
      /\ Layered(stack') /\ Started(stack', authorizedForms' \cup spent')
      /\ Called(stack', allowedFormEvents')
      /\ \A f \in Forms : Count(stack', f) <= Count(stack, f)
  BY <1>1, <1>2, PopKeeps DEF history
<1>4. TypeOK' /\ refused' \subseteq Forms \X {TRUE}
  BY <1>1, <1>3 DEF GuardInv, TypeOK, history
<1>5. CreditInv'
  BY <1>1, <1>3, CreditKept DEF history
<1> QED
  BY <1>3, <1>4, <1>5 DEF GuardInv

\* Page code returns, and the microtasks run when none is left.
LEMMA ScriptReturnsKeeps ==
  ASSUME GuardInv, ScriptReturns
  PROVE  GuardInv'
<1>1. /\ stack # <<>> /\ stack' = Tail(stack) /\ Head(stack).kind = "script"
      /\ UNCHANGED <<activationForms, allowedFormEvents, history>>
      /\ \/ UNCHANGED <<authorizedForms, restores>>
         \/ authorizedForms' = authorizedForms \cup restores /\ restores' = {}
  BY DEF ScriptReturns, Running, Pop, Top
<1>2. \A f \in allowedFormEvents' : Head(stack) # Call(f)
  BY <1>1 DEF Call, Event
<1>3. /\ Popped(stack, stack') /\ stack' \in Seq(Frame)
      /\ Layered(stack') /\ Started(stack', authorizedForms' \cup spent')
      /\ Called(stack', allowedFormEvents')
      /\ \A f \in Forms : Count(stack', f) <= Count(stack, f)
  BY <1>1, <1>2, PopKeeps DEF history
<1>4. TypeOK' /\ refused' \subseteq Forms \X {TRUE}
  BY <1>1, <1>3 DEF GuardInv, TypeOK, history
<1>5. CreditInv'
  <2> SUFFICES ASSUME NEW f \in Forms PROVE Claims(f)' <= activations'[f]
    BY DEF CreditInv
  <2>1. Claims(f) <= activations[f] /\ TypeOK
    BY DEF GuardInv, CreditInv
  <2>2. /\ submitted[f] \in Nat /\ activations[f] \in Nat /\ Count(stack, f) \in Nat
        /\ Standing(f) \in Nat
    BY <2>1, ClaimsTyped
  <2>3. Count(stack', f) \in Nat /\ Count(stack', f) <= Count(stack, f)
    BY <1>3, CountTyped
  <2>4. Standing(f)' \in Nat /\ Standing(f)' <= Standing(f)
    <3>1. CASE UNCHANGED <<authorizedForms, restores>>
      BY <1>1, <3>1, StandingLess
    <3>2. CASE authorizedForms' = authorizedForms \cup restores /\ restores' = {}
      BY <1>1, <3>2 DEF Standing, One
    <3> QED
      BY <1>1, <3>1, <3>2
  <2>5. submitted' = submitted /\ activations' = activations
    BY <1>1 DEF history
  <2> QED
    BY <2>1, <2>2, <2>3, <2>4, <2>5 DEF Claims
<1> QED
  BY <1>3, <1>4, <1>5 DEF GuardInv

\* A submit event of the user's that is refused has had its authorization used up.
LEMMA RefusalKeeps ==
  ASSUME GuardInv, GuardRefusesSubmit
  PROVE  GuardInv'
<1>1. /\ stack # <<>> /\ stack' = Tail(stack) /\ Head(stack).kind = "submit"
      /\ Head(stack).phase = "before" /\ Head(stack).form \notin allowedFormEvents \cup authorizedForms
      /\ UNCHANGED <<guard, activations, submitted, spent, latest>>
  BY DEF GuardRefusesSubmit, Dispatching, Pop, Top
<1>2. \A f \in allowedFormEvents' : Head(stack) # Call(f)
  BY <1>1 DEF Call, Event
<1>3. /\ Popped(stack, stack') /\ stack' \in Seq(Frame) /\ stack \in Seq(Frame)
      /\ Layered(stack') /\ Started(stack', authorizedForms' \cup spent')
      /\ Called(stack', allowedFormEvents')
      /\ \A f \in Forms : Count(stack', f) <= Count(stack, f)
  BY <1>1, <1>2, PopKeeps DEF guard
<1>4. Len(stack) \in Nat \ {0} /\ At(stack, Len(stack)) = Head(stack) /\ Head(stack).form \in Forms
  <2>1. Len(stack) \in Nat \ {0} /\ At(stack, Len(stack)) = Head(stack)
    BY <1>1, <1>3, TopAt
  <2>2. Len(stack) \in 1..Len(stack)
    BY <2>1
  <2>3. At(stack, Len(stack)).form \in Forms
    BY <1>1, <2>1, <2>2 DEF GuardInv, Layered
  <2> QED
    BY <2>1, <2>3
<1>5. ASSUME ~Scripted(stack) PROVE Head(stack).form \in spent
  <2>1. \A g \in 1 .. Len(stack) - 1 : At(stack, g).kind # "script"
    BY <1>1, <1>3, <1>5, ScriptedBelow
  <2>2. CASE Len(stack) = 1
    BY <1>1, <1>4, <2>2 DEF GuardInv, Started, Submits
  <2>3. CASE Len(stack) # 1
    <3>1. 1 \in 1 .. Len(stack) - 1 /\ 2 \in 2..Len(stack)
      BY <1>4, <2>3
    <3>2. At(stack, 1).kind # "script" /\ Lies(At(stack, 2), At(stack, 1))
      BY <2>1, <3>1 DEF GuardInv, Layered
    <3>3. At(stack, 1).kind # "call"
      BY <1>1 DEF GuardInv, Layered
    <3>4. At(stack, 2).kind # "script"
      <4>1. CASE Len(stack) = 2
        BY <4>1, <1>1, <1>4
      <4>2. CASE Len(stack) # 2
        <5>0. \A n \in Nat : n # 0 /\ n # 1 /\ n # 2 => 2 \in 1 .. n - 1
          OBVIOUS
        <5>1. 2 \in 1 .. Len(stack) - 1
          BY <1>4, <2>3, <4>2, <5>0
        <5> QED
          BY <2>1, <5>1
      <4> QED
        BY <4>1, <4>2
    <3>5. At(stack, 2).kind \in Happenings \cup {"script", "call"}
      <4>1. 2 \in 1..Len(stack)
        BY <1>4, <3>1
      <4>2. At(stack, 2) \in Frame
        BY <1>3, <4>1, AtTyped
      <4> QED
        BY <4>2 DEF Frame, Happenings
    <3> QED
      BY <3>2, <3>3, <3>4, <3>5 DEF Lies
  <2> QED
    BY <2>2, <2>3
<1>6. refused' \subseteq Forms \X {TRUE}
  <2>1. CASE ~Scripted(stack)
    <3> DEFINE b == Head(stack).form \in spent
               row == <<Head(stack).form, b>>
    <3>1. b = TRUE
      BY <1>5, <2>1
    <3>2. refused' = refused \/ refused' = refused \cup {row}
      BY DEF GuardRefusesSubmit, Top
    <3>3. row = <<Head(stack).form, TRUE>>
      <4> HIDE DEF b
      <4> QED
        BY <3>1
    <3>4. row \in Forms \X {TRUE}
      <4> HIDE DEF row
      <4> QED
        BY <3>3, <1>4
    <3> HIDE DEF row
    <3> QED
      BY <3>2, <3>4 DEF GuardInv
  <2>2. CASE Scripted(stack)
    <3>1. refused' = refused
      BY <2>2 DEF GuardRefusesSubmit
    <3> QED
      BY <3>1 DEF GuardInv
  <2> QED
    BY <2>1, <2>2
<1>7. TypeOK'
  BY <1>1, <1>3 DEF GuardInv, TypeOK, guard
<1>8. CreditInv'
  BY <1>1, <1>3, CreditKept DEF guard
<1> QED
  BY <1>3, <1>6, <1>7, <1>8 DEF GuardInv
\* A submission takes place, or its authorization is kept for the microtask.
LEMMA SubmitDoneKeeps ==
  ASSUME GuardInv, SubmitDone
  PROVE  GuardInv'
<1> DEFINE x == Head(stack)
<1>1. /\ stack # <<>> /\ stack' = Tail(stack) /\ x.kind = "submit" /\ x.phase = "after"
      /\ UNCHANGED <<authorizedForms, activationForms, allowedFormEvents, activations,
                     spent, refused, latest>>
      /\ submitted' = IF x.trusted /\ ~x.prevented
                      THEN [submitted EXCEPT ![x.form] = @ + 1] ELSE submitted
      /\ restores' = IF x.trusted /\ x.used /\ x.prevented /\ Scripted(stack)
                     THEN restores \cup {x.form} ELSE restores
  BY DEF SubmitDone, Dispatching, Pop, Top, UsedAndCanceled
<1>2. \A f \in allowedFormEvents' : Head(stack) # Call(f)
  BY <1>1 DEF Call, Event
<1>3. /\ Popped(stack, stack') /\ stack' \in Seq(Frame) /\ stack \in Seq(Frame)
      /\ Layered(stack') /\ Started(stack', authorizedForms' \cup spent')
      /\ Called(stack', allowedFormEvents')
      /\ \A f \in Forms : /\ Count(stack', f) <= Count(stack, f)
                          /\ Owes(stack, Len(stack), f) => Count(stack', f) = Count(stack, f) - 1
  BY <1>1, <1>2, PopKeeps
<1>4. /\ Len(stack) \in Nat \ {0} /\ At(stack, Len(stack)) = x /\ x \in Frame
      /\ Len(stack) \in 1..Len(stack)
  BY <1>1, <1>3, TopAt
<1>5. x.form \in Forms
  BY <1>1, <1>4 DEF GuardInv, Layered
<1> HIDE DEF x
<1>6. TypeOK' /\ refused' \subseteq Forms \X {TRUE}
  <2>1. submitted \in [Forms -> Nat] /\ restores \subseteq Forms
    BY DEF GuardInv, TypeOK
  <2>2. submitted' \in [Forms -> Nat] /\ restores' \subseteq Forms
    BY <1>1, <1>5, <2>1
  <2> QED
    BY <1>1, <1>3, <2>2 DEF GuardInv, TypeOK
<1>7. Scripted(stack) <=> \E g \in 1 .. Len(stack) - 1 : At(stack, g).kind = "script"
  BY <1>1, <1>3, ScriptedBelow DEF x
<1>8. x.trusted /\ (~x.prevented \/ (x.used /\ Scripted(stack))) => Owes(stack, Len(stack), x.form)
  BY <1>1, <1>4, <1>7 DEF Owes
<1>9. CreditInv'
  <2> SUFFICES ASSUME NEW f \in Forms PROVE Claims(f)' <= activations'[f]
    BY DEF CreditInv
  <2>1. Claims(f) <= activations[f] /\ TypeOK
    BY DEF GuardInv, CreditInv
  <2>2. /\ submitted[f] \in Nat /\ activations[f] \in Nat /\ Count(stack, f) \in Nat
        /\ Standing(f) \in Nat
    BY <2>1, ClaimsTyped
  <2>3. Count(stack', f) \in Nat /\ Count(stack', f) <= Count(stack, f)
    BY <1>3, CountTyped
  <2>4. Standing(f)' \in Nat /\ (restores' = restores => Standing(f)' = Standing(f))
    BY <1>1 DEF Standing, One
  <2>a. /\ submitted[f] + Count(stack, f) + Standing(f) <= activations[f]
        /\ activations'[f] = activations[f]
    BY <1>1, <2>1 DEF Claims
  <2>b. SUFFICES submitted'[f] + Count(stack', f) + Standing(f)' <= activations[f]
    BY <2>a DEF Claims
  <2>5. CASE f # x.form
    <3>1. submitted'[f] = submitted[f]
      BY <1>1, <2>1, <2>5, <1>5 DEF TypeOK
    <3>2. Standing(f)' = Standing(f)
      BY <1>1, <2>5 DEF Standing, One
    <3> QED
      BY <2>2, <2>3, <2>4, <2>a, <3>1, <3>2
  <2>6. CASE f = x.form /\ x.trusted /\ ~x.prevented
    <3>1. submitted'[f] = submitted[f] + 1 /\ restores' = restores
      BY <1>1, <2>1, <2>6, <1>5 DEF TypeOK
    <3>2. Count(stack', f) = Count(stack, f) - 1
      BY <1>3, <1>8, <2>6
    <3> QED
      BY <2>2, <2>3, <2>4, <2>a, <3>1, <3>2
  <2>7. CASE f = x.form /\ x.trusted /\ x.prevented /\ x.used /\ Scripted(stack)
    <3>1. submitted' = submitted
      BY <1>1, <2>7
    <3>2. Standing(f)' <= Standing(f) + 1
      BY <1>1, <2>7 DEF Standing, One
    <3>3. Count(stack', f) = Count(stack, f) - 1
      BY <1>3, <1>8, <2>7
    <3>4. Count(stack', f) + Standing(f)' <= Count(stack, f) + Standing(f)
      BY <2>2, <2>3, <2>4, <3>2, <3>3
    <3> QED
      BY <2>2, <2>3, <2>4, <2>a, <3>1, <3>4
  <2>8. CASE /\ ~(x.trusted /\ ~x.prevented)
             /\ ~(x.trusted /\ x.prevented /\ x.used /\ Scripted(stack))
    <3>1. submitted' = submitted /\ restores' = restores
      BY <1>1, <2>8
    <3> QED
      BY <2>2, <2>3, <2>4, <2>a, <3>1
  <2> QED
    BY <2>5, <2>6, <2>7, <2>8
<1> QED
  BY <1>3, <1>6, <1>9 DEF GuardInv

-----------------------------------------------------------------------------
(* The events, as they pass the guard and the browser. *)

\* An event that becomes another one leaves the rest in order.
LEMMA BecomeKeeps ==
  ASSUME GuardInv, stack # <<>>, Head(stack).kind \in Happenings,
         NEW x \in Frame, stack' = <<x>> \o Tail(stack),
         x.kind \in Happenings, x.form \in Forms,
         authorizedForms \cup spent \subseteq authorizedForms' \cup spent',
         allowedFormEvents' \subseteq allowedFormEvents,
         Head(stack).trusted /\ (Submits(Head(stack)) => Head(stack).form \in authorizedForms \cup spent)
           => x.trusted /\ (Submits(x) => x.form \in authorizedForms' \cup spent')
  PROVE  /\ Became(stack, x, stack') /\ stack' \in Seq(Frame) /\ stack \in Seq(Frame)
         /\ Layered(stack') /\ Started(stack', authorizedForms' \cup spent')
         /\ Called(stack', allowedFormEvents')
         /\ \A f \in Forms : /\ Count(stack', f) <= Count(stack, f) + 1
                             /\ ~Owes(stack', Len(stack), f) => Count(stack', f) <= Count(stack, f)
<1>1. stack \in Seq(Frame) /\ Became(stack, x, stack') /\ stack' \in Seq(Frame)
  BY BecomeAt DEF GuardInv, TypeOK, Became
<1>2. Layered(stack')
  BY <1>1, LayerBecome DEF GuardInv
<1>3. Started(stack', authorizedForms' \cup spent')
  <2> DEFINE A == authorizedForms \cup spent
             B == authorizedForms' \cup spent'
  <2>1. Started(stack, A) /\ A \subseteq B
    BY DEF GuardInv
  <2>2. At(stack, 1) = Head(stack) => x.trusted /\ (Submits(x) => x.form \in B)
    BY <2>1 DEF Started, Happenings
  <2> HIDE DEF A, B
  <2>3. Started(stack', B)
    BY <1>1, <2>1, <2>2, StartedBecome
  <2> QED
    BY <2>3 DEF B
<1>4. Called(stack', allowedFormEvents')
  <2>1. Head(stack).kind # "call"
    BY DEF Happenings
  <2> QED
    BY <1>1, <2>1, CalledBecome DEF GuardInv
<1>5. \A f \in Forms : /\ Count(stack', f) <= Count(stack, f) + 1
                       /\ ~Owes(stack', Len(stack), f) => Count(stack', f) <= Count(stack, f)
  BY <1>1, CountBecome
<1> QED
  BY <1>1, <1>2, <1>3, <1>4, <1>5

\* The event at the top of the stack, on its way through the listeners.
LEMMA TopEvent ==
  ASSUME GuardInv, NEW kind \in {"click", "key", "submit"}, NEW phase, Dispatching(kind, phase)
  PROVE  /\ stack # <<>> /\ stack \in Seq(Frame) /\ Head(stack) \in Frame /\ Top = Head(stack)
         /\ Head(stack).kind = kind /\ Head(stack).phase = phase
         /\ Head(stack).kind \in Happenings /\ Head(stack).form \in Forms
         /\ Len(stack) \in Nat \ {0} /\ At(stack, Len(stack)) = Head(stack)
         /\ \A f : Head(stack) # Call(f)
<1>1. stack # <<>> /\ stack \in Seq(Frame) /\ Head(stack).kind = kind /\ Head(stack).phase = phase
  BY DEF Dispatching, Top, GuardInv, TypeOK
<1>2. Len(stack) \in Nat \ {0} /\ At(stack, Len(stack)) = Head(stack) /\ Head(stack) \in Frame
  BY <1>1, TopAt
<1>3. Len(stack) \in 1..Len(stack)
  BY <1>2
<1>4. Head(stack).form \in Forms
  BY <1>1, <1>2, <1>3 DEF GuardInv, Layered
<1>5. \A f : Head(stack) # Call(f)
  BY <1>1 DEF Call, Event
<1> QED
  BY <1>1, <1>2, <1>4, <1>5 DEF Happenings, Top
\* A click the user has not made is ignored.
LEMMA UntrustedClickKeeps ==
  ASSUME GuardInv, GuardUntrustedClick
  PROVE  GuardInv'
<1> DEFINE x == [Head(stack) EXCEPT !.phase = "after"]
<1>1. Dispatching("click", "before") /\ ~Top.trusted /\ UNCHANGED <<guard, history, bounds>>
  BY DEF GuardUntrustedClick
<1>2. /\ stack # <<>> /\ stack \in Seq(Frame) /\ Head(stack) \in Frame /\ ~Head(stack).trusted
      /\ Head(stack).kind = "click" /\ Head(stack).kind \in Happenings /\ Head(stack).form \in Forms
      /\ stack' = <<x>> \o Tail(stack)
  BY <1>1, TopEvent DEF GuardUntrustedClick, Become
<1>3. x \in Frame /\ x.kind = "click" /\ x.form = Head(stack).form
  BY <1>2, FramePassed
<1> HIDE DEF x
<1>4. /\ Became(stack, x, stack') /\ stack' \in Seq(Frame)
      /\ Layered(stack') /\ Started(stack', authorizedForms' \cup spent')
      /\ Called(stack', allowedFormEvents')
      /\ \A f \in Forms : ~Owes(stack', Len(stack), f) => Count(stack', f) <= Count(stack, f)
  BY <1>1, <1>2, <1>3, BecomeKeeps DEF guard, history, Happenings
<1>5. \A f \in Forms : Count(stack', f) <= Count(stack, f)
  BY <1>3, <1>4 DEF Owes, Became
<1>6. TypeOK' /\ refused' \subseteq Forms \X {TRUE}
  BY <1>1, <1>4 DEF GuardInv, TypeOK, guard, history
<1>7. CreditInv'
  BY <1>1, <1>4, <1>5, CreditKept DEF guard, history
<1> QED
  BY <1>4, <1>6, <1>7 DEF GuardInv

\* The user's activation of a form: by a click, or by Enter.
LEMMA ActivationKeeps ==
  ASSUME GuardInv, GuardClick \/ GuardKeydown
  PROVE  GuardInv'
<1> DEFINE x == [Head(stack) EXCEPT !.phase = "after"]
<1>1. PICK kind \in {"click", "key"} : Dispatching(kind, "before")
  BY DEF GuardClick, GuardKeydown
<1>2. /\ stack # <<>> /\ stack \in Seq(Frame) /\ Head(stack) \in Frame /\ Top = Head(stack)
      /\ Head(stack).kind = kind /\ Head(stack).kind \in Happenings /\ Head(stack).form \in Forms
      /\ stack' = <<x>> \o Tail(stack)
  BY <1>1, TopEvent DEF GuardClick, GuardKeydown, Become
<1>3. /\ x \in Frame /\ x.kind = kind /\ x.form = Head(stack).form /\ x.phase = "after"
      /\ x.trusted = Head(stack).trusted /\ x.control = Head(stack).control
  BY <1>2, FramePassed
<1>4. /\ UNCHANGED <<allowedFormEvents, restores, submitted, spent, refused>>
      /\ authorizedForms \subseteq authorizedForms'
      /\ authorizedForms' \subseteq authorizedForms \cup {x.form}
      /\ activationForms' \subseteq {x.form} /\ latest' \in {x.form, NoForm}
      /\ \/ authorizedForms' = authorizedForms /\ activationForms' = {} /\ activations' = activations
         \/ /\ authorizedForms' = authorizedForms \/ activationForms' = {}
            /\ activations' = [activations EXCEPT ![x.form] = @ + 1]
      /\ Submits(x) => x.form \in authorizedForms'
  <2>1. CASE GuardKeydown
    <3>1. kind = "key"
      BY <1>2, <2>1 DEF GuardKeydown, Dispatching
    <3> HIDE DEF x
    <3> QED
      BY <1>2, <1>3, <2>1 DEF GuardKeydown, Activates
  <2>2. CASE GuardClick
    <3>1. kind = "click"
      BY <1>2, <2>2 DEF GuardClick, Dispatching
    <3>2. Submits(x) => x.control = "submit"
      BY <1>3, <3>1 DEF Submits
    <3> HIDE DEF x
    <3> QED
      BY <1>2, <1>3, <2>2, <3>2 DEF GuardClick, Activates
  <2> QED
    BY <2>1, <2>2
<1> HIDE DEF x
<1>5. /\ Became(stack, x, stack') /\ stack' \in Seq(Frame)
      /\ Layered(stack') /\ Started(stack', authorizedForms' \cup spent')
      /\ Called(stack', allowedFormEvents')
      /\ \A f \in Forms : ~Owes(stack', Len(stack), f) => Count(stack', f) <= Count(stack, f)
  <2>1. x.kind \in Happenings /\ authorizedForms \cup spent \subseteq authorizedForms' \cup spent'
    BY <1>2, <1>3, <1>4
  <2>2. Head(stack).trusted => x.trusted /\ (Submits(x) => x.form \in authorizedForms' \cup spent')
    BY <1>3, <1>4
  <2> QED
    BY <1>2, <1>3, <1>4, <2>1, <2>2, BecomeKeeps
<1>6. \A f \in Forms : Count(stack', f) <= Count(stack, f)
  BY <1>2, <1>3, <1>5 DEF Owes, Became
<1>7. TypeOK' /\ refused' \subseteq Forms \X {TRUE}
  <2>1. activations \in [Forms -> Nat] /\ authorizedForms \subseteq Forms
    BY DEF GuardInv, TypeOK
  <2>2. activations' \in [Forms -> Nat] /\ authorizedForms' \subseteq Forms
    BY <1>2, <1>3, <1>4, <2>1
  <2>3. activationForms' \subseteq Forms /\ latest' \in Forms \cup {NoForm}
    BY <1>2, <1>3, <1>4
  <2> QED
    BY <1>4, <1>5, <2>2, <2>3 DEF GuardInv, TypeOK
<1>8. CreditInv'
  <2> SUFFICES ASSUME NEW f \in Forms PROVE Claims(f)' <= activations'[f]
    BY DEF CreditInv
  <2>1. Claims(f) <= activations[f] /\ TypeOK
    BY DEF GuardInv, CreditInv
  <2>2. /\ submitted[f] \in Nat /\ activations[f] \in Nat /\ Count(stack, f) \in Nat
        /\ Standing(f) \in Nat
    BY <2>1, ClaimsTyped
  <2>3. Count(stack', f) \in Nat /\ Count(stack', f) <= Count(stack, f)
    BY <1>5, <1>6, CountTyped
  <2>4. CASE activations' = activations /\ authorizedForms' = authorizedForms /\ activationForms' = {}
    <3>1. Standing(f)' \in Nat /\ Standing(f)' <= Standing(f)
      BY <1>4, <2>4, StandingLess
    <3> QED
      BY <1>4, <2>1, <2>2, <2>3, <2>4, <3>1 DEF Claims
  <2>5. CASE /\ authorizedForms' = authorizedForms \/ activationForms' = {}
             /\ activations' = [activations EXCEPT ![x.form] = @ + 1]
    <3>1. CASE f = x.form
      <4>1. Standing(f)' \in Nat /\ Standing(f)' <= Standing(f) + 1
        BY <1>4, <2>5 DEF Standing, One
      <4>2. activations'[f] = activations[f] + 1
        BY <2>1, <2>5, <3>1 DEF TypeOK
      <4> QED
        BY <1>4, <2>1, <2>2, <2>3, <4>1, <4>2 DEF Claims
    <3>2. CASE f # x.form
      <4>1. Standing(f)' \in Nat /\ Standing(f)' <= Standing(f)
        BY <1>4, <3>2 DEF Standing, One
      <4>2. activations'[f] = activations[f]
        BY <2>1, <2>5, <3>2 DEF TypeOK
      <4> QED
        BY <1>4, <2>1, <2>2, <2>3, <4>1, <4>2 DEF Claims
    <3> QED
      BY <3>1, <3>2
  <2> QED
    BY <1>4, <2>4, <2>5
<1> QED
  BY <1>5, <1>7, <1>8 DEF GuardInv
\* A submit event passes the guard: with the permission of a submit method, or with an
\* authorization.
LEMMA PassKeeps ==
  ASSUME GuardInv, GuardAllowedSubmit \/ GuardSubmit
  PROVE  GuardInv'
<1> DEFINE F == Head(stack).form
<1>1. Dispatching("submit", "before")
  BY DEF GuardAllowedSubmit, GuardSubmit
<1>2. /\ stack # <<>> /\ stack \in Seq(Frame) /\ Head(stack) \in Frame /\ Top = Head(stack)
      /\ Head(stack).kind = "submit" /\ Head(stack).kind \in Happenings /\ F \in Forms
      /\ Len(stack) \in Nat \ {0} /\ At(stack, Len(stack)) = Head(stack)
  BY <1>1, TopEvent
<1>3. Scripted(stack) <=> \E g \in 1 .. Len(stack) - 1 : At(stack, g).kind = "script"
  BY <1>2, ScriptedBelow
<1>4. PICK x \in Frame :
        /\ stack' = <<x>> \o Tail(stack)
        /\ x.kind = "submit" /\ x.form = F /\ x.phase = "after" /\ x.trusted = Head(stack).trusted
        /\ x.prevented = Head(stack).prevented
  <2>1. CASE GuardAllowedSubmit
    <3> DEFINE y == [Head(stack) EXCEPT !.phase = "after"]
    <3>1. /\ y \in Frame /\ y.kind = "submit" /\ y.form = F /\ y.phase = "after"
          /\ y.trusted = Head(stack).trusted /\ y.prevented = Head(stack).prevented
      BY <1>2, FramePassed
    <3>2. stack' = <<y>> \o Tail(stack)
      BY <1>2, <2>1 DEF GuardAllowedSubmit, Become
    <3> HIDE DEF y
    <3> QED
      BY <3>1, <3>2
  <2>2. CASE GuardSubmit
    <3> DEFINE y == [Head(stack) EXCEPT !.phase = "after", !.used = TRUE]
    <3>1. /\ y \in Frame /\ y.kind = "submit" /\ y.form = F /\ y.phase = "after"
          /\ y.trusted = Head(stack).trusted /\ y.prevented = Head(stack).prevented
      BY <1>2, FramePassed
    <3>2. stack' = <<y>> \o Tail(stack)
      BY <1>2, <2>2 DEF GuardSubmit, Become
    <3> HIDE DEF y
    <3> QED
      BY <3>1, <3>2
  <2> QED
    BY <2>1, <2>2
<1>5. /\ UNCHANGED <<activationForms, restores, activations, submitted, refused, latest>>
      /\ authorizedForms' \subseteq authorizedForms /\ allowedFormEvents' \subseteq allowedFormEvents
      /\ authorizedForms \cup spent \subseteq authorizedForms' \cup spent' /\ spent' \subseteq spent \cup {F}
      /\ \/ F \in allowedFormEvents \ allowedFormEvents'
         \/ F \in authorizedForms \ authorizedForms'
         \/ Head(stack).trusted /\ ~Scripted(stack) /\ Head(stack).prevented
  <2>1. CASE GuardAllowedSubmit
    BY <1>2, <2>1 DEF GuardAllowedSubmit, history
  <2>2. CASE GuardSubmit
    BY <1>2, <2>2 DEF GuardSubmit
  <2> QED
    BY <2>1, <2>2
<1>6. /\ Became(stack, x, stack') /\ stack' \in Seq(Frame)
      /\ Layered(stack') /\ Started(stack', authorizedForms' \cup spent')
      /\ Called(stack', allowedFormEvents')
      /\ \A f \in Forms : /\ Count(stack', f) <= Count(stack, f) + 1
                          /\ ~Owes(stack', Len(stack), f) => Count(stack', f) <= Count(stack, f)
  <2>1. x.kind \in Happenings /\ x.form \in Forms
    BY <1>2, <1>4
  <2>2. Head(stack).trusted => x.trusted /\ (Submits(x) => x.form \in authorizedForms' \cup spent')
    BY <1>4 DEF Submits
  <2> QED
    BY <1>2, <1>4, <1>5, <2>1, <2>2, BecomeKeeps
<1>7. TypeOK' /\ refused' \subseteq Forms \X {TRUE}
  BY <1>2, <1>5, <1>6 DEF GuardInv, TypeOK
<1>8. \A f \in Forms : Owes(stack', Len(stack), f) =>
        f = F /\ ~(Head(stack).trusted /\ ~Scripted(stack) /\ Head(stack).prevented)
  <2> SUFFICES ASSUME NEW f \in Forms, Owes(stack', Len(stack), f),
                      ~Scripted(stack), Head(stack).prevented
               PROVE  FALSE
    BY <1>4, <1>6 DEF Owes, Became
  <2>1. At(stack', Len(stack)) = x /\ x.prevented
    BY <1>4, <1>6 DEF Became
  <2>2. PICK g \in 1 .. Len(stack) - 1 : At(stack', g).kind = "script"
    BY <2>1 DEF Owes
  <2>3. At(stack, g).kind = "script"
    BY <1>6, <2>2 DEF Became
  <2> QED
    BY <1>3, <2>3
<1> HIDE DEF F
<1>9. CreditInv'
  <2> SUFFICES ASSUME NEW f \in Forms PROVE Claims(f)' <= activations'[f]
    BY DEF CreditInv
  <2>1. Claims(f) <= activations[f] /\ TypeOK
    BY DEF GuardInv, CreditInv
  <2>2. /\ submitted[f] \in Nat /\ activations[f] \in Nat /\ Count(stack, f) \in Nat
        /\ Standing(f) \in Nat /\ Count(stack', f) \in Nat
    BY <2>1, <1>6, ClaimsTyped, CountTyped
  <2>3. /\ Standing(f)' \in Nat /\ Standing(f)' <= Standing(f)
        /\ f \in allowedFormEvents \ allowedFormEvents' \/ f \in authorizedForms \ authorizedForms'
             => Standing(f)' < Standing(f)
    BY <1>5, StandingLess
  <2>4. CASE Owes(stack', Len(stack), f)
    <3>1. Standing(f)' < Standing(f)
      BY <1>5, <1>8, <2>3, <2>4
    <3>2. Count(stack', f) <= Count(stack, f) + 1
      BY <1>6
    <3> QED
      BY <1>5, <2>1, <2>2, <2>3, <3>1, <3>2 DEF Claims
  <2>5. CASE ~Owes(stack', Len(stack), f)
    <3>1. Count(stack', f) <= Count(stack, f)
      BY <1>6, <2>5
    <3> QED
      BY <1>5, <2>1, <2>2, <2>3, <3>1 DEF Claims
  <2> QED
    BY <2>4, <2>5
<1> QED
  BY <1>6, <1>7, <1>9 DEF GuardInv

\* The browser's answer to a click, or to Enter: the event of a submission, or nothing.
LEMMA BrowserKeeps ==
  ASSUME GuardInv, ClickDone \/ EnterDone
  PROVE  GuardInv'
<1>1. PICK kind \in {"click", "key"} : Dispatching(kind, "after")
  BY DEF ClickDone, EnterDone
<1>2. /\ stack # <<>> /\ stack \in Seq(Frame) /\ Head(stack) \in Frame /\ Top = Head(stack)
      /\ Head(stack).kind = kind /\ Head(stack).kind \in Happenings /\ Head(stack).form \in Forms
      /\ \A f : Head(stack) # Call(f)
  BY <1>1, TopEvent
<1>3. UNCHANGED <<guard, history>>
  BY DEF ClickDone, EnterDone
<1>4. /\ stack' \in Seq(Frame) /\ Layered(stack') /\ Started(stack', authorizedForms' \cup spent')
      /\ Called(stack', allowedFormEvents')
      /\ \A f \in Forms : Count(stack', f) <= Count(stack, f)
  <2>1. CASE stack' = Tail(stack)
    BY <1>2, <1>3, <2>1, PopKeeps DEF guard, history
  <2>2. ASSUME NEW x \in Frame, stack' = <<x>> \o Tail(stack),
               x.kind \in Happenings, x.form = Head(stack).form, x.trusted, x.phase = "before",
               x.kind = "submit" => Submits(Head(stack))
        PROVE  /\ stack' \in Seq(Frame) /\ Layered(stack') /\ Started(stack', authorizedForms' \cup spent')
               /\ Called(stack', allowedFormEvents')
               /\ \A f \in Forms : Count(stack', f) <= Count(stack, f)
    <3>1. Submits(x) => x.kind = "submit"
      BY <2>2 DEF Submits
    <3>2. authorizedForms' = authorizedForms /\ spent' = spent /\ allowedFormEvents' = allowedFormEvents
      BY <1>3 DEF guard, history
    <3>3. Head(stack).trusted /\ (Submits(Head(stack)) => Head(stack).form \in authorizedForms \cup spent)
            => x.trusted /\ (Submits(x) => x.form \in authorizedForms' \cup spent')
      BY <2>2, <3>1, <3>2
    <3>4. /\ Became(stack, x, stack') /\ stack' \in Seq(Frame)
          /\ Layered(stack') /\ Started(stack', authorizedForms' \cup spent')
          /\ Called(stack', allowedFormEvents')
          /\ \A f \in Forms : ~Owes(stack', Len(stack), f) => Count(stack', f) <= Count(stack, f)
      BY <1>2, <2>2, <3>2, <3>3, BecomeKeeps
    <3> QED
      BY <2>2, <3>4 DEF Owes, Became
  <2>3. \A f \in Forms : /\ Event("submit", f, "other", TRUE) \in Frame
                        /\ Event("click", f, "submit", TRUE) \in Frame
    BY FramesMade DEF Controls
  <2>4. CASE ClickDone
    <3>1. kind = "click"
      BY <1>2, <2>4 DEF ClickDone, Dispatching
    <3>2. \/ stack' = Tail(stack)
          \/ /\ stack' = <<Event("submit", Head(stack).form, "other", TRUE)>> \o Tail(stack)
             /\ Submits(Head(stack))
      BY <1>1, <1>2, <2>4, <3>1 DEF ClickDone, Dispatching, Become, Pop, Submits
    <3>3. CASE /\ stack' = <<Event("submit", Head(stack).form, "other", TRUE)>> \o Tail(stack)
               /\ Submits(Head(stack))
      <4> DEFINE x == Event("submit", Head(stack).form, "other", TRUE)
      <4>1. x \in Frame /\ stack' = <<x>> \o Tail(stack)
        BY <1>2, <2>3, <3>3
      <4>2. x.kind \in Happenings /\ x.form = Head(stack).form /\ x.trusted /\ x.phase = "before"
        BY DEF Event, Happenings
      <4> HIDE DEF x
      <4> QED
        BY <2>2, <3>3, <4>1, <4>2
    <3> QED
      BY <2>1, <3>2, <3>3
  <2>5. CASE EnterDone
    <3>1. kind = "key"
      BY <1>2, <2>5 DEF EnterDone, Dispatching
    <3>2. Submits(Head(stack))
      BY <1>1, <1>2, <3>1 DEF Submits, Dispatching
    <3>3. \/ stack' = Tail(stack)
          \/ stack' = <<Event("submit", Head(stack).form, "other", TRUE)>> \o Tail(stack)
          \/ stack' = <<Event("click", Head(stack).form, "submit", TRUE)>> \o Tail(stack)
      BY <1>2, <2>5 DEF EnterDone, Become, Pop
    <3>4. CASE stack' = <<Event("submit", Head(stack).form, "other", TRUE)>> \o Tail(stack)
      <4> DEFINE x == Event("submit", Head(stack).form, "other", TRUE)
      <4>1. x \in Frame /\ stack' = <<x>> \o Tail(stack)
        BY <1>2, <2>3, <3>4
      <4>2. x.kind \in Happenings /\ x.form = Head(stack).form /\ x.trusted /\ x.phase = "before"
        BY DEF Event, Happenings
      <4> HIDE DEF x
      <4> QED
        BY <2>2, <3>2, <4>1, <4>2
    <3>5. CASE stack' = <<Event("click", Head(stack).form, "submit", TRUE)>> \o Tail(stack)
      <4> DEFINE x == Event("click", Head(stack).form, "submit", TRUE)
      <4>1. x \in Frame /\ stack' = <<x>> \o Tail(stack)
        BY <1>2, <2>3, <3>5
      <4>2. x.kind \in Happenings /\ x.form = Head(stack).form /\ x.trusted /\ x.phase = "before"
        BY DEF Event, Happenings
      <4> HIDE DEF x
      <4> QED
        BY <2>2, <3>2, <4>1, <4>2
    <3> QED
      BY <2>1, <3>3, <3>4, <3>5
  <2> QED
    BY <2>4, <2>5
<1>5. TypeOK' /\ refused' \subseteq Forms \X {TRUE}
  BY <1>3, <1>4 DEF GuardInv, TypeOK, guard, history
<1>6. CreditInv'
  BY <1>3, <1>4, CreditKept DEF guard, history
<1> QED
  BY <1>4, <1>5, <1>6 DEF GuardInv
-----------------------------------------------------------------------------
(* The submit methods that page code calls. *)

\* What a permission that is used up leaves.
LEMMA SpendPays ==
  ASSUME GuardInv, NEW f \in Forms, Spend(f),
         allowedFormEvents' \subseteq allowedFormEvents \cup {f}, restores' = restores
  PROVE  /\ authorizedForms' \subseteq authorizedForms /\ activationForms' \subseteq activationForms
         /\ spent' = spent \cup {f} /\ authorizedForms \cup spent \subseteq authorizedForms' \cup spent'
         /\ Standing(f)' \in Nat /\ Standing(f) \in Nat /\ Standing(f)' <= Standing(f)
         /\ allowedFormEvents' \subseteq allowedFormEvents => Standing(f)' < Standing(f)
         /\ \A g \in Forms \ {f} : Standing(g)' \in Nat /\ Standing(g) \in Nat /\ Standing(g)' <= Standing(g)
<1>1. /\ authorizedForms' \subseteq authorizedForms /\ activationForms' \subseteq activationForms
      /\ spent' = spent \cup {f} /\ authorizedForms \cup spent \subseteq authorizedForms' \cup spent'
      /\ f \in authorizedForms \ authorizedForms' \/ f \in activationForms \ activationForms'
  BY DEF Spend
<1>2. Standing(f)' \in Nat /\ Standing(f) \in Nat /\ Standing(f)' <= Standing(f)
  BY <1>1 DEF Standing, One
<1>3. ASSUME allowedFormEvents' \subseteq allowedFormEvents PROVE Standing(f)' < Standing(f)
  BY <1>1, <1>3 DEF Standing, One
<1>4. \A g \in Forms \ {f} : Standing(g)' \in Nat /\ Standing(g) \in Nat /\ Standing(g)' <= Standing(g)
  BY <1>1 DEF Standing, One
<1> QED
  BY <1>1, <1>2, <1>3, <1>4

\* form.submit(): the form is submitted, and the permission is used up.
LEMMA CallSubmitKeeps ==
  ASSUME GuardInv, NEW f \in Forms, CallSubmit(f)
  PROVE  GuardInv'
<1>1. /\ Spend(f) /\ stack' = stack /\ stack # <<>>
      /\ UNCHANGED <<restores, activations, refused, latest>>
      /\ submitted' = [submitted EXCEPT ![f] = @ + 1]
      /\ allowedFormEvents' = allowedFormEvents \ {f}
  BY DEF CallSubmit, Calling, Running
<1>2. /\ authorizedForms' \subseteq authorizedForms /\ activationForms' \subseteq activationForms
      /\ spent' = spent \cup {f} /\ authorizedForms \cup spent \subseteq authorizedForms' \cup spent'
      /\ Standing(f)' \in Nat /\ Standing(f) \in Nat /\ Standing(f)' < Standing(f)
      /\ \A g \in Forms \ {f} : Standing(g)' \in Nat /\ Standing(g) \in Nat /\ Standing(g)' <= Standing(g)
  BY <1>1, SpendPays
<1>3. TypeOK' /\ refused' \subseteq Forms \X {TRUE}
  <2>1. submitted \in [Forms -> Nat]
    BY DEF GuardInv, TypeOK
  <2>2. submitted' \in [Forms -> Nat]
    BY <1>1, <2>1
  <2> QED
    BY <1>1, <1>2, <2>2 DEF GuardInv, TypeOK
<1>4. Layered(stack') /\ Started(stack', authorizedForms' \cup spent') /\ Called(stack', allowedFormEvents')
  BY <1>1, <1>2 DEF GuardInv, Started, Called
<1>5. CreditInv'
  <2> SUFFICES ASSUME NEW g \in Forms PROVE Claims(g)' <= activations'[g]
    BY DEF CreditInv
  <2>1. Claims(g) <= activations[g] /\ TypeOK
    BY DEF GuardInv, CreditInv
  <2>2. /\ submitted[g] \in Nat /\ activations[g] \in Nat /\ Count(stack, g) \in Nat
        /\ Standing(g) \in Nat
    BY <2>1, ClaimsTyped
  <2>3. CASE g = f
    <3>1. submitted'[g] = submitted[g] + 1
      BY <1>1, <2>1, <2>3 DEF TypeOK
    <3>2. Standing(g)' \in Nat /\ Standing(g)' < Standing(g)
      BY <1>2, <2>3
    <3> QED
      BY <1>1, <2>1, <2>2, <3>1, <3>2 DEF Claims
  <2>4. CASE g # f
    <3>1. submitted'[g] = submitted[g]
      BY <1>1, <2>1, <2>4 DEF TypeOK
    <3>2. Standing(g)' \in Nat /\ Standing(g)' <= Standing(g)
      BY <1>2, <2>4
    <3> QED
      BY <1>1, <2>1, <2>2, <3>1, <3>2 DEF Claims
  <2> QED
    BY <2>3, <2>4
<1> QED
  BY <1>3, <1>4, <1>5 DEF GuardInv

\* A method that dispatches an event: the permission goes to the event.
LEMMA CallEventKeeps ==
  ASSUME GuardInv, NEW f \in Forms, CallRequestSubmit(f) \/ CallClick(f)
  PROVE  GuardInv'
<1>1. /\ Spend(f) /\ stack # <<>> /\ Head(stack).kind = "script" /\ stack \in Seq(Frame)
      /\ UNCHANGED <<restores, activations, refused, latest, submitted>>
      /\ allowedFormEvents' \subseteq allowedFormEvents \cup {f}
  BY DEF CallRequestSubmit, CallClick, Calling, Running, Top, GuardInv, TypeOK
<1>2. /\ authorizedForms' \subseteq authorizedForms /\ activationForms' \subseteq activationForms
      /\ spent' = spent \cup {f} /\ authorizedForms \cup spent \subseteq authorizedForms' \cup spent'
      /\ \A g \in Forms : Standing(g)' \in Nat /\ Standing(g) \in Nat /\ Standing(g)' <= Standing(g)
  BY <1>1, SpendPays
<1>3. /\ stack' \in Seq(Frame) /\ Layered(stack') /\ Started(stack', authorizedForms' \cup spent')
      /\ Called(stack', allowedFormEvents')
      /\ \A g \in Forms : Count(stack', g) <= Count(stack, g)
  <2>1. ASSUME NEW x \in Frame, stack' = <<x, Call(f)>> \o stack, x.phase = "before",
               x.kind \in {"click", "submit"}, x.form = f, allowedFormEvents' = allowedFormEvents \cup {f}
        PROVE  /\ stack' \in Seq(Frame) /\ Layered(stack') /\ Started(stack', authorizedForms' \cup spent')
               /\ Called(stack', allowedFormEvents')
               /\ \A g \in Forms : Count(stack', g) <= Count(stack, g)
    <3> DEFINE c == Call(f)
               s == <<c>> \o stack
    <3>1. c \in Frame /\ c.kind = "call" /\ c.form = f /\ c.phase = "before"
      BY FramesMade DEF Call, Event, Controls
    <3> HIDE DEF c
    <3>2. Pushed(stack, c, s) /\ s \in Seq(Frame) /\ s # <<>> /\ Head(s) = c
      <4>1. Pushed(stack, c, s)
        BY <1>1, <3>1, PushAt
      <4>2. s \in Seq(Frame) /\ s # <<>> /\ Head(s) = c
        BY <1>1, <3>1
      <4> QED
        BY <4>1, <4>2
    <3>3. stack' = <<x>> \o s
      <4>1. <<x, c>> \o stack = <<x>> \o (<<c>> \o stack)
        BY <1>1, <2>1, <3>1
      <4> QED
        BY <2>1, <4>1 DEF c
    <3> HIDE DEF s
    <3>4. Pushed(s, x, stack') /\ stack' \in Seq(Frame)
      <4>1. Pushed(s, x, stack')
        BY <3>2, <3>3, PushAt
      <4> QED
        BY <4>1 DEF Pushed
    <3>5. Layered(s)
      <4>1. Layered(stack) /\ Lies(c, Head(stack))
        BY <1>1, <3>1 DEF GuardInv, Lies, Happenings
      <4> QED
        BY <1>1, <3>1, <3>2, <4>1, LayerPush
    <3>6. Layered(stack')
      <4>1. Lies(x, Head(s))
        BY <2>1, <3>1, <3>2 DEF Lies, Happenings
      <4>2. (x.kind # "script" => x.form \in Forms) /\ x.kind # "call"
        BY <2>1
      <4> QED
        BY <3>2, <3>4, <3>5, <4>1, <4>2, LayerPush
    <3>7. Started(stack', authorizedForms' \cup spent')
      <4> DEFINE A == authorizedForms \cup spent
                 B == authorizedForms' \cup spent'
      <4>1. Started(stack, A) /\ A \subseteq B
        BY <1>2 DEF GuardInv
      <4> HIDE DEF A, B
      <4>2. Started(s, B)
        BY <1>1, <3>2, <4>1, StartedPush
      <4>3. Started(stack', B)
        BY <3>2, <3>4, <4>2, StartedPush
      <4> QED
        BY <4>3 DEF B
    <3>8. Called(stack', allowedFormEvents')
      <4>1. Called(stack, allowedFormEvents)
        BY DEF GuardInv
      <4>2. Called(s, allowedFormEvents \cup {f})
        BY <1>1, <3>2, <4>1, CalledPush DEF c
      <4> QED
        BY <2>1, <3>2, <3>4, <4>2, CalledPush
    <3>9. ASSUME NEW g \in Forms PROVE Count(stack', g) <= Count(stack, g)
      <4>1. Count(s, g) <= Count(stack, g)
        BY <1>1, <3>1, <3>2, CountPush
      <4>2. Count(stack', g) <= Count(s, g)
        BY <2>1, <3>2, <3>4, CountPush
      <4>3. Count(s, g) \in Nat /\ Count(stack, g) \in Nat /\ Count(stack', g) \in Nat
        BY <1>1, <3>2, <3>4, CountTyped
      <4> QED
        BY <4>1, <4>2, <4>3
    <3> QED
      BY <3>4, <3>6, <3>7, <3>8, <3>9
  <2>2. CASE stack' = stack /\ allowedFormEvents' = allowedFormEvents \ {f}
    <3>1. \A g \in Forms : Count(stack, g) \in Nat
      BY <1>1, CountTyped
    <3> QED
      BY <1>1, <1>2, <2>2, <3>1 DEF GuardInv, Started, Called
  <2>3. CASE CallRequestSubmit(f) /\ stack' # stack
    <3> DEFINE x == Event("submit", f, "other", TRUE)
    <3>1. x \in Frame /\ x.phase = "before" /\ x.kind = "submit" /\ x.form = f
      BY FramesMade DEF Event, Controls
    <3>2. stack' = <<x, Call(f)>> \o stack /\ allowedFormEvents' = allowedFormEvents \cup {f}
      BY <2>3 DEF CallRequestSubmit
    <3> HIDE DEF x
    <3> QED
      BY <2>1, <3>1, <3>2
  <2>4. CASE CallClick(f)
    <3> DEFINE x == Event("click", f, "submit", FALSE)
    <3>1. x \in Frame /\ x.phase = "before" /\ x.kind = "click" /\ x.form = f
      BY FramesMade DEF Event, Controls
    <3>2. stack' = <<x, Call(f)>> \o stack /\ allowedFormEvents' = allowedFormEvents \cup {f}
      BY <2>4 DEF CallClick
    <3> HIDE DEF x
    <3> QED
      BY <2>1, <3>1, <3>2
  <2>5. CASE CallRequestSubmit(f) /\ stack' = stack
    <3>1. stack' # <<Event("submit", f, "other", TRUE), Call(f)>> \o stack
      <4>1. \A x \in Frame, y \in Frame : <<x, y>> \o stack # stack
        BY <1>1
      <4>2. Event("submit", f, "other", TRUE) \in Frame /\ Call(f) \in Frame
        BY FramesMade DEF Call, Controls
      <4> QED
        BY <2>5, <4>1, <4>2
    <3> QED
      BY <2>2, <2>5, <3>1 DEF CallRequestSubmit
  <2> QED
    BY <2>3, <2>4, <2>5
<1>4. TypeOK' /\ refused' \subseteq Forms \X {TRUE}
  BY <1>1, <1>2, <1>3 DEF GuardInv, TypeOK
<1>5. CreditInv'
  <2> SUFFICES ASSUME NEW g \in Forms PROVE Claims(g)' <= activations'[g]
    BY DEF CreditInv
  <2>1. Claims(g) <= activations[g] /\ TypeOK
    BY DEF GuardInv, CreditInv
  <2>2. /\ submitted[g] \in Nat /\ activations[g] \in Nat /\ Count(stack, g) \in Nat
        /\ Standing(g) \in Nat /\ Count(stack', g) \in Nat /\ Count(stack', g) <= Count(stack, g)
    BY <1>3, <2>1, ClaimsTyped, CountTyped
  <2>3. Standing(g)' \in Nat /\ Standing(g)' <= Standing(g)
    BY <1>2
  <2> QED
    BY <1>1, <2>1, <2>2, <2>3 DEF Claims
<1> QED
  BY <1>3, <1>4, <1>5 DEF GuardInv

-----------------------------------------------------------------------------
(* The theorems. *)

\* The guard starts with no permission and nothing under way.
LEMMA GuardStart ==
  ASSUME Init
  PROVE  GuardInv
<1>1. stack = <<>> /\ stack \in Seq(Frame) /\ Len(stack) = 0
  BY DEF Init
<1>2. TypeOK /\ refused \subseteq Forms \X {TRUE}
  BY <1>1 DEF Init, TypeOK
<1>3. Layered(stack) /\ Started(stack, authorizedForms \cup spent) /\ Called(stack, allowedFormEvents)
  BY <1>1 DEF Init, Layered, Started, Called
<1>4. ASSUME NEW f \in Forms PROVE Claims(f) <= activations[f]
  <2>1. Owing(stack, f) = {}
    BY <1>1 DEF Owing
  <2>2. Count(stack, f) = 0
    BY <2>1, FS_EmptySet DEF Count
  <2>3. Standing(f) = 0
    BY DEF Init, Standing, One
  <2> QED
    BY <2>2, <2>3 DEF Claims, Init
<1> QED
  BY <1>2, <1>3, <1>4 DEF GuardInv, CreditInv

\* Every step of the user, the page, the guard and the browser keeps the invariant.
LEMMA GuardStep ==
  ASSUME GuardInv, [Next]_vars
  PROVE  GuardInv'
<1>1. CASE UNCHANGED vars
  <2>1. UNCHANGED <<authorizedForms, activationForms, allowedFormEvents, stack, restores, activations,
                    submitted, spent, refused, latest>>
    BY <1>1 DEF vars, guard, history, bounds
  <2>2. TypeOK' /\ CreditInv'
    BY <2>1 DEF GuardInv, TypeOK, CreditInv, Claims, Standing
  <2> QED
    BY <2>1, <2>2 DEF GuardInv
<1>2. CASE \E f \in Forms, c \in Controls : UserClick(f, c)
  BY <1>2, GestureKeeps
<1>3. CASE \E f \in Forms : UserEnter(f)
  BY <1>3, GestureKeeps
<1>4. CASE UserInteracts \/ \E f \in Forms : Expire(f)
  BY <1>4, ExpiryKeeps
<1>5. CASE GuardUntrustedClick
  BY <1>5, UntrustedClickKeeps
<1>6. CASE GuardClick \/ GuardKeydown
  BY <1>6, ActivationKeeps
<1>7. CASE GuardAllowedSubmit \/ GuardSubmit
  BY <1>7, PassKeeps
<1>8. CASE GuardRefusesSubmit
  BY <1>8, RefusalKeeps
<1>9. CASE ClickDone \/ EnterDone
  BY <1>9, BrowserKeeps
<1>10. CASE SubmitDone
  BY <1>10, SubmitDoneKeeps
<1>11. CASE RunScript \/ \E f \in Forms, kind \in {"click", "submit"} : CallDispatch(kind, f)
  BY <1>11, PagePushKeeps
<1>12. CASE PreventDefault
  BY <1>12, PreventKeeps
<1>13. CASE CallReturns
  BY <1>13, CallReturnsKeeps
<1>14. CASE ScriptReturns
  BY <1>14, ScriptReturnsKeeps
<1>15. CASE \E f \in Forms : CallSubmit(f) \/ CallRequestSubmit(f) \/ CallClick(f)
  BY <1>15, CallSubmitKeeps, CallEventKeeps
<1> QED
  BY <1>1, <1>2, <1>3, <1>4, <1>5, <1>6, <1>7, <1>8, <1>9, <1>10, <1>11, <1>12, <1>13, <1>14,
     <1>15 DEF Next

\* The invariant holds in every state the guard reaches.
THEOREM GuardIsSound == Spec => []GuardInv
  BY GuardStart, GuardStep, PTL DEF Spec

\* Every variable of the guard keeps its type (installSubmissionGuard).
THEOREM GuardTypes == Spec => []TypeOK
<1>1. GuardInv => TypeOK
  BY DEF GuardInv
<1> QED
  BY <1>1, GuardIsSound, PTL

\* A form is never submitted more often than the user activated it, however deep page
\* code nests submissions, clicks and events of its own (authorizeFromUserActivation,
\* allowNativeSubmission and the submit listener).
THEOREM Activated == Spec => []SubmissionsAreActivated
<1>1. ASSUME GuardInv PROVE SubmissionsAreActivated
  <2> SUFFICES ASSUME NEW f \in Forms PROVE submitted[f] <= activations[f]
    BY DEF SubmissionsAreActivated
  <2>1. Claims(f) <= activations[f] /\ TypeOK
    BY <1>1 DEF GuardInv, CreditInv
  <2>2. /\ submitted[f] \in Nat /\ activations[f] \in Nat /\ Count(stack, f) \in Nat
        /\ Standing(f) \in Nat
    BY <2>1, ClaimsTyped
  <2> QED
    BY <2>1, <2>2 DEF Claims
<1> QED
  BY <1>1, GuardIsSound, PTL

\* The guard refuses a submission the user starts only if page code has used the
\* authorization of that very gesture (the submit listener).
THEOREM NotRefused == Spec => []UserIsNotRefused
<1>1. ASSUME GuardInv PROVE UserIsNotRefused
  <2> SUFFICES ASSUME NEW r \in refused PROVE r[2]
    BY DEF UserIsNotRefused
  <2>1. r \in Forms \X {TRUE}
    BY <1>1 DEF GuardInv
  <2> QED
    BY <2>1
<1> QED
  BY <1>1, GuardIsSound, PTL

\* With no method under way no form keeps the permission of one: the `finally` of
\* allowNativeSubmission takes it, whatever the method dispatches meanwhile.
THEOREM Scoped == Spec => []PermissionsAreScoped
<1>1. ASSUME GuardInv PROVE PermissionsAreScoped
  <2> SUFFICES ASSUME NEW f \in allowedFormEvents PROVE \E i \in DOMAIN stack : stack[i] = Call(f)
    BY DEF PermissionsAreScoped
  <2>1. stack \in Seq(Frame)
    BY <1>1 DEF GuardInv, TypeOK
  <2>2. PICK h \in 1..Len(stack) : At(stack, h) = Call(f)
    BY <1>1 DEF GuardInv, Called
  <2>3. Len(stack) + 1 - h \in DOMAIN stack
    BY <2>1
  <2> QED
    BY <2>2, <2>3 DEF At
<1> QED
  BY <1>1, GuardIsSound, PTL

\* At most one form is activated by a JS-backed button, by the user's latest
\* interaction (clearActivationOnTrustedInteraction).
THEOREM Latest == Spec => []ActivationIsLatest
<1>1. Init => ActivationIsLatest
  BY DEF Init, ActivationIsLatest
<1>2. ASSUME ActivationIsLatest, [Next]_vars PROVE ActivationIsLatest'
  <2>1. CASE UNCHANGED <<activationForms, latest>>
    BY <1>2, <2>1 DEF ActivationIsLatest
  <2>2. CASE activationForms' \subseteq activationForms /\ latest' = latest
    BY <1>2, <2>2 DEF ActivationIsLatest
  <2>3. CASE activationForms' = {} \/ activationForms' = {latest'}
    BY <1>2, <2>3 DEF ActivationIsLatest
  <2>4. CASE UserInteracts \/ GuardClick \/ GuardKeydown
    BY <2>3, <2>4 DEF UserInteracts, GuardClick, GuardKeydown
  <2>5. CASE \E f \in Forms : Expire(f) \/ CallSubmit(f) \/ CallRequestSubmit(f) \/ CallClick(f)
    BY <2>2, <2>5 DEF Expire, CallSubmit, CallRequestSubmit, CallClick, Calling, Spend, history
  <2>6. CASE \/ \E f \in Forms, c \in Controls : UserClick(f, c)
             \/ \E f \in Forms : UserEnter(f)
             \/ \E f \in Forms, kind \in {"click", "submit"} : CallDispatch(kind, f)
    BY <2>1, <2>6 DEF UserClick, UserEnter, Gesture, CallDispatch, Calling, guard
  <2>7. CASE GuardUntrustedClick \/ GuardAllowedSubmit \/ GuardSubmit \/ GuardRefusesSubmit
    BY <2>1, <2>7 DEF GuardUntrustedClick, GuardAllowedSubmit, GuardSubmit, GuardRefusesSubmit, guard, history
  <2>8. CASE \/ ClickDone \/ EnterDone \/ SubmitDone \/ RunScript
             \/ PreventDefault \/ CallReturns \/ ScriptReturns
    BY <2>1, <2>8 DEF ClickDone, EnterDone, SubmitDone, RunScript, PreventDefault, CallReturns,
                      ScriptReturns, guard, history
  <2>9. CASE UNCHANGED vars
    BY <2>1, <2>9 DEF vars, guard, history
  <2> QED
    BY <1>2, <2>4, <2>5, <2>6, <2>7, <2>8, <2>9 DEF Next
<1> QED
  BY <1>1, <1>2, PTL DEF Spec
=============================================================================
