-------------------------- MODULE SubmissionGuard ---------------------------
(***************************************************************************)
(* The submission guard that Open & Fill installs in the page's own world  *)
(* (installSubmissionGuard, guard.ts).  Capture listeners on the document  *)
(* and wrapped submit methods let a submission pass when a trusted user    *)
(* action has authorized it.                                               *)
(*                                                                         *)
(* The page runs on one thread, but its code is re-entrant: a listener may *)
(* submit, click or dispatch while an event is under way.  `stack` holds   *)
(* what is under way, innermost first; a page listener is a "script" frame *)
(* that may call anything.  Microtasks run when no script is on the stack. *)
(* Forms are named by their guard key (formKey).                           *)
(***************************************************************************)
EXTENDS Naturals, Sequences

CONSTANTS
  Forms,
  MaxGestures,  \* bound: user actions
  MaxScripts,   \* bound: times page code runs
  MaxCalls      \* bound: submissions, clicks and dispatches page code makes

ASSUME SubmissionGuardAssumption ==
  MaxGestures \in Nat /\ MaxScripts \in Nat /\ MaxCalls \in Nat

VARIABLES
  authorizedForms,    \* forms with an authorization of their own
  activationForms,    \* forms a JS-backed button has activated, until the timer
  allowedFormEvents,  \* forms whose wrapped submit method is running
  stack,
  restores,           \* forms whose microtask will authorize them again
  activations,        \* history: trusted user events that authorize each form
  submitted,          \* history: submissions of each form that took place
  spent,              \* history: forms whose authorization this gesture has used
  refused,            \* history: forms refused a submit event of the user's
  latest,             \* history: form activated by the latest interaction, if any
  gestures, scripts, calls

guard == <<authorizedForms, activationForms, allowedFormEvents, restores>>
history == <<activations, submitted, spent, refused, latest>>
bounds == <<gestures, scripts, calls>>
vars == <<guard, stack, history, bounds>>

Controls == {"submit", "button", "other"}
NoForm == "none"

Frame == [kind : {"click", "key", "submit", "script", "call"},
          form : Forms \cup {NoForm}, control : Controls, trusted : BOOLEAN,
          phase : {"before", "after"}, prevented : BOOLEAN, used : BOOLEAN]

Event(kind, f, control, trusted) ==
  [kind |-> kind, form |-> f, control |-> control, trusted |-> trusted,
   phase |-> "before", prevented |-> FALSE, used |-> FALSE]

Script == Event("script", NoForm, "other", FALSE)
Call(f) == Event("call", f, "other", FALSE)

Top == Head(stack)
Push(x) == stack' = <<x>> \o stack
Pop == stack' = Tail(stack)
Become(x) == stack' = <<x>> \o Tail(stack)

\* The top of the stack is an event of this kind, in this phase of its dispatch:
\* before the guard's listener, or after it.
Dispatching(kind, phase) == stack # <<>> /\ Top.kind = kind /\ Top.phase = phase
Running(kind) == stack # <<>> /\ Top.kind = kind

\* Page code is on the stack: no microtask runs before it returns.
Scripted(s) == \E i \in DOMAIN s : s[i].kind = "script"

Idle == stack = <<>>

-----------------------------------------------------------------------------
(* The user.  Every action of the user starts on an empty stack. *)

Gesture ==
  /\ Idle /\ gestures < MaxGestures
  /\ gestures' = gestures + 1
  /\ spent' = {}
  /\ UNCHANGED <<guard, activations, submitted, refused, latest, scripts, calls>>

UserClick(f, control) == Gesture /\ Push(Event("click", f, control, TRUE))

UserEnter(f) == Gesture /\ Push(Event("key", f, "other", TRUE))

\* Mutant of UserInteracts: a pointer or input event leaves an activation alone.
UserInteractsKeeps ==
  /\ Idle
  /\ latest' = NoForm
  /\ UNCHANGED <<guard, stack, activations, submitted, spent, refused, bounds>>

\* clearActivationOnTrustedInteraction: pointerdown, touchstart, input, ...
UserInteracts ==
  /\ Idle
  /\ activationForms' = {}
  /\ latest' = NoForm
  /\ UNCHANGED <<authorizedForms, allowedFormEvents, restores, stack, activations,
                 submitted, spent, refused, bounds>>

-----------------------------------------------------------------------------
(* The guard's listeners. *)

\* authorizeFromUserActivation on a click the user has not made: ignored.
GuardUntrustedClick ==
  /\ Dispatching("click", "before")
  /\ ~Top.trusted
  /\ Become([Top EXCEPT !.phase = "after"])
  /\ UNCHANGED <<guard, history, bounds>>

Activates(f) == activations' = [activations EXCEPT ![f] = @ + 1]

\* Mutant of GuardClick: a click authorizes through the activation window only.
GuardClickActivates ==
  /\ Dispatching("click", "before")
  /\ Top.trusted
  /\ Become([Top EXCEPT !.phase = "after"])
  /\ activationForms' = {Top.form}
  /\ latest' = Top.form
  /\ Activates(Top.form)
  /\ UNCHANGED <<authorizedForms, allowedFormEvents, restores, submitted, spent, refused,
                 bounds>>

\* Mutant of GuardClick: a submit control that belongs to no form authorizes, too.
GuardClickFormless ==
  /\ Dispatching("click", "before")
  /\ Top.trusted
  /\ Become([Top EXCEPT !.phase = "after"])
  /\ authorizedForms' = authorizedForms \cup {NoForm}
  /\ UNCHANGED <<activationForms, allowedFormEvents, restores, history, bounds>>

\* authorizeFromUserActivation on a trusted click.
GuardClick ==
  /\ Dispatching("click", "before")
  /\ Top.trusted
  /\ Become([Top EXCEPT !.phase = "after"])
  /\ \/ /\ Top.control = "submit"
        /\ authorizedForms' = authorizedForms \cup {Top.form}
        /\ activationForms' = {}
        /\ latest' = NoForm
        /\ Activates(Top.form)
     \/ /\ Top.control = "button"    \* while the browser's user activation lasts
        /\ activationForms' = {Top.form}
        /\ latest' = Top.form
        /\ Activates(Top.form)
        /\ UNCHANGED authorizedForms
     \/ /\ Top.control # "submit"    \* no form's control, or no user activation
        /\ activationForms' = {}
        /\ latest' = NoForm
        /\ UNCHANGED <<authorizedForms, activations>>
  /\ UNCHANGED <<allowedFormEvents, restores, submitted, spent, refused, bounds>>

\* authorizeFromUserActivation on Enter in a field that submits its form.
GuardKeydown ==
  /\ Dispatching("key", "before")
  /\ Become([Top EXCEPT !.phase = "after"])
  /\ authorizedForms' = authorizedForms \cup {Top.form}
  /\ activationForms' = {}
  /\ latest' = NoForm
  /\ Activates(Top.form)
  /\ UNCHANGED <<allowedFormEvents, restores, submitted, spent, refused, bounds>>

\* The submit listener, when the event belongs to a submit method that was let
\* through: the permission covers one event.
GuardAllowedSubmit ==
  /\ Dispatching("submit", "before")
  /\ Top.form \in allowedFormEvents
  /\ allowedFormEvents' = allowedFormEvents \ {Top.form}
  /\ Become([Top EXCEPT !.phase = "after"])
  /\ UNCHANGED <<authorizedForms, activationForms, restores, history, bounds>>

\* ... when the form is authorized: the authorization is used up.  The microtask
\* that restores it if the event was canceled runs once no script is on the stack:
\* right here, unless a script has dispatched the event.
GuardSubmit ==
  /\ Dispatching("submit", "before")
  /\ Top.form \notin allowedFormEvents
  /\ Top.form \in authorizedForms
  /\ authorizedForms' = IF Top.trusted /\ ~Scripted(stack) /\ Top.prevented
                        THEN authorizedForms ELSE authorizedForms \ {Top.form}
  /\ Become([Top EXCEPT !.phase = "after", !.used = TRUE])
  /\ spent' = spent \cup {Top.form}
  /\ UNCHANGED <<activationForms, allowedFormEvents, restores, activations, submitted,
                 refused, latest, bounds>>

\* ... when it is not: the event is canceled and goes no further.
GuardRefusesSubmit ==
  /\ Dispatching("submit", "before")
  /\ Top.form \notin allowedFormEvents \cup authorizedForms
  /\ Pop
  /\ refused' = IF Top.trusted /\ ~Scripted(stack) /\ ~Top.prevented
                THEN refused \cup {<<Top.form, Top.form \in spent>>} ELSE refused
  /\ UNCHANGED <<guard, activations, submitted, spent, latest, bounds>>

-----------------------------------------------------------------------------
(* What the browser does when the listeners of an event are through. *)

\* A click on a submit control starts a submission, if the form is valid.
ClickDone ==
  /\ Dispatching("click", "after")
  /\ \/ /\ Top.control = "submit" /\ ~Top.prevented
        /\ Become(Event("submit", Top.form, "other", TRUE))
     \/ Pop
  /\ UNCHANGED <<guard, history, bounds>>

\* Enter clicks the form's submit control, or submits a form that has none
\* (implicit submission).
EnterDone ==
  /\ Dispatching("key", "after")
  /\ \/ Pop
     \/ ~Top.prevented /\ Become(Event("click", Top.form, "submit", TRUE))
     \/ ~Top.prevented /\ Become(Event("submit", Top.form, "other", TRUE))
  /\ UNCHANGED <<guard, history, bounds>>

\* A trusted submit event that used an authorization was canceled.
UsedAndCanceled == Top.trusted /\ Top.used /\ Top.prevented

\* The form is submitted unless its event was canceled; an event page code made up
\* submits nothing.
SubmitDone ==
  /\ Dispatching("submit", "after")
  /\ Pop
  /\ submitted' = IF Top.trusted /\ ~Top.prevented
                  THEN [submitted EXCEPT ![Top.form] = @ + 1] ELSE submitted
  /\ restores' = IF UsedAndCanceled /\ Scripted(stack)
                 THEN restores \cup {Top.form} ELSE restores
  /\ UNCHANGED <<authorizedForms, activationForms, allowedFormEvents, activations,
                 spent, refused, latest, bounds>>

\* The activation timer runs off.
Expire(f) ==
  /\ Idle
  /\ f \in activationForms
  /\ activationForms' = activationForms \ {f}
  /\ UNCHANGED <<authorizedForms, allowedFormEvents, restores, stack, history, bounds>>

-----------------------------------------------------------------------------
(* The page's code. *)

\* A page listener runs, or a task of the page: a timer, a handler of autofill's events.
RunScript ==
  /\ scripts < MaxScripts
  /\ ~Idle => Top.kind \in {"click", "key", "submit"}
  /\ scripts' = scripts + 1
  /\ Push(Script)
  /\ UNCHANGED <<guard, history, gestures, calls>>

\* preventDefault of the event the listener handles.
PreventDefault ==
  /\ Running("script") /\ Len(stack) > 1
  /\ stack' = <<Top>> \o <<[stack[2] EXCEPT !.prevented = TRUE]>> \o Tail(Tail(stack))
  /\ UNCHANGED <<guard, history, bounds>>

Calling ==
  /\ Running("script") /\ calls < MaxCalls
  /\ calls' = calls + 1
  /\ UNCHANGED <<restores, activations, refused, latest, gestures, scripts>>

\* Mutant of Spend: an activation pays for as many submissions as the page likes.
SpendActivationKept(f) ==
  /\ f \in authorizedForms \cup activationForms
  /\ authorizedForms' = authorizedForms \ {f}
  /\ spent' = spent \cup {f}
  /\ UNCHANGED activationForms

\* allowNativeSubmission: an authorization is used up, or else an activation.
Spend(f) ==
  /\ f \in authorizedForms \cup activationForms
  /\ spent' = spent \cup {f}
  /\ IF f \in authorizedForms
     THEN authorizedForms' = authorizedForms \ {f} /\ UNCHANGED activationForms
     ELSE activationForms' = activationForms \ {f} /\ UNCHANGED authorizedForms

\* form.submit(), let through: no event, the form is submitted.
CallSubmit(f) ==
  /\ Calling /\ Spend(f)
  /\ submitted' = [submitted EXCEPT ![f] = @ + 1]
  /\ allowedFormEvents' = allowedFormEvents \ {f}
  /\ UNCHANGED stack

\* form.requestSubmit(), let through: nothing happens if the form is invalid.
CallRequestSubmit(f) ==
  /\ Calling /\ Spend(f)
  /\ UNCHANGED submitted
  /\ \/ /\ allowedFormEvents' = allowedFormEvents \cup {f}
        /\ stack' = <<Event("submit", f, "other", TRUE), Call(f)>> \o stack
     \/ allowedFormEvents' = allowedFormEvents \ {f} /\ UNCHANGED stack

\* control.click() on a submit control, let through.
CallClick(f) ==
  /\ Calling /\ Spend(f)
  /\ UNCHANGED submitted
  /\ allowedFormEvents' = allowedFormEvents \cup {f}
  /\ stack' = <<Event("click", f, "submit", FALSE), Call(f)>> \o stack

\* dispatchEvent with an event of the page's own making.
CallDispatch(kind, f) ==
  /\ kind \in {"click", "submit"}
  /\ Calling
  /\ Push(Event(kind, f, IF kind = "click" THEN "submit" ELSE "other", FALSE))
  /\ UNCHANGED <<authorizedForms, activationForms, allowedFormEvents, submitted, spent>>

\* Mutant of CallReturns: the permission of the method outlives it.
CallReturnsAllowed ==
  /\ Running("call")
  /\ Pop
  /\ UNCHANGED <<guard, history, bounds>>

\* The `finally` of allowNativeSubmission.
CallReturns ==
  /\ Running("call")
  /\ allowedFormEvents' = allowedFormEvents \ {Top.form}
  /\ Pop
  /\ UNCHANGED <<authorizedForms, activationForms, restores, history, bounds>>

\* Page code returns; when it was the outermost, the microtasks run.
ScriptReturns ==
  /\ Running("script")
  /\ Pop
  /\ IF Scripted(Tail(stack))
     THEN UNCHANGED <<authorizedForms, restores>>
     ELSE authorizedForms' = authorizedForms \cup restores /\ restores' = {}
  /\ UNCHANGED <<activationForms, allowedFormEvents, history, bounds>>

-----------------------------------------------------------------------------
Init ==
  /\ authorizedForms = {} /\ activationForms = {} /\ allowedFormEvents = {}
  /\ stack = <<>> /\ restores = {}
  /\ activations = [f \in Forms |-> 0] /\ submitted = [f \in Forms |-> 0]
  /\ spent = {} /\ refused = {} /\ latest = NoForm
  /\ gestures = 0 /\ scripts = 0 /\ calls = 0

Next ==
  \/ \E f \in Forms, c \in Controls : UserClick(f, c)
  \/ \E f \in Forms : UserEnter(f)
  \/ UserInteracts
  \/ GuardUntrustedClick \/ GuardClick \/ GuardKeydown
  \/ GuardAllowedSubmit \/ GuardSubmit \/ GuardRefusesSubmit
  \/ ClickDone \/ EnterDone \/ SubmitDone
  \/ \E f \in Forms : Expire(f)
  \/ RunScript \/ PreventDefault \/ CallReturns \/ ScriptReturns
  \/ \E f \in Forms : CallSubmit(f) \/ CallRequestSubmit(f) \/ CallClick(f)
  \/ \E f \in Forms, kind \in {"click", "submit"} : CallDispatch(kind, f)

Spec == Init /\ [][Next]_vars
-----------------------------------------------------------------------------
TypeOK ==
  /\ authorizedForms \subseteq Forms /\ activationForms \subseteq Forms
  /\ allowedFormEvents \subseteq Forms /\ restores \subseteq Forms
  /\ stack \in Seq(Frame)
  /\ activations \in [Forms -> Nat] /\ submitted \in [Forms -> Nat]
  /\ spent \subseteq Forms
  /\ latest \in Forms \cup {NoForm}

\* "A trusted human activation authorizes one later action for its owning form"
\* (guard.ts): a form is never submitted more often than the user activated it,
\* however page code nests submissions, clicks and events of its own.
SubmissionsAreActivated == \A f \in Forms : submitted[f] <= activations[f]

\* The guard does not break the page: it refuses a submission the user starts only
\* if page code has used the authorization of that very gesture already.
UserIsNotRefused == \A r \in refused : r[2]

\* An activation by a JS-backed button lasts no longer than until the user does
\* something else: at most one form is activated, by the latest interaction.
ActivationIsLatest == activationForms \subseteq {latest}

\* With no method under way, no form keeps the permission of one.
PermissionsAreScoped ==
  \A f \in allowedFormEvents : \E i \in DOMAIN stack : stack[i] = Call(f)

\* A submit event of the user's that the guard lets through and that is canceled
\* afterwards has its authorization back when the event is over ("Downstream
\* validation runs after this capture listener.", guard.ts).
CanceledSubmitIsRestored ==
  [][SubmitDone /\ UsedAndCanceled => Top.form \in authorizedForms' \cup restores']_vars
=============================================================================
