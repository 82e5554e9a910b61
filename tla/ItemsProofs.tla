------------------------------ MODULE ItemsProofs ------------------------------
(***************************************************************************)
(* Safety of received items for any saves and items and any bounds on      *)
(* histories, moves, packets and faults: first of ItemReconciliation, then *)
(* of ReceivedItems.                                                       *)
(*                                                                         *)
(* What is confirmed was planned some awaits before: the target is read    *)
(* from the ledger, the command waits for the lock, is sent, evaluated,    *)
(* and its answer read.  The invariant follows the plan through these      *)
(* hands; the ledger it was read from does not change before it is over,   *)
(* though the session may be another by then.                              *)
(***************************************************************************)
EXTENDS Items, SequenceTheorems, FiniteSetTheorems, WellFoundedInduction, TLAPS

\* Only the holder of the lock waits, and for one answer.
OneWaits ==
    /\ lock = "free" => reply = None
    /\ \A k \in DOMAIN forms :
          forms[k].awaited => lock = forms[k].kind /\ reply = None
    /\ \A j, k \in DOMAIN forms :
          forms[j].awaited /\ forms[k].awaited => j = k

\* A target is that of its ledger as long as it is on its way.
PlanHolds ==
    /\ worker.pc \in {"waiting", "sent"} =>
         /\ worker.save \in Saves
         /\ worker.projection.target = Target(ledger[worker.save])
    /\ worker.current => worker.pc \in {"waiting", "sent"}

\* The command is the worker's, and reports the session it was planned for,
\* unless that has been left.
CommandAsPlanned ==
    \A k \in DOMAIN forms :
        forms[k].awaited /\ forms[k].kind = "command" =>
            /\ forms[k].target = worker.projection.target
            /\ forms[k].origin = worker.save
            /\ worker.current => forms[k].status = worker.save

\* What the worker will mark has been given.
AnswerTrue ==
    worker.pc = "sent" /\ worker.current /\ reply # None /\ reply.result = "applied"
        => worker.projection.target \subseteq granted[worker.save]

IInv ==
    /\ TypeOK
    /\ OneWaits
    /\ PlanHolds
    /\ CommandAsPlanned
    /\ AnswerTrue
    /\ AppliedOnlyIfGranted

-----------------------------------------------------------------------------
(* TypeOK by parts, so that a step is looked at where it changes something. *)

GameTyped ==
    /\ loaded \in Saves \cup {NoSave}
    /\ restoring \in Saves \cup {NoSave}
    /\ bound \in BOOLEAN /\ greeted \in BOOLEAN /\ calm \in BOOLEAN
    /\ features \in SUBSET Items
    /\ events \in SUBSET Events

WireTyped ==
    /\ forms \in Seq(Form)
    /\ reply \in Reply \cup {None}

LinkTyped ==
    /\ ready \in BOOLEAN /\ authenticated \in BOOLEAN
    /\ last \in [loaded: Saves \cup {NoSave}, safe: BOOLEAN] \cup {None}

WorkerTyped ==
    /\ session \in Saves \cup {NoSave}
    /\ lock \in {"free", "hello", "ping", "command"}
    /\ worker \in Worker
    /\ (worker.pc = "sent") = (lock = "command")
    /\ worker.current => worker.save = session

NotesTyped ==
    /\ dirty \in BOOLEAN
    /\ confirmed \in Projection \cup {None}
    /\ failed \in Projection \cup {None}
    /\ runtime \in BOOLEAN \cup {None}

LedgerTyped ==
    /\ packet \in Packet \cup {None}
    /\ ledger \in [Saves -> Ledger]
    /\ moves \in Nat /\ packets \in Nat /\ faults \in Nat
    /\ granted \in [Saves -> SUBSET Items]

LEMMA Parts ==
    TypeOK <=> /\ GameTyped /\ WireTyped /\ LinkTyped
               /\ WorkerTyped /\ NotesTyped /\ LedgerTyped
  BY DEF TypeOK, GameTyped, WireTyped, LinkTyped, WorkerTyped, NotesTyped,
         LedgerTyped

LEMMA PartsAfter ==
    TypeOK' <=> /\ GameTyped' /\ WireTyped' /\ LinkTyped'
                /\ WorkerTyped' /\ NotesTyped' /\ LedgerTyped'
  BY DEF TypeOK, GameTyped, WireTyped, LinkTyped, WorkerTyped, NotesTyped,
         LedgerTyped

LEMMA InitHolds == Init => IInv
  <1>1. SUFFICES ASSUME Init PROVE IInv
    OBVIOUS
  <1>2. worker \in Worker
    BY <1>1 DEF Init, Idle, Worker
  <1>3. ledger \in [Saves -> Ledger] /\ granted \in [Saves -> SUBSET Items]
    BY <1>1 DEF Init, Ledger
  <1>4. TypeOK
    <2>1. GameTyped /\ LinkTyped
      BY <1>1 DEF Init, GameTyped, LinkTyped
    <2>2. WireTyped
      BY <1>1 DEF Init, WireTyped
    <2>3. WorkerTyped
      BY <1>1, <1>2 DEF Init, WorkerTyped, Idle
    <2>4. NotesTyped /\ LedgerTyped
      BY <1>1, <1>3 DEF Init, NotesTyped, LedgerTyped
    <2>5. QED
      BY <2>1, <2>2, <2>3, <2>4, Parts
  <1>5. OneWaits /\ PlanHolds /\ CommandAsPlanned /\ AnswerTrue
    BY <1>1 DEF Init, OneWaits, PlanHolds, CommandAsPlanned, AnswerTrue, Idle
  <1>6. AppliedOnlyIfGranted
    BY <1>1 DEF Init, AppliedOnlyIfGranted
  <1>7. QED
    BY <1>4, <1>5, <1>6 DEF IInv

-----------------------------------------------------------------------------
(* The game: nothing of it but the evaluation of a command matters to what  *)
(* the client has under way.                                                *)

\* What the invariant says beyond types is about these.
Plan == <<forms, reply, lock, session, worker, ledger, granted>>

LEMMA PlanUnchanged ==
    ASSUME IInv, TypeOK', UNCHANGED Plan
    PROVE  IInv'
  <1>1. OneWaits' /\ PlanHolds' /\ CommandAsPlanned'
    BY DEF IInv, Plan, OneWaits, PlanHolds, CommandAsPlanned, Target
  <1>2. AnswerTrue' /\ AppliedOnlyIfGranted'
    BY DEF IInv, Plan, AnswerTrue, AppliedOnlyIfGranted
  <1>3. QED
    BY <1>1, <1>2 DEF IInv

LEMMA MovesHold ==
    ASSUME IInv,
           \/ \E s \in Saves : BeginLoad(s)
           \/ FinishLoad \/ Rebuild \/ Disturb \/ Settle \/ LoseEvents
    PROVE  IInv'
  <1>1. /\ GameTyped /\ WireTyped /\ LinkTyped
        /\ WorkerTyped /\ NotesTyped /\ LedgerTyped
    BY Parts DEF IInv
  <1>2. UNCHANGED <<wireVars, clientVars, granted>>
    BY DEF BeginLoad, FinishLoad, Rebuild, Disturb, Settle, LoseEvents, Move,
           countVars
  <1>3. WireTyped' /\ LinkTyped' /\ WorkerTyped' /\ NotesTyped'
    BY <1>1, <1>2 DEF wireVars, clientVars, itemVars, WireTyped, LinkTyped,
                      WorkerTyped, NotesTyped
  <1>4. GameTyped'
    BY <1>1 DEF BeginLoad, FinishLoad, Rebuild, Disturb, Settle, LoseEvents,
                GameTyped, Events
  <1>5. moves' \in Nat /\ packets' \in Nat /\ faults' \in Nat
    BY <1>1 DEF BeginLoad, FinishLoad, Rebuild, Disturb, Settle, LoseEvents,
                Move, Fault, countVars, LedgerTyped
  <1>6. LedgerTyped'
    BY <1>1, <1>2, <1>5 DEF LedgerTyped, clientVars
  <1>7. UNCHANGED Plan
    BY <1>2 DEF Plan, wireVars, clientVars
  <1>8. QED
    BY <1>3, <1>4, <1>6, <1>7, PartsAfter, PlanUnchanged

\* The forms a restarted game will never see are no longer waited for with
\* success: their sender times out.
LEMMA RestartHolds == ASSUME IInv, RestartGame PROVE IInv'
  <1>1. /\ GameTyped /\ WireTyped /\ LinkTyped
        /\ WorkerTyped /\ NotesTyped /\ LedgerTyped
    BY Parts DEF IInv
  <1>8. UNCHANGED <<calm, reply, clientVars, granted>>
    BY DEF RestartGame
  <1>9. LinkTyped' /\ WorkerTyped' /\ NotesTyped'
    BY <1>1, <1>8 DEF clientVars, itemVars, LinkTyped, WorkerTyped, NotesTyped
  <1>10. GameTyped'
    BY <1>1 DEF RestartGame, GameTyped
  <1>2. WireTyped'
    BY <1>1 DEF RestartGame, WireTyped
  <1>3. LedgerTyped'
    BY <1>1 DEF RestartGame, clientVars, Fault, LedgerTyped
  <1>4. OneWaits' /\ CommandAsPlanned'
    BY DEF IInv, RestartGame, clientVars, OneWaits, CommandAsPlanned
  <1>5. PlanHolds'
    BY DEF IInv, RestartGame, clientVars, PlanHolds, Target
  <1>6. AnswerTrue' /\ AppliedOnlyIfGranted'
    BY DEF IInv, RestartGame, clientVars, AnswerTrue, AppliedOnlyIfGranted
  <1>7. QED
    BY <1>2, <1>3, <1>4, <1>5, <1>6, <1>9, <1>10, PartsAfter DEF IInv

-----------------------------------------------------------------------------
(* The evaluation of forms.                                                 *)

\* Taking the first form leaves the others as they were.
LEMMA TailFacts ==
    ASSUME forms \in Seq(Form), forms # <<>>
    PROVE  /\ Head(forms) = forms[1] /\ Head(forms) \in Form
           /\ 1 \in DOMAIN forms
           /\ Tail(forms) \in Seq(Form)
           /\ \A k \in DOMAIN Tail(forms) :
                 k + 1 \in DOMAIN forms /\ Tail(forms)[k] = forms[k + 1]
                 /\ k \in Nat /\ k + 1 # 1
  OBVIOUS

\* Who has taken the form that is waited for leaves none behind; otherwise the
\* answer is as before.
LEMMA Taken ==
    ASSUME IInv, NEW kind \in {"hello", "ping", "command"}, Evaluates(kind)
    PROVE  /\ forms \in Seq(Form) /\ forms' \in Seq(Form)
           /\ Head(forms) \in Form /\ Head(forms).kind = kind
           /\ CommandAsPlanned'
           /\ \A j, k \in DOMAIN forms' :
                 forms'[j].awaited /\ forms'[k].awaited => j = k
           /\ \A k \in DOMAIN forms' :
                 forms'[k].awaited => /\ lock' = forms'[k].kind /\ reply = None
                                      /\ ~Head(forms).awaited
           /\ Head(forms).awaited => lock = kind /\ lock' = kind /\ reply = None
  <1>1. /\ forms \in Seq(Form) /\ forms # <<>> /\ forms' = Tail(forms)
        /\ Head(forms).kind = kind
        /\ worker' = worker /\ lock' = lock
    BY DEF IInv, TypeOK, Evaluates, clientVars
  <1>2. /\ Head(forms) = forms[1] /\ Head(forms) \in Form
        /\ 1 \in DOMAIN forms
        /\ Tail(forms) \in Seq(Form)
        /\ \A k \in DOMAIN forms' :
              k + 1 \in DOMAIN forms /\ forms'[k] = forms[k + 1]
              /\ k \in Nat /\ k + 1 # 1
    BY <1>1, TailFacts
  <1>3. CommandAsPlanned'
    BY <1>1, <1>2 DEF IInv, CommandAsPlanned
  <1>4. \A j, k \in DOMAIN forms' :
           forms'[j].awaited /\ forms'[k].awaited => j = k
    <2>1. SUFFICES ASSUME NEW j \in DOMAIN forms', NEW k \in DOMAIN forms',
                          forms'[j].awaited, forms'[k].awaited
                   PROVE  j = k
      OBVIOUS
    <2>2. j + 1 = k + 1 /\ j \in Nat /\ k \in Nat
      BY <1>2, <2>1 DEF IInv, OneWaits
    <2>3. QED
      BY <2>2
  <1>5. \A k \in DOMAIN forms' :
           forms'[k].awaited => /\ lock' = forms'[k].kind /\ reply = None
                                /\ ~Head(forms).awaited
    BY <1>1, <1>2 DEF IInv, OneWaits
  <1>6. Head(forms).awaited => lock = kind /\ lock' = kind /\ reply = None
    BY <1>1, <1>2 DEF IInv, OneWaits
  <1>7. QED
    BY <1>1, <1>2, <1>3, <1>4, <1>5, <1>6

\* What a form's evaluation publishes is a reply, and the only one.
LEMMA Published ==
    ASSUME IInv, NEW kind \in {"hello", "ping", "command"}, Evaluates(kind),
           NEW isBound \in BOOLEAN, NEW mask \in SUBSET Items,
           NEW result \in {"ok", "applied", "unsafe", "failed"},
           \/ Publish(Head(forms), isBound, mask, result)
           \/ UNCHANGED <<reply, events>>
    PROVE  /\ WireTyped' /\ OneWaits' /\ CommandAsPlanned'
           /\ events' \in SUBSET Events
           /\ \/ reply' = reply
              \/ /\ Head(forms).awaited /\ lock = kind
                 /\ reply'.result = result
  <1>1. /\ WireTyped /\ GameTyped /\ OneWaits
    BY Parts DEF IInv
  <1>2. /\ forms' \in Seq(Form)
        /\ CommandAsPlanned'
        /\ \A j, k \in DOMAIN forms' :
              forms'[j].awaited /\ forms'[k].awaited => j = k
        /\ \A k \in DOMAIN forms' :
              forms'[k].awaited => /\ lock' = forms'[k].kind /\ reply = None
                                   /\ ~Head(forms).awaited
        /\ Head(forms).awaited => lock = kind /\ lock' = kind /\ reply = None
    BY Taken
  <1>3. lock' = lock
    BY DEF Evaluates, clientVars
  <1>4. CASE UNCHANGED <<reply, events>>
    BY <1>1, <1>2, <1>3, <1>4 DEF WireTyped, OneWaits, GameTyped
  <1>5. CASE Publish(Head(forms), isBound, mask, result)
    <2>1. CASE ~Head(forms).awaited
      BY <1>1, <1>2, <1>3, <1>5, <2>1 DEF Publish, WireTyped, OneWaits, GameTyped
    <2>2. CASE Head(forms).awaited
      <3>1. /\ reply' = [loaded |-> loaded, safe |-> isBound /\ calm,
                         features |-> mask, events |-> events, result |-> result]
            /\ events' = {}
        BY <1>5, <2>2 DEF Publish
      <3>2. (isBound /\ calm) \in BOOLEAN
        OBVIOUS
      <3>3. reply' \in Reply
        BY <1>1, <3>1, <3>2 DEF Reply, GameTyped
      <3>4. reply'.result = result
        BY <3>1
      <3>5. WireTyped' /\ OneWaits' /\ events' \in SUBSET Events
        BY <1>2, <1>3, <2>2, <3>1, <3>3 DEF WireTyped, OneWaits
      <3>6. QED
        BY <1>2, <2>2, <3>4, <3>5
    <2>3. QED
      BY <2>1, <2>2
  <1>6. QED
    BY <1>4, <1>5

LEMMA EvaluatesTypes ==
    ASSUME IInv, NEW kind \in {"hello", "ping", "command"}, Evaluates(kind),
           bound' \in BOOLEAN, greeted' \in BOOLEAN, features' \in SUBSET Items,
           events' \in SUBSET Events, WireTyped',
           granted' \in [Saves -> SUBSET Items]
    PROVE  TypeOK'
  <1>1. /\ GameTyped /\ LinkTyped /\ WorkerTyped /\ NotesTyped /\ LedgerTyped
    BY Parts DEF IInv
  <1>2. UNCHANGED <<loaded, restoring, calm, clientVars, moves, packets, faults>>
    BY DEF Evaluates
  <1>3. GameTyped'
    BY <1>1, <1>2 DEF GameTyped
  <1>4. LinkTyped' /\ WorkerTyped' /\ NotesTyped'
    BY <1>1, <1>2 DEF clientVars, itemVars, LinkTyped, WorkerTyped, NotesTyped
  <1>5. LedgerTyped'
    BY <1>1, <1>2 DEF clientVars, LedgerTyped
  <1>6. QED
    BY <1>3, <1>4, <1>5, PartsAfter

LEMMA HeartbeatHolds ==
    ASSUME IInv, EvaluateHello \/ EvaluatePing
    PROVE  IInv'
  <1>1. PICK kind \in {"hello", "ping"} :
            /\ Evaluates(kind)
            /\ bound' \in BOOLEAN /\ greeted' \in BOOLEAN
            /\ features' = features /\ granted' = granted
            /\ \/ Publish(Head(forms), bound', features, "ok")
               \/ UNCHANGED <<reply, events>>
    <2>1. bound \in BOOLEAN /\ greeted \in BOOLEAN
      BY DEF IInv, TypeOK
    <2>2. CASE EvaluateHello
      BY <2>1, <2>2 DEF EvaluateHello, SidecarMatches
    <2>3. CASE EvaluatePing
      BY <2>1, <2>3 DEF EvaluatePing, SidecarMatches
    <2>4. QED
      BY <2>2, <2>3
  <1>2. features \in SUBSET Items /\ granted \in [Saves -> SUBSET Items]
    BY DEF IInv, TypeOK
  <1>3. /\ WireTyped' /\ OneWaits' /\ CommandAsPlanned'
        /\ events' \in SUBSET Events
        /\ \/ reply' = reply
           \/ Head(forms).awaited /\ lock = kind
    BY <1>1, <1>2, Published
  <1>4. TypeOK'
    BY <1>1, <1>2, <1>3, EvaluatesTypes
  <1>5. UNCHANGED <<lock, worker, ledger>>
    BY <1>1 DEF Evaluates, clientVars
  <1>6. PlanHolds' /\ AppliedOnlyIfGranted'
    BY <1>1, <1>5 DEF IInv, PlanHolds, AppliedOnlyIfGranted, Target
  <1>7. AnswerTrue'
    <2>1. CASE reply' = reply
      BY <1>1, <1>5, <2>1 DEF IInv, AnswerTrue
    <2>2. CASE lock = kind
      <3>1. worker.pc # "sent"
        BY <1>1, <2>2 DEF IInv, TypeOK
      <3>2. QED
        BY <1>5, <3>1 DEF AnswerTrue
    <2>3. QED
      BY <1>3, <2>1, <2>2
  <1>8. QED
    BY <1>3, <1>4, <1>6, <1>7 DEF IInv

\* The game gives what the form says, to the save that is loaded; if somebody
\* still waits for it, that is what the worker planned for its save.
LEMMA CommandHolds == ASSUME IInv, EvaluateCommand PROVE IInv'
  <1> DEFINE form == Head(forms)
  <1>1. Evaluates("command")
    BY DEF EvaluateCommand
  <1>2. /\ forms \in Seq(Form) /\ form \in Form /\ form.kind = "command"
        /\ forms # <<>>
    BY <1>1, Taken DEF Evaluates
  <1>3. /\ bound \in BOOLEAN /\ greeted \in BOOLEAN /\ features \in SUBSET Items
        /\ granted \in [Saves -> SUBSET Items] /\ loaded \in Saves \cup {NoSave}
        /\ form.target \in SUBSET Items
    BY <1>2 DEF IInv, TypeOK, Form
  <1>4. bound' \in BOOLEAN /\ greeted' \in BOOLEAN
    BY <1>3 DEF EvaluateCommand, SidecarMatches
  <1>5. PICK result \in {"applied", "unsafe", "failed"} :
            /\ features' \in SUBSET Items
            /\ \/ Publish(form, bound', features', result)
               \/ UNCHANGED <<reply, events>>
            /\ result = "applied" =>
                 /\ loaded \in Saves /\ form.status = loaded
                 /\ granted' = [granted EXCEPT ![loaded] = @ \cup form.target]
            /\ result # "applied" => granted' = granted
    <2>1. CASE ~greeted
      BY <1>3, <2>1 DEF EvaluateCommand
    <2>2. CASE greeted /\ ~(SidecarMatches(form.status) /\ calm)
      BY <1>3, <2>2 DEF EvaluateCommand
    <2>3. CASE greeted /\ SidecarMatches(form.status) /\ calm
      BY <1>3, <2>3 DEF EvaluateCommand, SidecarMatches
    <2>4. QED
      BY <1>3, <2>1, <2>2, <2>3 DEF SidecarMatches
  <1>6. granted' \in [Saves -> SUBSET Items]
        /\ \A s \in Saves : granted[s] \subseteq granted'[s]
    BY <1>3, <1>5
  <1>7. /\ WireTyped' /\ OneWaits' /\ CommandAsPlanned'
        /\ events' \in SUBSET Events
        /\ \/ reply' = reply
           \/ form.awaited /\ lock = "command" /\ reply'.result = result
    BY <1>1, <1>4, <1>5, Published
  <1>8. TypeOK'
    BY <1>1, <1>4, <1>5, <1>6, <1>7, EvaluatesTypes
  <1>9. UNCHANGED <<lock, worker, ledger>>
    BY <1>1 DEF Evaluates, clientVars
  <1>10. PlanHolds'
    BY <1>9 DEF IInv, PlanHolds, Target
  <1>11. AppliedOnlyIfGranted'
    BY <1>6, <1>9 DEF IInv, AppliedOnlyIfGranted
  <1>12. AnswerTrue'
    <2>1. SUFFICES ASSUME worker.pc = "sent", worker.current,
                          reply' # None, reply'.result = "applied"
                   PROVE  worker.projection.target \subseteq granted'[worker.save]
      BY <1>9 DEF AnswerTrue
    <2>2. worker.save \in Saves
      BY <2>1 DEF IInv, PlanHolds
    <2>3. CASE reply' = reply
      BY <1>6, <2>1, <2>2, <2>3 DEF IInv, AnswerTrue
    <2>4. CASE form.awaited /\ reply'.result = result
      <3>1. 1 \in DOMAIN forms /\ form = forms[1]
        BY <1>2, TailFacts
      <3>2. form.target = worker.projection.target /\ form.status = worker.save
        BY <1>2, <2>1, <2>4, <3>1 DEF IInv, CommandAsPlanned
      <3>3. result = "applied"
        BY <2>1, <2>4
      <3>4. loaded = worker.save
            /\ granted' = [granted EXCEPT ![loaded] = @ \cup form.target]
        BY <1>5, <3>2, <3>3
      <3>5. QED
        BY <1>3, <2>2, <3>2, <3>4
    <2>5. QED
      BY <1>7, <2>3, <2>4
  <1>13. QED
    BY <1>7, <1>8, <1>10, <1>11, <1>12 DEF IInv

-----------------------------------------------------------------------------
(* The client: what is sent, and what nobody waits for any more.            *)

\* With an answer, or the lock free, nobody waits.
LEMMA AnsweredOnce ==
    ASSUME IInv, reply # None \/ lock = "free"
    PROVE  \A k \in DOMAIN forms : ~forms[k].awaited
  <1>1. SUFFICES ASSUME NEW k \in DOMAIN forms, forms[k].awaited PROVE FALSE
    OBVIOUS
  <1>2. forms \in Seq(Form)
    BY DEF IInv, TypeOK
  <1>3. forms[k] \in Form
    BY <1>2
  <1>4. forms[k].kind # "free"
    BY <1>3 DEF Form
  <1>5. lock = forms[k].kind /\ reply = None
    BY <1>1 DEF IInv, OneWaits
  <1>6. QED
    BY <1>4, <1>5

\* With the lock free nobody waits, so what is sent is all that is waited for.
LEMMA Sent ==
    ASSUME IInv, lock = "free",
           NEW kind \in {"hello", "ping", "command"},
           NEW status \in Saves \cup {NoSave}, NEW target \in SUBSET Items,
           NEW origin \in Saves \cup {NoSave},
           Send(kind, status, target, origin), lock' = kind, reply' = reply
    PROVE  /\ WireTyped' /\ OneWaits'
           /\ \A k \in DOMAIN forms' :
                 forms'[k].awaited =>
                   /\ forms'[k].kind = kind /\ forms'[k].status = status
                   /\ forms'[k].target = target /\ forms'[k].origin = origin
  <1> DEFINE new == [kind |-> kind, status |-> status, target |-> target,
                     awaited |-> TRUE, origin |-> origin]
  <1>1. forms' = Append(forms, new) /\ new \in Form
    BY DEF Send, Form
  <1>2. forms \in Seq(Form) /\ reply = None
    BY DEF IInv, TypeOK, OneWaits
  <1>3. \A k \in DOMAIN forms : ~forms[k].awaited
    BY AnsweredOnce
  <1>4. /\ forms' \in Seq(Form)
        /\ \A k \in DOMAIN forms' :
              \/ k \in DOMAIN forms /\ forms'[k] = forms[k]
              \/ k = Len(forms) + 1 /\ forms'[k] = new
    BY <1>1, <1>2
  <1>5. \A k \in DOMAIN forms' :
           forms'[k].awaited => k = Len(forms) + 1 /\ forms'[k] = new
    BY <1>3, <1>4
  <1>6. WireTyped' /\ OneWaits'
    BY <1>2, <1>4, <1>5 DEF WireTyped, OneWaits, IInv, TypeOK
  <1>7. QED
    BY <1>5, <1>6

LEMMA Forgotten ==
    ASSUME forms \in Seq(Form), forms' \in {Orphaned, <<>>}
    PROVE  /\ forms' \in Seq(Form)
           /\ \A k \in DOMAIN forms' : ~forms'[k].awaited
  <1>1. CASE forms' = <<>>
    BY <1>1
  <1>2. CASE forms' = Orphaned
    <2>1. \A k \in DOMAIN forms :
             /\ Orphaned[k] \in Form
             /\ ~Orphaned[k].awaited
      <3>1. SUFFICES ASSUME NEW k \in DOMAIN forms
                     PROVE  Orphaned[k] \in Form /\ ~Orphaned[k].awaited
        OBVIOUS
      <3>2. forms[k] \in Form /\ Orphaned[k] = [forms[k] EXCEPT !.awaited = FALSE]
        BY DEF Orphaned
      <3>3. QED
        BY <3>2 DEF Form
    <2>2. DOMAIN Orphaned = 1 .. Len(forms) /\ Len(forms) \in Nat
      BY DEF Orphaned
    <2>3. Orphaned \in [1 .. Len(forms) -> Form]
      BY <2>1, <2>2 DEF Orphaned
    <2>4. QED
      BY <1>2, <2>1, <2>2, <2>3
  <1>3. QED
    BY <1>1, <1>2

\* A step that leaves nobody waiting keeps what is said of forms and answers.
LEMMA NobodyWaits ==
    ASSUME forms' \in Seq(Form), \A k \in DOMAIN forms' : ~forms'[k].awaited,
           reply' = None
    PROVE  WireTyped' /\ OneWaits' /\ CommandAsPlanned' /\ AnswerTrue'
  BY DEF WireTyped, OneWaits, CommandAsPlanned, AnswerTrue

LEMMA Closed == ASSUME ForgetSession PROVE NotesTyped' /\ session' = NoSave
  BY DEF ForgetSession, NotesTyped

LEMMA AsksHold == ASSUME IInv, Connect \/ SendPing PROVE IInv'
  <1>1. /\ GameTyped /\ WireTyped /\ LinkTyped
        /\ WorkerTyped /\ NotesTyped /\ LedgerTyped
    BY Parts DEF IInv
  <1>2. PICK kind \in {"hello", "ping"}, status \in Saves \cup {NoSave} :
           Send(kind, status, {}, NoSave) /\ lock' = kind
    BY <1>1 DEF Connect, SendPing, WorkerTyped
  <1>3. /\ lock = "free"
        /\ UNCHANGED <<goalVars, reply, ready, authenticated, session, last,
                       worker, itemVars, packet, ledger, countVars>>
    BY DEF Connect, SendPing
  <1>4. /\ WireTyped' /\ OneWaits'
        /\ \A k \in DOMAIN forms' : forms'[k].awaited => forms'[k].kind = kind
    BY <1>2, <1>3, Sent
  <1>5. GameTyped' /\ LinkTyped'
    BY <1>1, <1>3 DEF goalVars, GameTyped, LinkTyped
  <1>6. NotesTyped' /\ LedgerTyped'
    BY <1>1, <1>3 DEF itemVars, countVars, NotesTyped, LedgerTyped
  <1>7. WorkerTyped'
    BY <1>1, <1>2, <1>3 DEF WorkerTyped
  <1>8. CommandAsPlanned'
    BY <1>2, <1>4 DEF CommandAsPlanned
  <1>9. PlanHolds'
    BY <1>3 DEF IInv, PlanHolds, Target
  <1>10. AnswerTrue' /\ AppliedOnlyIfGranted'
    BY <1>3 DEF IInv, AnswerTrue, AppliedOnlyIfGranted, countVars
  <1>11. QED
    BY <1>4, <1>5, <1>6, <1>7, <1>8, <1>9, <1>10, PartsAfter DEF IInv

\* The worker that is planned for a session keeps calling it its own only as
\* long as the session stays the same.
LEMMA ObserveHolds == ASSUME IInv, Observe PROVE IInv'
  <1>1. /\ GameTyped /\ WireTyped /\ LinkTyped
        /\ WorkerTyped /\ NotesTyped /\ LedgerTyped
    BY Parts DEF IInv
  <1>2. /\ lock \in {"hello", "ping"} /\ lock' = "free"
        /\ reply # None /\ reply' = None
        /\ ready' = (ready \/ lock = "hello")
        /\ last' = [loaded |-> reply.loaded, safe |-> reply.safe]
        /\ UNCHANGED <<goalVars, forms, authenticated, packet, ledger, moves,
                       packets, granted>>
    BY DEF Observe
  <1>3. reply \in Reply
    BY <1>1, <1>2 DEF WireTyped
  <1>4. WireTyped' /\ OneWaits' /\ CommandAsPlanned' /\ AnswerTrue'
    BY <1>1, <1>2, AnsweredOnce, NobodyWaits DEF WireTyped
  <1>5. GameTyped' /\ LinkTyped'
    BY <1>1, <1>2, <1>3 DEF goalVars, GameTyped, LinkTyped, Reply
  <1> DEFINE wanted == IF authenticated THEN reply.loaded ELSE NoSave
             rebuilt == session # NoSave /\ "rebuild" \in reply.events
  <1>6. PICK switched \in BOOLEAN, refused \in BOOLEAN :
          LET opened == session # wanted \/ switched
              closed == session # NoSave /\ opened
          IN  /\ IF switched \/ refused THEN Fault ELSE UNCHANGED faults
              /\ session' = IF refused THEN NoSave ELSE wanted
              /\ IF session' # NoSave THEN NoteRuntime(wanted, opened, rebuilt)
                 ELSE IF closed THEN ForgetSession
                 ELSE UNCHANGED itemVars
              /\ worker' =
                   IF worker.pc = "idle"
                   THEN [Idle EXCEPT !.pc = IF session' # NoSave
                                            THEN "scheduled" ELSE "idle"]
                   ELSE [worker EXCEPT !.current = @ /\ ~closed /\ ~refused,
                                       !.rebuilt = @ \/ rebuilt]
    BY DEF Observe
  <1> DEFINE opened == session # wanted \/ switched
             closed == session # NoSave /\ opened
  <1>7. faults' \in Nat
    BY <1>1, <1>6 DEF Fault, LedgerTyped
  <1>8. LedgerTyped'
    BY <1>1, <1>2, <1>7 DEF LedgerTyped
  <1>9. wanted \in Saves \cup {NoSave} /\ session' \in Saves \cup {NoSave}
    BY <1>1, <1>3, <1>6 DEF Reply, LinkTyped
  <1>10. NotesTyped'
    <2>1. CASE session' # NoSave
      <3>1. NoteRuntime(wanted, opened, rebuilt)
        BY <1>6, <2>1
      <3>2. reply.safe \in BOOLEAN /\ dirty \in BOOLEAN
        BY <1>1, <1>3 DEF Reply, NotesTyped
      <3>3. dirty' \in BOOLEAN /\ runtime' \in BOOLEAN \cup {None}
        BY <3>1, <3>2 DEF NoteRuntime
      <3>4. confirmed' \in {None, confirmed} /\ failed' \in {None, failed}
        BY <3>1 DEF NoteRuntime
      <3>5. QED
        BY <1>1, <3>3, <3>4 DEF NotesTyped
    <2>2. CASE session' = NoSave /\ closed
      BY <1>6, <2>2, Closed
    <2>3. CASE session' = NoSave /\ ~closed
      BY <1>1, <1>6, <2>3 DEF itemVars, NotesTyped
    <2>4. QED
      BY <2>1, <2>2, <2>3
  <1>11. CASE worker.pc = "idle"
    <2>1. worker' \in Worker /\ worker'.pc \in {"idle", "scheduled"}
          /\ worker'.current = FALSE
      BY <1>6, <1>11 DEF Worker, Idle
    <2>2. WorkerTyped'
      BY <1>2, <1>9, <2>1 DEF WorkerTyped
    <2>3. PlanHolds' /\ AppliedOnlyIfGranted'
      BY <1>2, <2>1 DEF IInv, PlanHolds, AppliedOnlyIfGranted
    <2>4. QED
      BY <1>4, <1>5, <1>8, <1>10, <2>2, <2>3, PartsAfter DEF IInv
  <1>12. CASE worker.pc # "idle"
    <2>1. worker' = [worker EXCEPT !.current = @ /\ ~closed /\ ~refused,
                                   !.rebuilt = @ \/ rebuilt]
      BY <1>6, <1>12
    <2>2. /\ worker \in Worker /\ worker.current \in BOOLEAN
          /\ worker.rebuilt \in BOOLEAN
      BY <1>1 DEF WorkerTyped, Worker
    <2>3. /\ worker' \in Worker
          /\ worker'.pc = worker.pc /\ worker'.save = worker.save
          /\ worker'.projection = worker.projection
          /\ worker'.current => worker.current /\ ~closed /\ ~refused
      BY <2>1, <2>2 DEF Worker
    <2>4. worker'.pc # "sent"
      BY <1>1, <1>2, <2>3 DEF WorkerTyped
    <2>5. worker'.current => worker'.save = session'
      <3>1. SUFFICES ASSUME worker'.current PROVE worker.save = session'
        BY <2>3
      <3>2. worker.save \in Saves /\ worker.save = session
        BY <1>1, <2>3, <3>1 DEF IInv, PlanHolds, WorkerTyped
      <3>3. session = wanted /\ session' = wanted
        BY <1>6, <2>3, <3>1, <3>2, SentinelAssumption
      <3>4. QED
        BY <3>2, <3>3
    <2>6. WorkerTyped'
      BY <1>2, <1>9, <2>3, <2>4, <2>5 DEF WorkerTyped
    <2>7. PlanHolds' /\ AppliedOnlyIfGranted'
      BY <1>2, <2>3 DEF IInv, PlanHolds, AppliedOnlyIfGranted, Target
    <2>8. QED
      BY <1>4, <1>5, <1>8, <1>10, <2>6, <2>7, PartsAfter DEF IInv
  <1>13. QED
    BY <1>11, <1>12

\* Whoever holds the lock gives up, and the connection and the session with it.
LEMMA TimeoutHolds ==
    ASSUME IInv, TimesOutEarly \/ TimesOutUnanswered PROVE IInv'
  <1>1. /\ GameTyped /\ WireTyped /\ LinkTyped
        /\ WorkerTyped /\ NotesTyped /\ LedgerTyped
    BY Parts DEF IInv
  <1>2. /\ lock' = "free" /\ reply' = None /\ ready' = FALSE /\ ForgetSession
        /\ events' = IF reply = None THEN events ELSE events \cup reply.events
        /\ forms' \in {Orphaned, <<>>}
        /\ worker' = IF lock = "command" THEN Idle
                     ELSE [worker EXCEPT !.current = FALSE]
        /\ UNCHANGED <<loaded, restoring, bound, greeted, calm, features,
                       authenticated, last, packet, ledger, moves, packets,
                       granted>>
    BY DEF TimesOutEarly, TimesOutUnanswered, TimesOut, Unavailable
  <1>3. faults' \in Nat
    BY <1>1 DEF TimesOutEarly, TimesOutUnanswered, Fault, LedgerTyped
  <1>4. /\ forms' \in Seq(Form)
        /\ \A k \in DOMAIN forms' : ~forms'[k].awaited
    BY <1>1, <1>2, Forgotten DEF WireTyped
  <1>5. WireTyped' /\ OneWaits' /\ CommandAsPlanned' /\ AnswerTrue'
    BY <1>2, <1>4, NobodyWaits
  <1>6. GameTyped' /\ LinkTyped'
    BY <1>1, <1>2 DEF GameTyped, LinkTyped, WireTyped, Reply
  <1>7. NotesTyped' /\ session' = NoSave
    BY <1>2, Closed
  <1>8. LedgerTyped'
    BY <1>1, <1>2, <1>3 DEF LedgerTyped
  <1>9. /\ worker' \in Worker /\ ~worker'.current /\ worker'.pc # "sent"
        /\ worker'.pc = "waiting" =>
             /\ worker.pc = "waiting" /\ worker'.save = worker.save
             /\ worker'.projection = worker.projection
    <2>1. CASE lock = "command"
      BY <1>2, <2>1 DEF Worker, Idle
    <2>2. CASE lock # "command"
      BY <1>1, <1>2, <2>2 DEF WorkerTyped, Worker
    <2>3. QED
      BY <2>1, <2>2
  <1>10. WorkerTyped'
    BY <1>2, <1>7, <1>9 DEF WorkerTyped
  <1>11. PlanHolds'
    BY <1>2, <1>9 DEF IInv, PlanHolds, Target
  <1>12. AppliedOnlyIfGranted'
    BY <1>2 DEF IInv, AppliedOnlyIfGranted
  <1>13. QED
    BY <1>5, <1>6, <1>7, <1>8, <1>10, <1>11, <1>12, PartsAfter DEF IInv

\* A plan outlives the session it was made in, but no longer calls it current.
LEMMA RoomHolds == ASSUME IInv, OnRoomInfo PROVE IInv'
  <1>1. /\ GameTyped /\ WireTyped /\ LinkTyped
        /\ WorkerTyped /\ NotesTyped /\ LedgerTyped
    BY Parts DEF IInv
  <1>2. /\ authenticated' = FALSE /\ packet' = None
        /\ worker' = [worker EXCEPT !.current = FALSE]
        /\ UNCHANGED <<goalVars, wireVars, ready, lock, last, ledger, moves,
                       packets, granted>>
    BY DEF OnRoomInfo
  <1>3. NotesTyped' /\ session' = NoSave
    BY Closed DEF OnRoomInfo
  <1>4. faults' \in Nat
    BY <1>1 DEF OnRoomInfo, Fault, LedgerTyped
  <1>5. GameTyped' /\ WireTyped' /\ LinkTyped'
    BY <1>1, <1>2 DEF goalVars, wireVars, GameTyped, WireTyped, LinkTyped
  <1>6. LedgerTyped'
    BY <1>1, <1>2, <1>4 DEF LedgerTyped
  <1>7. /\ worker' \in Worker /\ ~worker'.current
        /\ worker'.pc = worker.pc /\ worker'.save = worker.save
        /\ worker'.projection = worker.projection
    BY <1>1, <1>2 DEF WorkerTyped, Worker
  <1>8. WorkerTyped'
    BY <1>1, <1>2, <1>3, <1>7 DEF WorkerTyped
  <1>9. OneWaits' /\ CommandAsPlanned'
    BY <1>2, <1>7 DEF IInv, OneWaits, CommandAsPlanned, wireVars
  <1>10. PlanHolds' /\ AnswerTrue' /\ AppliedOnlyIfGranted'
    BY <1>2, <1>7 DEF IInv, PlanHolds, AnswerTrue, AppliedOnlyIfGranted, Target
  <1>11. QED
    BY <1>3, <1>5, <1>6, <1>8, <1>9, <1>10, PartsAfter DEF IInv

LEMMA ConnectedHolds == ASSUME IInv, OnConnected PROVE IInv'
  <1>1. /\ GameTyped /\ WireTyped /\ LinkTyped
        /\ WorkerTyped /\ NotesTyped /\ LedgerTyped
    BY Parts DEF IInv
  <1>2. GameTyped' /\ WireTyped' /\ LinkTyped' /\ WorkerTyped'
    BY <1>1 DEF OnConnected, goalVars, wireVars, GameTyped, WireTyped, LinkTyped,
                WorkerTyped
  <1>3. NotesTyped' /\ LedgerTyped'
    BY <1>1 DEF OnConnected, countVars, NotesTyped, LedgerTyped
  <1>4. UNCHANGED Plan
    BY DEF OnConnected, Plan, wireVars, countVars
  <1>5. QED
    BY <1>2, <1>3, <1>4, PartsAfter, PlanUnchanged

LEMMA CrashHolds == ASSUME IInv, CrashClient PROVE IInv'
  <1>1. /\ GameTyped /\ WireTyped /\ LinkTyped
        /\ WorkerTyped /\ NotesTyped /\ LedgerTyped
    BY Parts DEF IInv
  <1>2. /\ lock' = "free" /\ reply' = None /\ session' = NoSave
        /\ worker' = Idle
        /\ forms' \in {Orphaned, <<>>}
        /\ events' = IF reply = None THEN events ELSE events \cup reply.events
        /\ UNCHANGED <<loaded, restoring, bound, greeted, calm, features, ledger,
                       moves, packets, granted>>
    BY DEF CrashClient
  <1>3. /\ forms' \in Seq(Form)
        /\ \A k \in DOMAIN forms' : ~forms'[k].awaited
    BY <1>1, <1>2, Forgotten DEF WireTyped
  <1>4. WireTyped' /\ OneWaits' /\ CommandAsPlanned' /\ AnswerTrue'
    BY <1>2, <1>3, NobodyWaits
  <1>5. GameTyped'
    BY <1>1, <1>2 DEF GameTyped, WireTyped, Reply
  <1>6. LinkTyped' /\ NotesTyped' /\ LedgerTyped'
    <2>1. packet' = None /\ faults' \in Nat
      BY <1>1 DEF CrashClient, Fault, LedgerTyped
    <2>2. LedgerTyped'
      BY <1>1, <1>2, <2>1 DEF LedgerTyped
    <2>3. QED
      BY <2>2 DEF CrashClient, LinkTyped, NotesTyped
  <1>7. WorkerTyped'
    BY <1>2 DEF WorkerTyped, Worker, Idle
  <1>8. PlanHolds' /\ AppliedOnlyIfGranted'
    BY <1>2 DEF IInv, PlanHolds, AppliedOnlyIfGranted, Idle
  <1>9. QED
    BY <1>4, <1>5, <1>6, <1>7, <1>8, PartsAfter DEF IInv

-----------------------------------------------------------------------------
(* The client: the item worker.                                             *)

\* A packet adds receipts or takes back; it never marks.
LEMMA AfterTyped ==
    ASSUME NEW p \in Packet, NEW entry \in Ledger
    PROVE  After(p, entry) \in Ledger /\ After(p, entry).applied \subseteq entry.applied
  <1>1. /\ p.items \in SUBSET Items
        /\ entry.pending \in SUBSET Items /\ entry.applied \in SUBSET Items
    BY DEF Packet, Ledger
  <1>2. CASE p.kind = "add"
    BY <1>1, <1>2 DEF After, Ledger
  <1>3. CASE p.kind # "add"
    BY <1>1, <1>3 DEF After, Ledger
  <1>4. QED
    BY <1>2, <1>3

LEMMA MarkedTyped ==
    ASSUME NEW entry \in Ledger
    PROVE  /\ Target(entry) \in SUBSET Items
           /\ Marked(entry) \in Ledger /\ Marked(entry).applied = Target(entry)
  BY DEF Target, Marked, Ledger

\* Who has not sent a command has none under way.
LEMMA NoCommand ==
    ASSUME IInv, worker.pc # "sent"
    PROVE  \A k \in DOMAIN forms : forms[k].awaited => forms[k].kind # "command"
  BY DEF IInv, TypeOK, OneWaits

LEMMA PacketHolds == ASSUME IInv, ReceivePacket PROVE IInv'
  <1>1. /\ GameTyped /\ WireTyped /\ LinkTyped
        /\ WorkerTyped /\ NotesTyped /\ LedgerTyped
    BY Parts DEF IInv
  <1>2. /\ packet' \in Packet /\ packets' = packets + 1
        /\ worker' = IF worker.pc = "idle"
                     THEN [Idle EXCEPT !.pc = "scheduled"] ELSE worker
        /\ UNCHANGED <<goalVars, wireVars, ready, authenticated, session, lock,
                       last, itemVars, ledger, moves, faults, granted>>
    BY DEF ReceivePacket
  <1>3. GameTyped' /\ WireTyped' /\ LinkTyped'
    BY <1>1, <1>2 DEF goalVars, wireVars, GameTyped, WireTyped, LinkTyped
  <1>4. NotesTyped' /\ LedgerTyped'
    BY <1>1, <1>2 DEF itemVars, NotesTyped, LedgerTyped
  <1>5. CASE worker.pc # "idle"
    <2>1. worker' = worker /\ WorkerTyped'
      BY <1>1, <1>2, <1>5 DEF WorkerTyped
    <2>2. UNCHANGED Plan
      BY <1>2, <2>1 DEF Plan, wireVars
    <2>3. QED
      BY <1>3, <1>4, <2>1, <2>2, PartsAfter, PlanUnchanged
  <1>6. CASE worker.pc = "idle"
    <2>1. worker' \in Worker /\ worker'.pc = "scheduled" /\ ~worker'.current
      BY <1>2, <1>6 DEF Worker, Idle
    <2>2. WorkerTyped'
      BY <1>1, <1>2, <1>6, <2>1 DEF WorkerTyped
    <2>3. \A k \in DOMAIN forms :
             forms[k].awaited => forms[k].kind # "command"
      BY <1>6, NoCommand
    <2>4. OneWaits' /\ CommandAsPlanned'
      BY <1>2, <2>3 DEF IInv, OneWaits, CommandAsPlanned, wireVars
    <2>5. PlanHolds' /\ AnswerTrue' /\ AppliedOnlyIfGranted'
      BY <1>2, <2>1 DEF IInv, PlanHolds, AnswerTrue, AppliedOnlyIfGranted
    <2>6. QED
      BY <1>3, <1>4, <2>2, <2>4, <2>5, PartsAfter DEF IInv
  <1>7. QED
    BY <1>5, <1>6

\* A worker that ends without a command of its own leaves what the others wait
\* for.
LEMMA WorkerEnds ==
    ASSUME IInv, worker.pc # "sent", worker' = Idle,
           UNCHANGED <<forms, reply, lock>>,
           session' \in Saves \cup {NoSave}
    PROVE  /\ WireTyped' /\ OneWaits' /\ CommandAsPlanned'
           /\ WorkerTyped' /\ PlanHolds' /\ AnswerTrue'
  <1>1. WireTyped /\ WorkerTyped
    BY Parts DEF IInv
  <1>2. \A k \in DOMAIN forms : forms[k].awaited => forms[k].kind # "command"
    BY NoCommand
  <1>3. WireTyped' /\ OneWaits' /\ CommandAsPlanned'
    BY <1>1, <1>2 DEF IInv, WireTyped, OneWaits, CommandAsPlanned
  <1>4. WorkerTyped'
    BY <1>1 DEF WorkerTyped, Worker, Idle
  <1>5. PlanHolds' /\ AnswerTrue'
    BY DEF PlanHolds, AnswerTrue, Idle
  <1>6. QED
    BY <1>3, <1>4, <1>5

LEMMA StopsHold == ASSUME IInv, WorkerStops PROVE IInv'
  <1>1. /\ GameTyped /\ LinkTyped /\ WorkerTyped /\ NotesTyped /\ LedgerTyped
    BY Parts DEF IInv
  <1>2. GameTyped' /\ LinkTyped' /\ NotesTyped' /\ LedgerTyped'
    BY <1>1 DEF WorkerStops, goalVars, itemVars, countVars, GameTyped, LinkTyped,
                NotesTyped, LedgerTyped
  <1>3. /\ WireTyped' /\ OneWaits' /\ CommandAsPlanned'
        /\ WorkerTyped' /\ PlanHolds' /\ AnswerTrue'
    BY <1>1, WorkerEnds DEF WorkerStops, wireVars, WorkerTyped
  <1>4. AppliedOnlyIfGranted'
    BY DEF IInv, WorkerStops, countVars, AppliedOnlyIfGranted
  <1>5. QED
    BY <1>2, <1>3, <1>4, PartsAfter DEF IInv

LEMMA FailsHold == ASSUME IInv, WorkerFails PROVE IInv'
  <1>1. /\ GameTyped /\ LinkTyped /\ WorkerTyped /\ NotesTyped /\ LedgerTyped
    BY Parts DEF IInv
  <1>2. /\ worker.pc = "scheduled" /\ session # NoSave /\ packet # None
        /\ faults' = faults + 1
        /\ ledger' \in {ledger, [ledger EXCEPT ![session] = After(packet, @)]}
        /\ ready' = FALSE /\ ForgetSession /\ worker' = Idle
        /\ UNCHANGED <<goalVars, wireVars, authenticated, lock, last, packet,
                       moves, packets, granted>>
    BY DEF WorkerFails, Unavailable, Fault
  <1>3. session \in Saves /\ packet \in Packet /\ ledger[session] \in Ledger
    BY <1>1, <1>2 DEF WorkerTyped, LedgerTyped
  <1>4. /\ After(packet, ledger[session]) \in Ledger
        /\ After(packet, ledger[session]).applied \subseteq ledger[session].applied
    BY <1>3, AfterTyped
  <1>5. ledger' \in [Saves -> Ledger]
        /\ \A s \in Saves : ledger'[s].applied \subseteq ledger[s].applied
    BY <1>1, <1>2, <1>3, <1>4 DEF LedgerTyped
  <1>6. GameTyped' /\ LinkTyped' /\ LedgerTyped'
    <2>1. packet' = packet /\ faults' \in Nat
      BY <1>1, <1>2 DEF LedgerTyped
    <2>2. LedgerTyped'
      BY <1>1, <1>2, <1>5, <2>1 DEF LedgerTyped
    <2>3. QED
      BY <1>1, <1>2, <2>2 DEF goalVars, GameTyped, LinkTyped
  <1>7. NotesTyped' /\ session' = NoSave
    BY <1>2, Closed
  <1>8. /\ WireTyped' /\ OneWaits' /\ CommandAsPlanned'
        /\ WorkerTyped' /\ PlanHolds' /\ AnswerTrue'
    BY <1>2, <1>7, WorkerEnds DEF wireVars
  <1>9. AppliedOnlyIfGranted'
    BY <1>2, <1>5 DEF IInv, AppliedOnlyIfGranted
  <1>10. QED
    BY <1>6, <1>7, <1>8, <1>9, PartsAfter DEF IInv

\* The command that is sent is all that is waited for, and it is as planned.
LEMMA CommandSent ==
    ASSUME IInv, lock = "free", lock' = "command", reply' = reply,
           worker'.pc = "sent", worker'.projection.target \in SUBSET Items,
           worker'.save \in Saves, session \in Saves \cup {NoSave},
           worker'.current => worker'.save = session,
           Send("command", session, worker'.projection.target, worker'.save)
    PROVE  WireTyped' /\ OneWaits' /\ CommandAsPlanned' /\ AnswerTrue'
  <1>1. /\ WireTyped' /\ OneWaits'
        /\ \A k \in DOMAIN forms' :
              forms'[k].awaited =>
                /\ forms'[k].status = session
                /\ forms'[k].target = worker'.projection.target
                /\ forms'[k].origin = worker'.save
    <2>1. PICK status \in Saves \cup {NoSave}, target \in SUBSET Items,
               origin \in Saves \cup {NoSave} :
             /\ status = session /\ target = worker'.projection.target
             /\ origin = worker'.save
      OBVIOUS
    <2>2. Send("command", status, target, origin)
      BY <2>1
    <2>3. QED
      BY <2>1, <2>2, Sent
  <1>2. CommandAsPlanned'
    BY <1>1 DEF CommandAsPlanned
  <1>3. reply' = None
    BY DEF IInv, OneWaits
  <1>4. QED
    BY <1>1, <1>2, <1>3 DEF AnswerTrue

\* The commit and the plan are one step: the target is that of the ledger as
\* it has just become durable.
LEMMA RunsHold == ASSUME IInv, WorkerRuns PROVE IInv'
  <1> DEFINE entry == IF packet = None THEN ledger[session]
                      ELSE After(packet, ledger[session])
             changed == entry # ledger[session]
  <1>1. /\ GameTyped /\ WireTyped /\ LinkTyped
        /\ WorkerTyped /\ NotesTyped /\ LedgerTyped
    BY Parts DEF IInv
  <1>2. /\ worker.pc = "scheduled" /\ session # NoSave
        /\ packet' = None
        /\ ledger' = [ledger EXCEPT ![session] = entry]
        /\ dirty' = (dirty \/ changed)
        /\ failed' = IF changed THEN None ELSE failed
        /\ Reconcile(entry, changed)
        /\ UNCHANGED <<goalVars, reply, ready, authenticated, session, last,
                       confirmed, runtime, countVars>>
    BY DEF WorkerRuns
  <1>3. session \in Saves /\ ledger[session] \in Ledger
    BY <1>1, <1>2 DEF WorkerTyped, LedgerTyped
  <1>4. entry \in Ledger /\ entry.applied \subseteq ledger[session].applied
    <2>1. CASE packet = None
      BY <1>3, <2>1
    <2>2. CASE packet # None
      BY <1>1, <1>3, <2>2, AfterTyped DEF LedgerTyped
    <2>3. QED
      BY <2>1, <2>2
  <1>5. /\ ledger' \in [Saves -> Ledger] /\ ledger'[session] = entry
        /\ \A s \in Saves : ledger'[s].applied \subseteq ledger[s].applied
    BY <1>1, <1>2, <1>3, <1>4 DEF LedgerTyped
  <1>6. GameTyped' /\ LinkTyped'
    BY <1>1, <1>2 DEF goalVars, GameTyped, LinkTyped
  <1>7. NotesTyped' /\ LedgerTyped'
    BY <1>1, <1>2, <1>5 DEF countVars, NotesTyped, LedgerTyped
  <1>8. AppliedOnlyIfGranted'
    BY <1>2, <1>5 DEF IInv, AppliedOnlyIfGranted, countVars
  <1>9. Target(entry) \in SUBSET Items
    BY <1>4, MarkedTyped
  <1>10. CASE worker' = Idle
    <2>1. UNCHANGED <<forms, lock>>
      <3>1. worker'.pc = "idle" /\ Started(entry).pc \in {"sent", "waiting"}
        BY <1>10 DEF Idle, Started
      <3>2. worker' # Started(entry)
        BY <3>1
      <3>3. QED
        BY <1>2, <3>2 DEF Reconcile
    <2>2. /\ WireTyped' /\ OneWaits' /\ CommandAsPlanned'
          /\ WorkerTyped' /\ PlanHolds' /\ AnswerTrue'
      BY <1>1, <1>2, <1>10, <2>1, WorkerEnds DEF WorkerTyped
    <2>3. QED
      BY <1>6, <1>7, <1>8, <2>2, PartsAfter DEF IInv
  <1>11. CASE worker' # Idle
    <2>1. /\ last # None /\ worker' = Started(entry)
          /\ IF Started(entry).pc = "sent"
             THEN /\ lock' = "command"
                  /\ Send("command", session, Target(entry), session)
             ELSE UNCHANGED <<lock, forms>>
      BY <1>2, <1>11 DEF Reconcile
    <2>2. last.loaded \in Saves \cup {NoSave}
      BY <1>1, <2>1 DEF LinkTyped
    <2>3. /\ worker' \in Worker /\ worker'.save = session
          /\ worker'.projection.target = Target(entry)
          /\ worker'.pc = IF lock = "free" /\ ready THEN "sent" ELSE "waiting"
      BY <1>3, <1>9, <2>1, <2>2 DEF Started, Worker, Projection
    <2>4. PlanHolds'
      BY <1>3, <1>5, <2>3 DEF PlanHolds, Target
    <2>5. CASE lock = "free" /\ ready
      <3>1. /\ lock' = "command" /\ worker'.pc = "sent"
            /\ Send("command", session, worker'.projection.target, worker'.save)
        BY <2>1, <2>3, <2>5 DEF Started
      <3>2. WireTyped' /\ OneWaits' /\ CommandAsPlanned' /\ AnswerTrue'
        BY <1>2, <1>3, <1>9, <2>3, <2>5, <3>1, CommandSent
      <3>3. WorkerTyped'
        BY <1>2, <1>3, <2>3, <3>1 DEF WorkerTyped
      <3>4. QED
        BY <1>6, <1>7, <1>8, <2>4, <3>2, <3>3, PartsAfter DEF IInv
    <2>6. CASE ~(lock = "free" /\ ready)
      <3>1. worker'.pc = "waiting" /\ UNCHANGED <<lock, forms>>
        BY <2>1, <2>3, <2>6 DEF Started
      <3>2. \A k \in DOMAIN forms :
               forms[k].awaited => forms[k].kind # "command"
        BY <1>2, NoCommand
      <3>3. WireTyped' /\ OneWaits' /\ CommandAsPlanned' /\ AnswerTrue'
        BY <1>1, <1>2, <3>1, <3>2
           DEF IInv, WireTyped, OneWaits, CommandAsPlanned, AnswerTrue
      <3>4. WorkerTyped'
        BY <1>1, <1>2, <1>3, <2>3, <3>1 DEF WorkerTyped
      <3>5. QED
        BY <1>6, <1>7, <1>8, <2>4, <3>3, <3>4, PartsAfter DEF IInv
    <2>7. QED
      BY <2>5, <2>6
  <1>12. QED
    BY <1>10, <1>11

\* The session may be another by now: the command reports that one, and the
\* worker knows that its own is over.
LEMMA SendsHold == ASSUME IInv, WorkerSends PROVE IInv'
  <1>1. /\ GameTyped /\ WireTyped /\ LinkTyped
        /\ WorkerTyped /\ NotesTyped /\ LedgerTyped
    BY Parts DEF IInv
  <1>2. /\ worker.pc = "waiting" /\ lock = "free"
        /\ UNCHANGED <<goalVars, reply, authenticated, last, packet, ledger,
                       countVars>>
    BY DEF WorkerSends
  <1>3. GameTyped' /\ LedgerTyped'
    BY <1>1, <1>2 DEF goalVars, countVars, GameTyped, LedgerTyped
  <1>4. AppliedOnlyIfGranted'
    BY <1>2 DEF IInv, AppliedOnlyIfGranted, countVars
  <1>5. CASE ready
    <2>1. /\ worker' = [worker EXCEPT !.pc = "sent"] /\ lock' = "command"
          /\ Send("command", session, worker.projection.target, worker.save)
          /\ UNCHANGED <<ready, session, itemVars>>
      BY <1>5 DEF WorkerSends
    <2>2. /\ worker.save \in Saves
          /\ worker.projection.target = Target(ledger[worker.save])
      BY <1>2 DEF IInv, PlanHolds
    <2>3. worker.projection.target \in SUBSET Items
      BY <1>1, <2>2, MarkedTyped DEF LedgerTyped
    <2>4. /\ worker' \in Worker /\ worker'.pc = "sent"
          /\ worker'.save = worker.save /\ worker'.current = worker.current
          /\ worker'.projection = worker.projection
      BY <1>1, <2>1 DEF WorkerTyped, Worker
    <2>5. WorkerTyped'
      BY <1>1, <2>1, <2>4 DEF WorkerTyped
    <2>6. WireTyped' /\ OneWaits' /\ CommandAsPlanned' /\ AnswerTrue'
      BY <1>1, <1>2, <2>1, <2>2, <2>3, <2>4, CommandSent DEF WorkerTyped
    <2>7. PlanHolds'
      BY <1>2, <2>2, <2>4 DEF PlanHolds, Target
    <2>8. LinkTyped' /\ NotesTyped'
      BY <1>1, <1>2, <2>1 DEF itemVars, LinkTyped, NotesTyped
    <2>9. QED
      BY <1>3, <1>4, <2>5, <2>6, <2>7, <2>8, PartsAfter DEF IInv
  <1>6. CASE ~ready
    <2>1. /\ ready' = FALSE /\ ForgetSession /\ worker' = Idle
          /\ UNCHANGED <<lock, forms>>
      BY <1>6 DEF WorkerSends, Unavailable
    <2>2. NotesTyped' /\ session' = NoSave
      BY <2>1, Closed
    <2>3. /\ WireTyped' /\ OneWaits' /\ CommandAsPlanned'
          /\ WorkerTyped' /\ PlanHolds' /\ AnswerTrue'
      BY <1>2, <2>1, <2>2, WorkerEnds
    <2>4. LinkTyped'
      BY <1>1, <1>2, <2>1 DEF LinkTyped
    <2>5. QED
      BY <1>3, <1>4, <2>2, <2>3, <2>4, PartsAfter DEF IInv
  <1>7. QED
    BY <1>5, <1>6

\* Once the receipt is read nobody waits, and nothing is planned.
LEMMA Received ==
    ASSUME IInv, Receipt, worker'.pc \in {"idle", "scheduled"},
           worker' \in Worker, ~worker'.current, faults' \in Nat,
           session' \in Saves \cup {NoSave}, ready' \in BOOLEAN, NotesTyped',
           ledger' \in [Saves -> Ledger],
           \A s \in Saves : ledger'[s].applied \subseteq granted[s]
    PROVE  IInv'
  <1>1. /\ GameTyped /\ WireTyped /\ LinkTyped
        /\ WorkerTyped /\ NotesTyped /\ LedgerTyped
    BY Parts DEF IInv
  <1>2. /\ reply # None /\ reply' = None /\ lock' = "free"
        /\ last' = [loaded |-> reply.loaded, safe |-> reply.safe]
        /\ events' \in {events, events \cup (reply.events \cap {"load"})}
        /\ UNCHANGED <<loaded, restoring, bound, greeted, calm, features, forms,
                       authenticated, packet, moves, packets, granted>>
    BY DEF Receipt
  <1>3. reply \in Reply
    BY <1>1, <1>2 DEF WireTyped
  <1>4. WireTyped' /\ OneWaits' /\ CommandAsPlanned' /\ AnswerTrue'
    BY <1>1, <1>2, AnsweredOnce, NobodyWaits DEF WireTyped
  <1>5. GameTyped'
    BY <1>1, <1>2 DEF GameTyped, Events
  <1>6. LinkTyped'
    BY <1>1, <1>2, <1>3 DEF LinkTyped, Reply
  <1>7. WorkerTyped'
    BY <1>2 DEF WorkerTyped
  <1>8. LedgerTyped'
    BY <1>1, <1>2 DEF LedgerTyped
  <1>9. PlanHolds' /\ AppliedOnlyIfGranted'
    BY <1>2 DEF PlanHolds, AppliedOnlyIfGranted
  <1>10. QED
    BY <1>4, <1>5, <1>6, <1>7, <1>8, <1>9, PartsAfter DEF IInv

\* What is marked: the target that was planned, all of which has been given.
LEMMA MarksGranted ==
    ASSUME IInv, Receipt, reply.result = "applied", worker.current
    PROVE  /\ session \in Saves /\ ledger[session] \in Ledger
           /\ Marked(ledger[session]) \in Ledger
           /\ Marked(ledger[session]).applied \subseteq granted[session]
  <1>1. worker.pc = "sent" /\ reply # None
    BY DEF Receipt
  <1>2. worker.save = session /\ ledger \in [Saves -> Ledger]
    BY DEF IInv, TypeOK
  <1>3. /\ worker.save \in Saves
        /\ worker.projection.target = Target(ledger[worker.save])
    BY <1>1 DEF IInv, PlanHolds
  <1>4. worker.projection.target \subseteq granted[worker.save]
    BY <1>1 DEF IInv, AnswerTrue
  <1>5. session \in Saves /\ ledger[session] \in Ledger
    BY <1>2, <1>3
  <1>6. /\ Marked(ledger[session]) \in Ledger
        /\ Marked(ledger[session]).applied = Target(ledger[session])
    BY <1>5, MarkedTyped
  <1>7. QED
    BY <1>2, <1>3, <1>4, <1>5, <1>6

LEMMA GoesOn ==
    ASSUME WorkerGoesOn
    PROVE  /\ worker' \in Worker /\ worker'.pc \in {"idle", "scheduled"}
           /\ ~worker'.current
  BY DEF WorkerGoesOn, Worker, Idle

LEMMA ConfirmsHold == ASSUME IInv, WorkerConfirms PROVE IInv'
  <1>1. /\ WorkerTyped /\ LinkTyped /\ NotesTyped /\ LedgerTyped
    BY Parts DEF IInv
  <1>2. /\ Receipt /\ reply.result = "applied" /\ worker.current
        /\ ledger' = [ledger EXCEPT ![session] = Marked(@)]
        /\ confirmed' = worker.projection
        /\ dirty' = Rebuilt /\ failed' = None
        /\ WorkerGoesOn
        /\ UNCHANGED <<ready, session, runtime, faults>>
    BY DEF WorkerConfirms
  <1>3. /\ session \in Saves /\ ledger[session] \in Ledger
        /\ Marked(ledger[session]) \in Ledger
        /\ Marked(ledger[session]).applied \subseteq granted[session]
    BY <1>2, MarksGranted
  <1>4. /\ ledger' \in [Saves -> Ledger]
        /\ \A s \in Saves : ledger'[s].applied \subseteq granted[s]
    BY <1>1, <1>2, <1>3 DEF LedgerTyped, IInv, AppliedOnlyIfGranted
  <1>5. NotesTyped'
    BY <1>1, <1>2 DEF NotesTyped, WorkerTyped, Worker, Rebuilt
  <1>6. /\ faults' \in Nat /\ session' \in Saves \cup {NoSave}
        /\ ready' \in BOOLEAN
    BY <1>1, <1>2 DEF LedgerTyped, WorkerTyped, LinkTyped
  <1>7. QED
    BY <1>2, <1>4, <1>5, <1>6, GoesOn, Received

LEMMA FailsToConfirmHolds == ASSUME IInv, WorkerFailsToConfirm PROVE IInv'
  <1>1. LedgerTyped
    BY Parts DEF IInv
  <1>2. /\ Receipt /\ reply.result = "applied" /\ worker.current
        /\ ledger' \in {ledger, [ledger EXCEPT ![session] = Marked(@)]}
        /\ ready' = FALSE /\ ForgetSession /\ worker' = Idle
        /\ faults' = faults + 1
    BY DEF WorkerFailsToConfirm, Unavailable, Fault
  <1>3. /\ session \in Saves /\ ledger[session] \in Ledger
        /\ Marked(ledger[session]) \in Ledger
        /\ Marked(ledger[session]).applied \subseteq granted[session]
    BY <1>2, MarksGranted
  <1>4. /\ ledger' \in [Saves -> Ledger]
        /\ \A s \in Saves : ledger'[s].applied \subseteq granted[s]
    BY <1>1, <1>2, <1>3 DEF LedgerTyped, IInv, AppliedOnlyIfGranted
  <1>5. NotesTyped' /\ session' = NoSave
    BY <1>2, Closed
  <1>6. worker' \in Worker /\ worker'.pc = "idle" /\ ~worker'.current
    BY <1>2 DEF Worker, Idle
  <1>7. faults' \in Nat
    BY <1>1, <1>2 DEF LedgerTyped
  <1>8. QED
    BY <1>2, <1>4, <1>5, <1>6, <1>7, Received

LEMMA DefersHold == ASSUME IInv, WorkerDefers PROVE IInv'
  <1>1. /\ WorkerTyped /\ LinkTyped /\ NotesTyped /\ LedgerTyped
    BY Parts DEF IInv
  <1>2. /\ Receipt /\ WorkerGoesOn
        /\ dirty' = (dirty \/ reply.result # "failed" \/ Rebuilt)
        /\ failed' = IF Rebuilt THEN None
                     ELSE IF reply.result = "failed" /\ worker.current
                          THEN worker.projection ELSE failed
        /\ UNCHANGED <<ready, session, confirmed, runtime, ledger, faults>>
    BY DEF WorkerDefers
  <1>3. NotesTyped'
    <2>1. worker.projection \in Projection \cup {None}
      BY <1>1 DEF WorkerTyped, Worker
    <2>2. failed' \in Projection \cup {None}
      BY <1>1, <1>2, <2>1 DEF NotesTyped
    <2>3. dirty' \in BOOLEAN
      BY <1>2
    <2>4. QED
      BY <1>1, <1>2, <2>2, <2>3 DEF NotesTyped
  <1>4. /\ faults' \in Nat /\ session' \in Saves \cup {NoSave}
        /\ ready' \in BOOLEAN
    BY <1>1, <1>2 DEF LedgerTyped, WorkerTyped, LinkTyped
  <1>5. /\ ledger' \in [Saves -> Ledger]
        /\ \A s \in Saves : ledger'[s].applied \subseteq granted[s]
    BY <1>1, <1>2 DEF LedgerTyped, IInv, AppliedOnlyIfGranted
  <1>6. QED
    BY <1>2, <1>3, <1>4, <1>5, GoesOn, Received

-----------------------------------------------------------------------------
(* The theorems.                                                            *)

LEMMA StutterHolds == ASSUME IInv, UNCHANGED vars PROVE IInv'
  <1>1. TypeOK'
    <2>1. /\ GameTyped /\ WireTyped /\ LinkTyped
          /\ WorkerTyped /\ NotesTyped /\ LedgerTyped
      BY Parts DEF IInv
    <2>2. GameTyped' /\ WireTyped'
      BY <2>1 DEF vars, goalVars, wireVars, GameTyped, WireTyped
    <2>3. LinkTyped' /\ WorkerTyped' /\ NotesTyped' /\ LedgerTyped'
      BY <2>1 DEF vars, clientVars, itemVars, countVars, LinkTyped, WorkerTyped,
                  NotesTyped, LedgerTyped
    <2>4. QED
      BY <2>2, <2>3, PartsAfter
  <1>2. UNCHANGED Plan
    BY DEF vars, wireVars, clientVars, countVars, Plan
  <1>3. QED
    BY <1>1, <1>2, PlanUnchanged

\* The invariant: a command, its answer and the worker agree with each other,
\* and with the ledger the plan was read from (_reconcile_permanent_items,
\* apply_permanent_item_command, mark_pending_items_applied).
THEOREM Invariant == Spec => []IInv
  <1>1. Init => IInv
    BY InitHolds
  <1>2. IInv /\ [Next]_vars => IInv'
    <2> SUFFICES ASSUME IInv, [Next]_vars PROVE IInv'
      OBVIOUS
    <2>1. CASE \/ \E s \in Saves : BeginLoad(s)
               \/ FinishLoad \/ Rebuild \/ Disturb \/ Settle \/ LoseEvents
      BY <2>1, MovesHold
    <2>2. CASE RestartGame
      BY <2>2, RestartHolds
    <2>3. CASE EvaluateHello \/ EvaluatePing
      BY <2>3, HeartbeatHolds
    <2>4. CASE EvaluateCommand
      BY <2>4, CommandHolds
    <2>5. CASE Connect \/ SendPing
      BY <2>5, AsksHold
    <2>6. CASE Observe
      BY <2>6, ObserveHolds
    <2>7. CASE TimesOutEarly \/ TimesOutUnanswered
      BY <2>7, TimeoutHolds
    <2>8. CASE OnRoomInfo
      BY <2>8, RoomHolds
    <2>9. CASE OnConnected
      BY <2>9, ConnectedHolds
    <2>10. CASE CrashClient
      BY <2>10, CrashHolds
    <2>11. CASE ReceivePacket
      BY <2>11, PacketHolds
    <2>12. CASE WorkerRuns
      BY <2>12, RunsHold
    <2>13. CASE WorkerStops
      BY <2>13, StopsHold
    <2>14. CASE WorkerFails
      BY <2>14, FailsHold
    <2>15. CASE WorkerSends
      BY <2>15, SendsHold
    <2>16. CASE WorkerConfirms
      BY <2>16, ConfirmsHold
    <2>17. CASE WorkerFailsToConfirm
      BY <2>17, FailsToConfirmHolds
    <2>18. CASE WorkerDefers
      BY <2>18, DefersHold
    <2>19. CASE UNCHANGED vars
      BY <2>19, StutterHolds
    <2>20. QED
      BY <2>1, <2>2, <2>3, <2>4, <2>5, <2>6, <2>7, <2>8, <2>9, <2>10, <2>11,
         <2>12, <2>13, <2>14, <2>15, <2>16, <2>17, <2>18, <2>19
         DEF Next, WorkerSteps
  <1>3. QED
    BY <1>1, <1>2, PTL DEF Spec

\* Every variable keeps to the values the code gives it.
THEOREM TypeCorrect == Spec => []TypeOK
  <1>1. IInv => TypeOK
    BY DEF IInv
  <1>2. QED
    BY <1>1, Invariant, PTL

\* A receipt is marked applied only for an item that a command has given to
\* that same save, whatever is loaded, times out or is opened in between.
THEOREM AppliedSafe == Spec => []AppliedOnlyIfGranted
  <1>1. IInv => AppliedOnlyIfGranted
    BY DEF IInv
  <1>2. QED
    BY <1>1, Invariant, PTL

\* The command that is still waited for, and is evaluated in the save it was
\* planned for, gives the game exactly what the ledger of that save holds at
\* that moment.
THEOREM CommandSafe == Spec => CommandMatchesLedger
  <1>1. ASSUME IInv, forms # <<>>, EvaluateCommand, features' # features,
               Head(forms).awaited, Head(forms).origin = loaded
        PROVE  features' = Target(ledger[loaded])
    <2>1. Evaluates("command") /\ features' = Head(forms).target
      BY <1>1 DEF EvaluateCommand
    <2>2. /\ forms \in Seq(Form) /\ Head(forms).kind = "command"
          /\ lock = "command"
      BY <1>1, <2>1, Taken
    <2>3. 1 \in DOMAIN forms /\ Head(forms) = forms[1]
      BY <1>1, <2>2, TailFacts
    <2>4. /\ Head(forms).target = worker.projection.target
          /\ Head(forms).origin = worker.save
      BY <1>1, <2>2, <2>3 DEF IInv, CommandAsPlanned
    <2>5. worker.projection.target = Target(ledger[worker.save])
      BY <1>1, <2>2 DEF IInv, TypeOK, PlanHolds
    <2>6. QED
      BY <1>1, <2>1, <2>4, <2>5
  <1>2. IInv => [forms # <<>> /\ EvaluateCommand /\ features' # features
                   /\ Head(forms).awaited /\ Head(forms).origin = loaded
                   => features' = Target(ledger[loaded])]_vars
    BY <1>1
  <1>3. QED
    BY <1>2, Invariant, PTL DEF CommandMatchesLedger

-----------------------------------------------------------------------------
(* The journal.  It is what the worker makes of the packets in its queue, one *)
(* after the other, and these come from the server's history in its order:    *)
(* as long as that has only grown, every packet under way is a piece of it,   *)
(* none ends before an earlier one, and none before a journal does.  A replay *)
(* then only ever lengthens a journal, and an increment fits where it was cut *)
(* off or is refused.                                                         *)

\* The position behind what a packet brings.
Ends(p) == p.index + Len(p.items)

\* An accepted packet; entries as apply_received_items_packet leaves them.
Accepted(p) ==
    /\ Ends(p) <= MaxItems
    /\ \A n \in 1 .. Len(p.items) : p.items[n] \notin Invalid
Recordable(entries) ==
    /\ entries \in Seq(J!Entry)
    /\ Len(entries) <= MaxItems
    /\ \A n \in 1 .. Len(entries) : entries[n].item \notin Invalid

ServerTyped ==
    /\ history \in Seq(Network) /\ Len(history) <= MaxItems
    /\ discarded \subseteq J!Histories
    /\ sendIndex \in 0 .. Len(history)
    /\ joined \in BOOLEAN
    /\ joined => link

ConnectionTyped ==
    /\ link \in BOOLEAN
    /\ down \in Seq(J!Message)
    /\ \A k \in 1 .. Len(down) : Ends(down[k]) <= MaxItems
    /\ up \in Seq({"Connect", "Sync"})
    /\ ~link => down = <<>> /\ up = <<>>

SessionTyped ==
    /\ count \in 0 .. MaxItems
    /\ connected \in BOOLEAN
    /\ open \in Saves \cup {NoSave}
    /\ open # NoSave => connected

QueueTyped ==
    /\ queue \in Seq([packet : J!Message, syncSent : BOOLEAN])
    /\ \A k \in 1 .. Len(queue) : Accepted(queue[k].packet)

RequestsTyped ==
    /\ requested \in J!Request \cup {None}
    /\ rejection \in SUBSET (0 .. MaxItems)
    /\ syncs \in Seq(J!Request)

JournalTyped ==
    /\ journal \in [Saves -> Seq(J!Entry)]
    /\ \A s \in Saves : Recordable(journal[s])

BoundsTyped == switches \in 0 .. MaxSwitches /\ losses \in 0 .. MaxFaults

\* A packet brings a piece of the history, a journal holds its beginning.
Sliced(p, h) ==
    /\ Ends(p) <= Len(h)
    /\ \A n \in 1 .. Len(p.items) : p.items[n] = h[p.index + n]
Begins(entries, h) ==
    /\ Len(entries) <= Len(h)
    /\ \A n \in 1 .. Len(entries) : entries[n].item = h[n]

Brings(p) == p.kind = "ReceivedItems"

\* What is under way comes from the history,
OfHistory ==
    /\ \A k \in 1 .. Len(queue) : Sliced(queue[k].packet, history)
    /\ \A k \in 1 .. Len(down) : Brings(down[k]) => Sliced(down[k], history)
    /\ \A s \in Saves : Begins(journal[s], history)

\* and no packet ends before an earlier one, taken or not, or before the end
\* of a journal.
Forwards ==
    /\ \A j, k \in 1 .. Len(queue) :
          j < k => Ends(queue[j].packet) <= Ends(queue[k].packet)
    /\ \A j, k \in 1 .. Len(down) :
          j < k /\ Brings(down[j]) /\ Brings(down[k])
             => Ends(down[j]) <= Ends(down[k])
    /\ \A j \in 1 .. Len(queue), k \in 1 .. Len(down) :
          Brings(down[k]) => Ends(queue[j].packet) <= Ends(down[k])
Ahead ==
    \A s \in Saves :
      /\ \A k \in 1 .. Len(queue) : Len(journal[s]) <= Ends(queue[k].packet)
      /\ \A k \in 1 .. Len(down) :
            Brings(down[k]) => Len(journal[s]) <= Ends(down[k])

Typed ==
    /\ ServerTyped /\ ConnectionTyped /\ SessionTyped /\ QueueTyped
    /\ RequestsTyped /\ JournalTyped /\ BoundsTyped

Flow == discarded = {} => OfHistory /\ Forwards /\ Ahead

JournalInv == Typed /\ Flow

\* There is a first position where something goes wrong.
LEMMA Least ==
    ASSUME NEW L \in Nat, NEW T \in SUBSET (0 .. L), T # {}
    PROVE  \E m \in T : \A k \in T : m <= k
<1>1. PICK U, V : U = 0 .. L /\ V = {0 .. n : n \in T}
  OBVIOUS
<1>2. IsFiniteSet(U)
  BY <1>1, FS_Interval
<1>3. FiniteSubsetsOf(U) = SUBSET U
  BY <1>2, FS_FiniteSubsetsOfFinite
<1>4. IsWellFoundedOn(StrictSubsetOrdering(U), SUBSET U)
  BY <1>3, FS_StrictSubsetOrderingWellFounded
<1>5. V \subseteq SUBSET U
  <2>1. ASSUME NEW n \in T PROVE 0 .. n \subseteq 0 .. L
    <3>1. n \in 0 .. L
      OBVIOUS
    <3>2. QED
      BY <3>1, SMT
  <2>2. QED
    BY <1>1, <2>1
<1>6. V # {}
  BY <1>1
<1>7. PICK x \in V : \A y \in V : ~ (<<y, x>> \in StrictSubsetOrdering(U))
  BY <1>4, <1>5, <1>6, WFMin, Zenon
<1>8. PICK m \in T : x = 0 .. m
  BY <1>1, <1>7
<1>9. ASSUME NEW k \in T, k < m PROVE FALSE
  <2>1. 0 .. k \in V /\ 0 .. k \subseteq 0 .. m /\ 0 .. k # 0 .. m
    BY <1>1, <1>9
  <2>2. <<0 .. k, x>> \in StrictSubsetOrdering(U)
    BY <1>5, <1>8, <2>1 DEF StrictSubsetOrdering
  <2>3. QED
    BY <1>7, <2>1, <2>2
<1>10. QED
  BY <1>8, <1>9

LEMMA Bounded ==
    ASSUME NEW x
    PROVE  x \in J!Histories <=> x \in Seq(Network) /\ Len(x) <= MaxItems
<1>1. J!Histories = UNION {[1 .. m -> Network] : m \in 0 .. MaxItems}
  BY DEF J!Histories, J!BoundedSeq, J!SeqOf
<1>2. ASSUME x \in J!Histories
      PROVE  x \in Seq(Network) /\ Len(x) <= MaxItems
  <2>1. PICK m \in 0 .. MaxItems : x \in [1 .. m -> Network]
    BY <1>1, <1>2
  <2>2. m \in Nat /\ m <= MaxItems
    BY JournalAssumption DEF J!BoundAssumption
  <2>3. QED
    BY <2>1, <2>2, SMT
<1>3. ASSUME x \in Seq(Network), Len(x) <= MaxItems
      PROVE  x \in J!Histories
  <2>1. Len(x) \in 0 .. MaxItems /\ x \in [1 .. Len(x) -> Network]
    BY <1>3, JournalAssumption, SMT DEF J!BoundAssumption
  <2>2. QED
    BY <1>1, <2>1
<1>4. QED
  BY <1>2, <1>3

LEMMA MessageShape ==
    ASSUME NEW p \in J!Message
    PROVE  /\ p = [kind |-> p.kind, index |-> p.index, items |-> p.items]
           /\ p.kind \in {"RoomInfo", "Connected", "ReceivedItems"}
           /\ p.index \in Nat /\ p.index <= MaxItems
           /\ p.items \in Seq(Network) /\ Len(p.items) <= MaxItems
           /\ Len(p.items) \in Nat /\ Ends(p) \in Nat
<1>1. p.items \in J!Histories /\ p.index \in 0 .. MaxItems
  BY DEF J!Message
<1>2. p.items \in Seq(Network) /\ Len(p.items) <= MaxItems
  BY <1>1, Bounded
<1>3. p.index \in Nat /\ p.index <= MaxItems
  BY <1>1, JournalAssumption DEF J!BoundAssumption
<1>4. QED
  BY <1>2, <1>3 DEF J!Message, Ends

LEMMA MessageMade ==
    ASSUME NEW k \in {"RoomInfo", "Connected", "ReceivedItems"},
           NEW i \in Nat, i <= MaxItems,
           NEW s \in Seq(Network), Len(s) <= MaxItems
    PROVE  [kind |-> k, index |-> i, items |-> s] \in J!Message
<1>1. s \in J!Histories
  BY Bounded
<1>2. i \in 0 .. MaxItems
  BY JournalAssumption DEF J!BoundAssumption
<1>3. QED
  BY <1>1, <1>2 DEF J!Message

-----------------------------------------------------------------------------
(* What the worker computes, packet by packet.                              *)

Start == [entries |-> journal[open], rejection |-> rejection,
          requested |-> requested, syncs |-> syncs]
TakenNext(state, n) == J!Taken(state, queue[n].packet, queue[n].syncSent)

\* AfterPackets is defined by what it is for the packets before.
LEMMA Unfolds ==
    ASSUME Len(queue) \in Nat
    PROVE  /\ J!AfterPackets[0] = Start
           /\ \A n \in 1 .. Len(queue) :
                 J!AfterPackets[n] = TakenNext(J!AfterPackets[n - 1], n)
<1> DEFINE Computes(f, k) ==
      f = [n \in 0 .. k |-> IF n = 0 THEN Start ELSE TakenNext(f[n - 1], n)]
<1>1. PICK L : L = Len(queue) /\ L \in Nat
  OBVIOUS
<1>2. PICK T : T = {k \in 0 .. L : ~ \E f : Computes(f, k)}
  OBVIOUS
<1>3. T = {}
  <2>1. SUFFICES ASSUME T # {} PROVE FALSE
    OBVIOUS
  <2>2. T \in SUBSET (0 .. L)
    BY <1>2
  <2>3. PICK m \in T : \A k \in T : m <= k
    BY <1>1, <2>1, <2>2, Least
  <2>4. m \in 0 .. L /\ ~ \E f : Computes(f, m)
    BY <1>2, <2>3
  <2>5. Computes([n \in 0 .. 0 |-> Start], 0)
    BY SMT
  <2>6. m # 0
    BY <2>4, <2>5
  <2>7. m - 1 \in 0 .. L /\ m - 1 \notin T
    BY <1>1, <2>3, <2>4, <2>6
  <2>8. PICK f : Computes(f, m - 1)
    BY <1>2, <2>7
  <2> DEFINE g == [n \in 0 .. m |-> IF n = m THEN TakenNext(f[m - 1], m) ELSE f[n]]
  <2>9. Computes(g, m)
    <3>1. \A n \in 0 .. (m - 1) : g[n] = f[n]
      BY <2>4
    <3>2. \A n \in 0 .. (m - 1) :
             f[n] = IF n = 0 THEN Start ELSE TakenNext(f[n - 1], n)
      BY <2>8
    <3>3. \A n \in 0 .. m :
             g[n] = IF n = 0 THEN Start ELSE TakenNext(g[n - 1], n)
      <4>1. TAKE n \in 0 .. m
      <4>2. CASE n = 0
        BY <4>2, <2>4, <2>6, <3>1, <3>2
      <4>3. CASE n # 0 /\ n = m
        <5>1. g[n - 1] = f[n - 1]
          BY <4>3, <2>4, <3>1
        <5>2. QED
          BY <4>3, <5>1
      <4>4. CASE n # 0 /\ n # m
        <5>1. n \in 0 .. (m - 1) /\ n - 1 \in 0 .. (m - 1)
          BY <4>4, <2>4
        <5>2. g[n] = f[n] /\ g[n - 1] = f[n - 1]
          BY <5>1, <3>1
        <5>3. QED
          BY <4>4, <5>1, <5>2, <3>2
      <4>5. QED
        BY <4>2, <4>3, <4>4
    <3>4. g = [n \in 0 .. m |-> g[n]]
      OBVIOUS
    <3>5. QED
      BY <3>3, <3>4
  <2>10. QED
    BY <2>4, <2>9
<1>4. \E f : Computes(f, L)
  BY <1>1, <1>2, <1>3
<1>5. J!AfterPackets = CHOOSE f : Computes(f, L)
  BY <1>1 DEF J!AfterPackets, Start, TakenNext
<1>6. Computes(J!AfterPackets, L)
  BY <1>4, <1>5
<1>7. QED
  BY <1>1, <1>6

LEMMA EntryMade ==
    ASSUME NEW i \in Network, NEW b \in BOOLEAN
    PROVE  /\ [item |-> i, applied |-> b] \in J!Entry
           /\ [item |-> i, applied |-> b].item = i
  BY DEF J!Entry

\* A recorded packet makes the journal end where the packet ends, of its items
\* and of entries that were there.
LEMMA RecordedShape ==
    ASSUME NEW e, Recordable(e), NEW p \in J!Message, Accepted(p),
           J!Outcome(e, p) \in {"accepted", "replaced"}
    PROVE  LET r == J!Recorded(e, p)
           IN  /\ r \in Seq(J!Entry) /\ Len(r) = Ends(p)
               /\ p.index <= Len(e)
               /\ \A n \in 1 .. Len(p.items) : r[p.index + n].item = p.items[n]
               /\ \A n \in 1 .. p.index : r[n] = e[n]
               /\ \A n \in 1 .. Len(e) :
                     p.index = 0 /\ n <= Len(p.items) /\ e[n].item = p.items[n]
                        => r[n] = e[n]
<1>1. PICK L : L = Len(p.items)
  OBVIOUS
<1>2. /\ p.index \in Nat /\ p.items \in Seq(Network) /\ L \in Nat
      /\ Ends(p) = p.index + L
  BY <1>1, MessageShape DEF Ends
<1>3. e \in Seq(J!Entry) /\ Len(e) \in Nat
  BY DEF Recordable
<1>4. DOMAIN p.items = 1 .. L /\ \A n \in 1 .. L : p.items[n] \in Network
  BY <1>1, <1>2
<1>5. CASE p.index = 0
  <2>1. PICK r : r = J!Recorded(e, p)
    OBVIOUS
  <2>2. r = [n \in 1 .. L |->
               IF n \in DOMAIN e /\ e[n].item = p.items[n] THEN e[n]
               ELSE [item |-> p.items[n], applied |-> FALSE]]
    BY <1>4, <1>5, <2>1 DEF J!Recorded, J!Replaced
  <2>3. \A n \in DOMAIN e : e[n] \in J!Entry
    BY <1>3
  <2>4. \A n \in 1 .. L : r[n] \in J!Entry /\ r[n].item = p.items[n]
    BY <1>4, <2>2, <2>3, EntryMade
  <2>5. r \in Seq(J!Entry) /\ Len(r) = L
    BY <1>2, <2>2, <2>4, IsASeq
  <2>6. \A n \in 1 .. Len(e) : n <= L /\ e[n].item = p.items[n] => r[n] = e[n]
    BY <1>2, <1>3, <2>2
  <2>7. QED
    BY <1>1, <1>2, <1>3, <1>5, <2>1, <2>4, <2>5, <2>6
<1>6. CASE p.index # 0
  <2>1. p.index = Len(e)
    BY <1>6 DEF J!Outcome
  <2>2. PICK q : q = J!Pending(p.items)
    OBVIOUS
  <2>3. q = [n \in 1 .. L |-> [item |-> p.items[n], applied |-> FALSE]]
    BY <1>4, <2>2 DEF J!Pending
  <2>4. \A n \in 1 .. L : q[n] \in J!Entry /\ q[n].item = p.items[n]
    BY <1>4, <2>3, EntryMade
  <2>5. q \in Seq(J!Entry) /\ Len(q) = L
    BY <1>2, <2>3, <2>4, IsASeq
  <2>6. PICK r : r = e \o q
    OBVIOUS
  <2>7. r = J!Recorded(e, p)
    BY <1>6, <2>2, <2>6 DEF J!Recorded
  <2>8. /\ r \in Seq(J!Entry) /\ Len(r) = Len(e) + L
        /\ \A n \in 1 .. Len(e) : r[n] = e[n]
        /\ \A n \in 1 .. L : r[Len(e) + n] = q[n]
    <3>1. /\ r \in Seq(J!Entry) /\ Len(r) = Len(e) + L
          /\ \A n \in 1 .. (Len(e) + L) :
                r[n] = IF n <= Len(e) THEN e[n] ELSE q[n - Len(e)]
      BY <1>3, <2>5, <2>6, ConcatProperties
    <3>2. ASSUME NEW n \in 1 .. L PROVE r[Len(e) + n] = q[n]
      <4>1. Len(e) + n \in 1 .. (Len(e) + L) /\ ~ (Len(e) + n <= Len(e))
        BY <1>2, <1>3
      <4>2. (Len(e) + n) - Len(e) = n
        BY <1>3
      <4>3. QED
        BY <3>1, <4>1, <4>2
    <3>3. ASSUME NEW n \in 1 .. Len(e) PROVE r[n] = e[n]
      BY <1>2, <1>3, <3>1
    <3>4. QED
      BY <3>1, <3>2, <3>3
  <2>9. QED
    BY <1>1, <1>2, <1>6, <2>1, <2>4, <2>7, <2>8
<1>7. QED
  BY <1>5, <1>6

LEMMA RecordedFits ==
    ASSUME NEW e, Recordable(e), NEW p \in J!Message, Accepted(p),
           J!Outcome(e, p) \in {"accepted", "replaced"}
    PROVE  Recordable(J!Recorded(e, p))
<1>1. PICK r : r = J!Recorded(e, p)
  OBVIOUS
<1>2. /\ r \in Seq(J!Entry) /\ Len(r) = Ends(p) /\ p.index <= Len(e)
      /\ \A n \in 1 .. Len(p.items) : r[p.index + n].item = p.items[n]
      /\ \A n \in 1 .. p.index : r[n] = e[n]
  BY <1>1, RecordedShape
<1>3. p.index \in Nat /\ Len(p.items) \in Nat /\ Ends(p) = p.index + Len(p.items)
  BY MessageShape DEF Ends
<1>4. Len(e) \in Nat
  BY DEF Recordable
<1>5. ASSUME NEW n \in 1 .. Len(r) PROVE r[n].item \notin Invalid
  <2>1. CASE n <= p.index
    <3>1. n \in 1 .. p.index /\ n \in 1 .. Len(e)
      BY <1>2, <1>3, <1>4, <2>1
    <3>2. QED
      BY <1>2, <3>1 DEF Recordable
  <2>2. CASE ~ (n <= p.index)
    <3>1. n - p.index \in 1 .. Len(p.items) /\ p.index + (n - p.index) = n
      BY <1>2, <1>3, <2>2
    <3>2. r[n].item = p.items[n - p.index]
      BY <1>2, <3>1
    <3>3. QED
      BY <3>1, <3>2 DEF Accepted
  <2>3. QED
    BY <2>1, <2>2
<1>6. QED
  BY <1>1, <1>2, <1>5 DEF Recordable, Accepted

\* What a packet in order makes of the beginning of the history: a longer one,
\* with the entries that were there.
LEMMA RecordedExtends ==
    ASSUME NEW e, Recordable(e), NEW p \in J!Message, Accepted(p),
           J!Outcome(e, p) \in {"accepted", "replaced"},
           NEW h \in Seq(Network), Begins(e, h), Sliced(p, h),
           Len(e) <= Ends(p)
    PROVE  /\ Begins(J!Recorded(e, p), h)
           /\ \A n \in 1 .. Len(e) : J!Recorded(e, p)[n] = e[n]
<1>1. PICK r : r = J!Recorded(e, p)
  OBVIOUS
<1>2. /\ r \in Seq(J!Entry) /\ Len(r) = Ends(p) /\ p.index <= Len(e)
      /\ \A n \in 1 .. Len(p.items) : r[p.index + n].item = p.items[n]
      /\ \A n \in 1 .. p.index : r[n] = e[n]
      /\ \A n \in 1 .. Len(e) :
            p.index = 0 /\ n <= Len(p.items) /\ e[n].item = p.items[n]
               => r[n] = e[n]
  BY <1>1, RecordedShape
<1>3. p.index \in Nat /\ Len(p.items) \in Nat /\ Ends(p) = p.index + Len(p.items)
  BY MessageShape DEF Ends
<1>4. Len(e) \in Nat
  BY DEF Recordable
<1>5. ASSUME NEW n \in 1 .. Len(r) PROVE r[n].item = h[n]
  <2>1. CASE n <= p.index
    <3>1. n \in 1 .. p.index /\ n \in 1 .. Len(e)
      BY <1>2, <1>3, <1>4, <2>1
    <3>2. QED
      BY <1>2, <3>1 DEF Begins
  <2>2. CASE ~ (n <= p.index)
    <3>1. n - p.index \in 1 .. Len(p.items) /\ p.index + (n - p.index) = n
      BY <1>2, <1>3, <2>2
    <3>2. r[n].item = p.items[n - p.index]
      BY <1>2, <3>1
    <3>3. p.items[n - p.index] = h[n]
      BY <3>1 DEF Sliced
    <3>4. QED
      BY <3>2, <3>3
  <2>3. QED
    BY <2>1, <2>2
<1>6. ASSUME NEW n \in 1 .. Len(e) PROVE r[n] = e[n]
  <2>1. CASE p.index = 0
    <3>1. n \in 1 .. Len(p.items) /\ n <= Len(p.items) /\ p.index + n = n
      BY <1>3, <1>4, <2>1
    <3>2. e[n].item = h[n] /\ p.items[n] = h[n]
      BY <3>1 DEF Begins, Sliced
    <3>3. QED
      BY <1>2, <2>1, <3>1, <3>2
  <2>2. CASE p.index # 0
    <3>1. p.index = Len(e)
      BY <2>2 DEF J!Outcome
    <3>2. QED
      BY <1>2, <3>1
  <2>3. QED
    BY <2>1, <2>2
<1>7. QED
  BY <1>1, <1>2, <1>5, <1>6 DEF Begins, Sliced

LEMMA RequestMade ==
    ASSUME NEW r \in {"binding", "gap", "conflict", "partial_overlap",
                      "packet_rejected", "server_reconnect"},
           NEW i \in 0 .. MaxItems, NEW x \in SUBSET (0 .. MaxItems)
    PROVE  [reason |-> r, index |-> i, expected |-> x] \in J!Request
  BY DEF J!Request

LEMMA AskedTyped ==
    ASSUME NEW t \in Seq(J!Request), NEW l, NEW r \in J!Request, NEW b
    PROVE  J!Asked(t, l, r, b) \in Seq(J!Request)
  BY DEF J!Asked

StateTyped(st) ==
    /\ st = [entries |-> st.entries, rejection |-> st.rejection,
             requested |-> st.requested, syncs |-> st.syncs]
    /\ Recordable(st.entries)
    /\ st.rejection \in SUBSET (0 .. MaxItems)
    /\ st.requested \in J!Request \cup {None}
    /\ st.syncs \in Seq(J!Request)

LEMMA TakenShape ==
    ASSUME NEW st, StateTyped(st), NEW p \in J!Message, Accepted(p), NEW sent
    PROVE  /\ StateTyped(J!Taken(st, p, sent))
           /\ \/ J!Taken(st, p, sent).entries = st.entries
              \/ /\ J!Outcome(st.entries, p) \in {"accepted", "replaced"}
                 /\ J!Taken(st, p, sent).entries = J!Recorded(st.entries, p)
<1>1. PICK o : o = J!Outcome(st.entries, p)
  OBVIOUS
<1>2. PICK u : u = J!Taken(st, p, sent)
  OBVIOUS
<1>3. o \in {"duplicate", "replaced", "accepted", "gap", "partial_overlap",
             "conflict"}
  <2>1. CASE p.index = 0
    BY <1>1, <2>1 DEF J!Outcome
  <2>2. CASE p.index # 0
    BY <1>1, <2>2 DEF J!Outcome
  <2>3. QED
    BY <2>1, <2>2
<1>4. CASE o \in {"accepted", "replaced"}
  <2>1. u = [st EXCEPT !.entries = J!Recorded(@, p), !.rejection = {}]
    BY <1>1, <1>2, <1>4 DEF J!Taken
  <2>2. u = [entries |-> J!Recorded(st.entries, p), rejection |-> {},
             requested |-> st.requested, syncs |-> st.syncs]
    BY <2>1 DEF StateTyped
  <2>3. Recordable(J!Recorded(st.entries, p))
    BY <1>1, <1>4, RecordedFits DEF StateTyped
  <2>4. StateTyped(u)
    BY <2>2, <2>3 DEF StateTyped
  <2>5. QED
    BY <1>1, <1>2, <1>4, <2>2, <2>4
<1>5. CASE o = "duplicate"
  BY <1>1, <1>2, <1>5 DEF J!Taken
<1>6. CASE o \in {"gap", "partial_overlap", "conflict"}
  <2>1. PICK r : r = [reason |-> o, index |-> p.index,
                      expected |-> {Len(st.entries)}]
    OBVIOUS
  <2>2. u = [st EXCEPT !.requested = r,
                       !.syncs = J!Asked(@, st.requested, r, sent)]
    BY <1>1, <1>2, <1>6, <2>1 DEF J!Taken
  <2>3. u = [entries |-> st.entries, rejection |-> st.rejection,
             requested |-> r, syncs |-> J!Asked(st.syncs, st.requested, r, sent)]
    BY <2>2 DEF StateTyped
  <2>4. r \in J!Request
    <3>1. p.index \in 0 .. MaxItems
      BY DEF J!Message
    <3>2. {Len(st.entries)} \in SUBSET (0 .. MaxItems)
      BY JournalAssumption DEF J!BoundAssumption, StateTyped, Recordable
    <3>3. QED
      BY <1>6, <2>1, <3>1, <3>2, RequestMade
  <2>5. J!Asked(st.syncs, st.requested, r, sent) \in Seq(J!Request)
    BY <2>4, AskedTyped DEF StateTyped
  <2>6. StateTyped(u)
    BY <2>3, <2>4, <2>5 DEF StateTyped
  <2>7. QED
    BY <1>2, <2>3, <2>6
<1>7. QED
  BY <1>3, <1>4, <1>5, <1>6

Extends(new, old) ==
    /\ Len(old) <= Len(new)
    /\ \A n \in 1 .. Len(old) : new[n] = old[n]

\* A beginning of the history, with no packet from the n-th on, and none under
\* way, that ends before it;
Placed(entries, n) ==
    /\ Begins(entries, history)
    /\ \A m \in n .. Len(queue) : Len(entries) <= Ends(queue[m].packet)
    /\ \A k \in 1 .. Len(down) : Brings(down[k]) => Len(entries) <= Ends(down[k])

\* and of no less than the journal has.
InOrder(entries, n) == Placed(entries, n) /\ Extends(entries, journal[open])

LEMMA QueueFacts ==
    ASSUME Typed
    PROVE  /\ Len(queue) \in Nat
           /\ \A n \in 1 .. Len(queue) : /\ queue[n].packet \in J!Message
                                        /\ Accepted(queue[n].packet)
                                        /\ queue[n].syncSent \in BOOLEAN
                                        /\ Ends(queue[n].packet) \in Nat
<1>1. queue \in Seq([packet : J!Message, syncSent : BOOLEAN])
  BY DEF Typed, QueueTyped
<1>2. Len(queue) \in Nat
  BY <1>1
<1>3. ASSUME NEW n \in 1 .. Len(queue)
      PROVE  /\ queue[n].packet \in J!Message
             /\ queue[n].syncSent \in BOOLEAN
  <2>1. queue[n] \in [packet : J!Message, syncSent : BOOLEAN]
    BY <1>1, <1>3, ElementOfSeq
  <2>2. QED
    BY <2>1
<1>4. \A n \in 1 .. Len(queue) : Accepted(queue[n].packet)
  BY DEF Typed, QueueTyped
<1>5. QED
  BY <1>2, <1>3, <1>4, MessageShape

LEMMA DownFacts ==
    ASSUME Typed
    PROVE  /\ Len(down) \in Nat
           /\ \A n \in 1 .. Len(down) : /\ down[n] \in J!Message
                                       /\ Ends(down[n]) \in Nat
<1>1. down \in Seq(J!Message)
  BY DEF Typed, ConnectionTyped
<1>2. Len(down) \in Nat /\ \A n \in 1 .. Len(down) : down[n] \in J!Message
  BY <1>1
<1>3. QED
  BY <1>2, MessageShape

\* Recording the n-th packet.
LEMMA RecordedInOrder ==
    ASSUME JournalInv, discarded = {}, NEW n \in 1 .. Len(queue),
           NEW e, Recordable(e), InOrder(e, n),
           J!Outcome(e, queue[n].packet) \in {"accepted", "replaced"}
    PROVE  InOrder(J!Recorded(e, queue[n].packet), n + 1)
<1>1. PICK p : p = queue[n].packet
  OBVIOUS
<1>2. PICK r : r = J!Recorded(e, p)
  OBVIOUS
<1>3. p \in J!Message /\ Accepted(p) /\ Ends(p) \in Nat
  BY <1>1, QueueFacts DEF JournalInv
<1>4. Sliced(p, history)
  BY <1>1 DEF JournalInv, Flow, OfHistory
<1>5. history \in Seq(Network)
  BY DEF JournalInv, Typed, ServerTyped
<1>6. Len(queue) \in Nat
  BY QueueFacts DEF JournalInv
<1>7. Begins(e, history) /\ Len(e) <= Ends(p)
  BY <1>1, <1>6 DEF InOrder, Placed
<1>8. Len(e) \in Nat
  BY DEF Recordable
<1>9. Begins(r, history) /\ \A k \in 1 .. Len(e) : r[k] = e[k]
  BY <1>1, <1>2, <1>3, <1>4, <1>5, <1>7, RecordedExtends
<1>10. Len(r) = Ends(p)
  BY <1>1, <1>2, <1>3, RecordedShape
<1>11. Extends(r, journal[open])
  <2>1. Extends(e, journal[open])
    BY DEF InOrder, Placed
  <2>2. Len(journal[open]) <= Len(r)
    <3>1. Len(journal[open]) <= Len(e)
      BY <2>1 DEF Extends
    <3>2. QED
      BY <1>3, <1>7, <1>8, <1>10, <3>1
  <2>3. ASSUME NEW k \in 1 .. Len(journal[open])
        PROVE  r[k] = journal[open][k]
    <3>1. k \in 1 .. Len(e)
      BY <2>1, <1>8 DEF Extends
    <3>2. QED
      BY <2>1, <1>9, <3>1 DEF Extends
  <2>4. QED
    BY <2>2, <2>3 DEF Extends
<1>12. \A m \in (n + 1) .. Len(queue) : Len(r) <= Ends(queue[m].packet)
  BY <1>1, <1>6, <1>10 DEF JournalInv, Flow, Forwards
<1>13. \A k \in 1 .. Len(down) : Brings(down[k]) => Len(r) <= Ends(down[k])
  BY <1>1, <1>10 DEF JournalInv, Flow, Forwards
<1>14. QED
  BY <1>1, <1>2, <1>9, <1>11, <1>12, <1>13 DEF InOrder, Placed

\* After every packet the worker takes.
LEMMA WorkerInOrder ==
    ASSUME JournalInv, open # NoSave, NEW n \in 0 .. Len(queue)
    PROVE  /\ StateTyped(J!AfterPackets[n])
           /\ discarded = {} => InOrder(J!AfterPackets[n].entries, n + 1)
<1> DEFINE Good(k) == /\ StateTyped(J!AfterPackets[k])
                      /\ discarded = {} => InOrder(J!AfterPackets[k].entries, k + 1)
<1>1. PICK L : L = Len(queue) /\ L \in Nat
  BY QueueFacts DEF JournalInv
<1>2. /\ J!AfterPackets[0] = Start
      /\ \A k \in 1 .. L : J!AfterPackets[k] = TakenNext(J!AfterPackets[k - 1], k)
  BY <1>1, Unfolds
<1>3. open \in Saves /\ Recordable(journal[open])
  BY DEF JournalInv, Typed, SessionTyped, JournalTyped
<1>4. Good(0)
  <2>1. StateTyped(Start)
    BY <1>3 DEF StateTyped, Start, JournalInv, Typed, RequestsTyped
  <2>2. ASSUME discarded = {} PROVE InOrder(journal[open], 1)
    <3>1. Begins(journal[open], history)
      BY <1>3, <2>2 DEF JournalInv, Flow, OfHistory
    <3>2. Extends(journal[open], journal[open])
      BY <1>3 DEF Extends, Recordable
    <3>3. QED
      BY <1>3, <2>2, <3>1, <3>2 DEF InOrder, Placed, JournalInv, Flow, Ahead
  <2>3. Start.entries = journal[open]
    BY DEF Start
  <2>4. QED
    BY <1>2, <2>1, <2>2, <2>3
<1>5. ASSUME NEW k \in 1 .. L, Good(k - 1) PROVE Good(k)
  <2>1. PICK st, p, b : /\ st = J!AfterPackets[k - 1] /\ p = queue[k].packet
                        /\ b = queue[k].syncSent
    OBVIOUS
  <2>2. PICK u : u = J!AfterPackets[k]
    OBVIOUS
  <2>3. u = J!Taken(st, p, b)
    BY <1>2, <2>1, <2>2 DEF TakenNext
  <2>4. p \in J!Message /\ Accepted(p)
    BY <1>1, <2>1, QueueFacts DEF JournalInv
  <2>5. /\ StateTyped(u)
        /\ \/ u.entries = st.entries
           \/ /\ J!Outcome(st.entries, p) \in {"accepted", "replaced"}
              /\ u.entries = J!Recorded(st.entries, p)
    BY <1>5, <2>1, <2>3, <2>4, TakenShape
  <2>6. ASSUME discarded = {} PROVE InOrder(u.entries, k + 1)
    <3>1. InOrder(st.entries, k)
      <4>1. (k - 1) + 1 = k
        OBVIOUS
      <4>2. QED
        BY <1>5, <2>1, <2>6, <4>1
    <3>2. CASE u.entries = st.entries
      <4>1. \A m \in (k + 1) .. L : m \in k .. L
        BY <1>1
      <4>2. QED
        BY <1>1, <3>1, <3>2, <4>1 DEF InOrder, Placed
    <3>3. CASE /\ J!Outcome(st.entries, p) \in {"accepted", "replaced"}
               /\ u.entries = J!Recorded(st.entries, p)
      <4>1. Recordable(st.entries)
        BY <1>5, <2>1 DEF StateTyped
      <4>2. QED
        BY <1>1, <2>1, <2>6, <3>1, <3>3, <4>1, RecordedInOrder
    <3>4. QED
      BY <2>5, <3>2, <3>3
  <2>7. QED
    BY <2>2, <2>5, <2>6
<1>6. PICK T : T = {k \in 0 .. L : ~ Good(k)}
  OBVIOUS
<1>7. T = {}
  <2>1. SUFFICES ASSUME T # {} PROVE FALSE
    OBVIOUS
  <2>2. T \in SUBSET (0 .. L)
    BY <1>6
  <2>3. PICK m \in T : \A k \in T : m <= k
    BY <1>1, <2>1, <2>2, Least
  <2>4. m \in 0 .. L /\ ~ Good(m)
    BY <1>6, <2>3
  <2>5. m # 0
    BY <1>4, <2>4
  <2>6. m \in 1 .. L /\ m - 1 \in 0 .. L /\ m - 1 \notin T
    BY <1>1, <2>3, <2>4, <2>5
  <2>7. Good(m - 1)
    BY <1>6, <2>6
  <2>8. QED
    BY <1>5, <2>4, <2>6, <2>7
<1>8. QED
  BY <1>1, <1>6, <1>7

-----------------------------------------------------------------------------
(* What is sent.                                                            *)

\* The server sends greetings, and packets that end where the history ends.
Delivered(s) ==
    /\ s \in Seq(J!Message)
    /\ \A k \in 1 .. Len(s) :
         /\ Ends(s[k]) <= Len(history)
         /\ Brings(s[k]) => Sliced(s[k], history) /\ Ends(s[k]) = Len(history)

LEMMA HistoryFacts ==
    ASSUME Typed
    PROVE  /\ history \in Seq(Network) /\ Len(history) \in Nat
           /\ Len(history) <= MaxItems /\ MaxItems \in Nat
  BY JournalAssumption DEF J!BoundAssumption, Typed, ServerTyped

LEMMA GreetingShape ==
    ASSUME NEW k \in {"RoomInfo", "Connected"}, Typed
    PROVE  /\ J!Greeting(k) \in J!Message /\ ~ Brings(J!Greeting(k))
           /\ Ends(J!Greeting(k)) = 0 /\ Delivered(<<J!Greeting(k)>>)
<1>1. <<>> \in Seq(Network) /\ Len(<<>>) = 0
  OBVIOUS
<1>2. J!Greeting(k) \in J!Message
  <2>1. /\ k \in {"RoomInfo", "Connected", "ReceivedItems"}
        /\ 0 \in Nat /\ 0 <= MaxItems
    BY HistoryFacts
  <2>2. Len(<<>>) <= MaxItems
    BY <1>1, <2>1
  <2>3. QED
    BY <1>1, <2>1, <2>2, MessageMade DEF J!Greeting
<1>3. ~ Brings(J!Greeting(k))
  BY DEF J!Greeting, Brings
<1>4. Ends(J!Greeting(k)) = 0
  BY <1>1 DEF J!Greeting, Ends
<1>5. PICK g : g = J!Greeting(k)
  OBVIOUS
<1>6. <<g>> \in Seq(J!Message) /\ Len(<<g>>) = 1 /\ <<g>>[1] = g
  BY <1>2, <1>5
<1>7. Delivered(<<g>>)
  BY <1>3, <1>4, <1>5, <1>6, HistoryFacts DEF Delivered
<1>8. QED
  BY <1>2, <1>3, <1>4, <1>5, <1>7

LEMMA FromShape ==
    ASSUME Typed, NEW i \in Nat, i <= Len(history)
    PROVE  /\ J!From(i) \in Seq(Network)
           /\ Len(J!From(i)) = Len(history) - i
           /\ \A n \in 1 .. Len(J!From(i)) : J!From(i)[n] = history[i + n]
<1>1. PICK h, L : h = history /\ L = Len(history)
  OBVIOUS
<1>2. h \in Seq(Network) /\ L \in Nat /\ L = Len(h)
  BY <1>1, HistoryFacts
<1>3. PICK s : s = SubSeq(h, i + 1, L)
  OBVIOUS
<1>4. /\ s \in Seq(Network)
      /\ Len(s) = IF i + 1 <= L THEN L - (i + 1) + 1 ELSE 0
      /\ \A n \in 1 .. (L - (i + 1) + 1) : s[n] = h[i + 1 + n - 1]
  BY <1>1, <1>2, <1>3, SubSeqProperties
<1>5. Len(s) = L - i
  BY <1>1, <1>2, <1>4
<1>6. ASSUME NEW n \in 1 .. Len(s) PROVE s[n] = h[i + n]
  <2>1. n \in 1 .. (L - (i + 1) + 1) /\ i + 1 + n - 1 = i + n
    BY <1>2, <1>5
  <2>2. QED
    BY <1>4, <2>1
<1>7. QED
  BY <1>1, <1>3, <1>4, <1>5, <1>6 DEF J!From

LEMMA PacketSlices ==
    ASSUME Typed, NEW i \in Nat, i <= Len(history)
    PROVE  Delivered(<<J!Packet(i, J!From(i))>>)
<1>1. PICK s : s = J!From(i)
  OBVIOUS
<1>2. /\ s \in Seq(Network) /\ Len(s) = Len(history) - i
      /\ \A n \in 1 .. Len(s) : s[n] = history[i + n]
  BY <1>1, FromShape
<1>3. PICK p : p = J!Packet(i, s)
  OBVIOUS
<1>4. /\ p \in J!Message /\ p.index = i /\ p.items = s
  BY <1>2, <1>3, HistoryFacts, MessageMade DEF J!Packet
<1>5. Ends(p) = Len(history)
  BY <1>2, <1>4, HistoryFacts DEF Ends
<1>6. Sliced(p, history)
  BY <1>2, <1>4, <1>5, HistoryFacts DEF Sliced
<1>7. <<p>> \in Seq(J!Message) /\ Len(<<p>>) = 1 /\ <<p>>[1] = p
  BY <1>4
<1>8. Delivered(<<p>>)
  BY <1>5, <1>6, <1>7, HistoryFacts DEF Delivered
<1>9. QED
  BY <1>1, <1>3, <1>8

LEMMA DeliveredTogether ==
    ASSUME NEW s, NEW t, Delivered(s), Delivered(t)
    PROVE  Delivered(s \o t)
<1>1. s \in Seq(J!Message) /\ t \in Seq(J!Message)
  BY DEF Delivered
<1>2. PICK u : u = s \o t
  OBVIOUS
<1>3. /\ u \in Seq(J!Message) /\ Len(u) = Len(s) + Len(t)
      /\ \A k \in 1 .. (Len(s) + Len(t)) :
            u[k] = IF k <= Len(s) THEN s[k] ELSE t[k - Len(s)]
  BY <1>1, <1>2, ConcatProperties
<1>4. Len(s) \in Nat /\ Len(t) \in Nat
  BY <1>1
<1>5. ASSUME NEW k \in 1 .. Len(u)
      PROVE  \/ k \in 1 .. Len(s) /\ u[k] = s[k]
             \/ k - Len(s) \in 1 .. Len(t) /\ u[k] = t[k - Len(s)]
  BY <1>3, <1>4
<1>6. QED
  BY <1>2, <1>3, <1>5 DEF Delivered

LEMMA WholeDelivered ==
    ASSUME Typed PROVE Delivered(J!Whole)
<1>1. CASE history = <<>>
  <2>1. J!Whole = <<>> /\ <<>> \in Seq(J!Message) /\ Len(<<>>) = 0
    BY <1>1 DEF J!Whole
  <2>2. QED
    BY <2>1 DEF Delivered
<1>2. CASE history # <<>>
  <2>1. J!From(0) = history
    <3>1. /\ J!From(0) \in Seq(Network) /\ Len(J!From(0)) = Len(history) - 0
          /\ \A n \in 1 .. Len(J!From(0)) : J!From(0)[n] = history[0 + n]
      BY HistoryFacts, FromShape
    <3>2. \A n \in 1 .. Len(history) : J!From(0)[n] = history[n]
      BY <3>1, HistoryFacts
    <3>3. QED
      BY <3>1, <3>2, HistoryFacts, SeqEqual
  <2>2. Delivered(<<J!Packet(0, J!From(0))>>)
    BY HistoryFacts, PacketSlices
  <2>3. QED
    BY <1>2, <2>1, <2>2 DEF J!Whole
<1>3. QED
  BY <1>1, <1>2

\* What the server sends comes after what is under way.
LEMMA Delivers ==
    ASSUME JournalInv, NEW s, Delivered(s), down' = down \o s,
           UNCHANGED <<history, discarded, queue, journal>>
    PROVE  /\ Flow'
           /\ down' \in Seq(J!Message)
           /\ \A k \in 1 .. Len(down') : Ends(down'[k]) <= MaxItems
<1>1. down \in Seq(J!Message) /\ s \in Seq(J!Message)
  BY DEF JournalInv, Typed, ConnectionTyped, Delivered
<1>2. PICK u : u = down \o s
  OBVIOUS
<1>3. /\ u \in Seq(J!Message) /\ Len(u) = Len(down) + Len(s)
      /\ \A k \in 1 .. (Len(down) + Len(s)) :
            u[k] = IF k <= Len(down) THEN down[k] ELSE s[k - Len(down)]
  BY <1>1, <1>2, ConcatProperties
<1>4. Len(down) \in Nat /\ Len(s) \in Nat
  BY <1>1
<1>5. ASSUME NEW k \in 1 .. Len(u)
      PROVE  \/ k \in 1 .. Len(down) /\ u[k] = down[k]
             \/ k - Len(down) \in 1 .. Len(s) /\ u[k] = s[k - Len(down)]
  BY <1>3, <1>4
<1>6. \A k \in 1 .. Len(u) :
         \/ k \in 1 .. Len(down) /\ u[k] = down[k]
         \/ /\ k > Len(down) /\ Ends(u[k]) <= Len(history)
            /\ Brings(u[k]) => /\ Sliced(u[k], history)
                               /\ Ends(u[k]) = Len(history)
  BY <1>4, <1>5 DEF Delivered
<1>7. \A k \in 1 .. Len(u) : Ends(u[k]) \in Nat
  BY <1>3, MessageShape
<1>8. \A k \in 1 .. Len(u) : Ends(u[k]) <= MaxItems
  BY <1>6, <1>7, HistoryFacts DEF JournalInv, Typed, ConnectionTyped
<1>9. ASSUME discarded = {} PROVE OfHistory' /\ Forwards' /\ Ahead'
  <2>1. OfHistory /\ Forwards /\ Ahead
    BY <1>9 DEF JournalInv, Flow
  <2>2. down' = u
    BY <1>2
  <2>3. \A j \in 1 .. Len(queue) : Ends(queue[j].packet) <= Len(history)
    BY <2>1 DEF OfHistory, Sliced
  <2>4. \A j \in 1 .. Len(u) : Brings(u[j]) => Ends(u[j]) <= Len(history)
    BY <1>6, <1>7, <2>1 DEF OfHistory, Sliced
  <2>5. OfHistory'
    BY <1>6, <2>1, <2>2 DEF OfHistory
  <2>6. Forwards'
    <3>1. ASSUME NEW j \in 1 .. Len(u), NEW k \in 1 .. Len(u), j < k,
                 Brings(u[j]), Brings(u[k])
          PROVE  Ends(u[j]) <= Ends(u[k])
      <4>1. CASE k \in 1 .. Len(down) /\ u[k] = down[k]
        <5>1. j \in 1 .. Len(down) /\ u[j] = down[j]
          BY <1>4, <1>6, <3>1, <4>1
        <5>2. QED
          BY <2>1, <3>1, <4>1, <5>1 DEF Forwards
      <4>2. CASE Ends(u[k]) = Len(history)
        BY <2>4, <3>1, <4>2
      <4>3. QED
        BY <1>6, <3>1, <4>1, <4>2
    <3>2. ASSUME NEW j \in 1 .. Len(queue), NEW k \in 1 .. Len(u), Brings(u[k])
          PROVE  Ends(queue[j].packet) <= Ends(u[k])
      <4>1. CASE k \in 1 .. Len(down) /\ u[k] = down[k]
        BY <2>1, <3>2, <4>1 DEF Forwards
      <4>2. CASE Ends(u[k]) = Len(history)
        BY <2>3, <3>2, <4>2
      <4>3. QED
        BY <1>6, <3>2, <4>1, <4>2
    <3>3. QED
      BY <2>1, <2>2, <3>1, <3>2 DEF Forwards
  <2>7. Ahead'
    <3>1. ASSUME NEW z \in Saves, NEW k \in 1 .. Len(u), Brings(u[k])
          PROVE  Len(journal[z]) <= Ends(u[k])
      <4>1. CASE k \in 1 .. Len(down) /\ u[k] = down[k]
        BY <2>1, <3>1, <4>1 DEF Ahead
      <4>2. CASE Ends(u[k]) = Len(history)
        BY <2>1, <3>1, <4>2 DEF OfHistory, Begins
      <4>3. QED
        BY <1>6, <3>1, <4>1, <4>2
    <3>2. QED
      BY <2>1, <2>2, <3>1 DEF Ahead
  <2>8. QED
    BY <2>5, <2>6, <2>7
<1>10. QED
  BY <1>2, <1>3, <1>8, <1>9 DEF Flow

\* What the client takes leaves the order of the rest, and goes to the end of
\* the queue or nowhere.
LEMMA DownTail ==
    ASSUME Typed, down # <<>>
    PROVE  /\ Head(down) \in J!Message /\ Head(down) = down[1] /\ 1 \in 1 .. Len(down)
           /\ Tail(down) \in Seq(J!Message) /\ Len(Tail(down)) = Len(down) - 1
           /\ \A k \in 1 .. Len(Tail(down)) :
                 k + 1 \in 1 .. Len(down) /\ Tail(down)[k] = down[k + 1]
<1>1. down \in Seq(J!Message) /\ Len(down) \in Nat /\ Len(down) # 0
  BY DEF Typed, ConnectionTyped
<1>2. /\ Head(down) \in J!Message /\ Tail(down) \in Seq(J!Message)
      /\ Len(Tail(down)) = Len(down) - 1
      /\ \A k \in 1 .. Len(Tail(down)) : Tail(down)[k] = down[k + 1]
  BY <1>1, HeadTailProperties
<1>3. Head(down) = down[1]
  BY <1>1
<1>4. QED
  BY <1>1, <1>2, <1>3

LEMMA TailTyped ==
    ASSUME Typed, down # <<>>, down' = Tail(down)
    PROVE  /\ down' \in Seq(J!Message)
           /\ \A k \in 1 .. Len(down') : Ends(down'[k]) <= MaxItems
  BY DownTail DEF Typed, ConnectionTyped

\* With the first of down gone, what is said of the others.
LEMMA TailKept ==
    ASSUME Typed, down # <<>>, down' = Tail(down), OfHistory, Forwards, Ahead
    PROVE  /\ \A k \in 1 .. Len(down') :
                 Brings(down'[k]) => Sliced(down'[k], history)
           /\ \A j, k \in 1 .. Len(down') :
                 j < k /\ Brings(down'[j]) /\ Brings(down'[k])
                    => Ends(down'[j]) <= Ends(down'[k])
           /\ \A j \in 1 .. Len(queue), k \in 1 .. Len(down') :
                 Brings(down'[k]) => Ends(queue[j].packet) <= Ends(down'[k])
           /\ \A s \in Saves, k \in 1 .. Len(down') :
                 Brings(down'[k]) => Len(journal[s]) <= Ends(down'[k])
<1>1. PICK u : u = Tail(down)
  OBVIOUS
<1>2. /\ Len(u) = Len(down) - 1
      /\ \A k \in 1 .. Len(u) : k + 1 \in 1 .. Len(down) /\ u[k] = down[k + 1]
  BY <1>1, DownTail
<1>3. Len(down) \in Nat
  BY DownFacts
<1>4. \A k \in 1 .. Len(u) : Brings(u[k]) => Sliced(u[k], history)
  BY <1>2 DEF OfHistory
<1>5. ASSUME NEW j \in 1 .. Len(u), NEW k \in 1 .. Len(u), j < k,
             Brings(u[j]), Brings(u[k])
      PROVE  Ends(u[j]) <= Ends(u[k])
  <2>1. j + 1 \in 1 .. Len(down) /\ k + 1 \in 1 .. Len(down) /\ j + 1 < k + 1
    BY <1>2, <1>3, <1>5
  <2>2. QED
    BY <1>2, <1>5, <2>1 DEF Forwards
<1>6. \A j \in 1 .. Len(queue), k \in 1 .. Len(u) :
         Brings(u[k]) => Ends(queue[j].packet) <= Ends(u[k])
  BY <1>2 DEF Forwards
<1>7. \A s \in Saves, k \in 1 .. Len(u) :
         Brings(u[k]) => Len(journal[s]) <= Ends(u[k])
  BY <1>2 DEF Ahead
<1>8. QED
  BY <1>1, <1>4, <1>5, <1>6, <1>7

LEMMA Takings ==
    ASSUME JournalInv, down # <<>>, down' = Tail(down),
           queue' = queue \/ queue' = <<>>,
           UNCHANGED <<history, discarded, journal>>
    PROVE  Flow'
<1>1. SUFFICES ASSUME discarded = {} PROVE OfHistory' /\ Forwards' /\ Ahead'
  BY DEF Flow
<1>2. OfHistory /\ Forwards /\ Ahead /\ Typed
  BY <1>1 DEF JournalInv, Flow
<1>3. \A k \in 1 .. Len(queue') : k \in 1 .. Len(queue) /\ queue'[k] = queue[k]
  <2>1. CASE queue' = queue
    BY <2>1
  <2>2. CASE queue' = <<>>
    BY <2>2
  <2>3. QED
    BY <2>1, <2>2
<1>4. OfHistory'
  BY <1>2, <1>3, TailKept DEF OfHistory
<1>5. Forwards'
  BY <1>2, <1>3, TailKept DEF Forwards
<1>6. Ahead'
  BY <1>2, <1>3, TailKept DEF Ahead
<1>7. QED
  BY <1>4, <1>5, <1>6

LEMMA Queues ==
    ASSUME JournalInv, down # <<>>, down' = Tail(down), Brings(Head(down)),
           NEW b \in BOOLEAN,
           queue' = Append(queue, [packet |-> Head(down), syncSent |-> b]),
           UNCHANGED <<history, discarded, journal>>
    PROVE  /\ Flow'
           /\ queue' \in Seq([packet : J!Message, syncSent : BOOLEAN])
           /\ \A k \in 1 .. Len(queue') :
                 \/ k \in 1 .. Len(queue) /\ queue'[k] = queue[k]
                 \/ k = Len(queue) + 1 /\ queue'[k].packet = Head(down)
<1>1. PICK p : p = Head(down)
  OBVIOUS
<1>2. p \in J!Message /\ p = down[1] /\ 1 \in 1 .. Len(down)
  BY <1>1, DownTail DEF JournalInv
<1>3. PICK g : g = [packet |-> p, syncSent |-> b]
  OBVIOUS
<1>4. g \in [packet : J!Message, syncSent : BOOLEAN] /\ g.packet = p
  BY <1>2, <1>3
<1>5. /\ queue \in Seq([packet : J!Message, syncSent : BOOLEAN])
      /\ Len(queue) \in Nat
  BY QueueFacts DEF JournalInv, Typed, QueueTyped
<1>6. PICK q : q = Append(queue, g)
  OBVIOUS
<1>7. /\ q \in Seq([packet : J!Message, syncSent : BOOLEAN])
      /\ Len(q) = Len(queue) + 1
      /\ \A k \in 1 .. Len(queue) : q[k] = queue[k]
      /\ q[Len(queue) + 1] = g
  BY <1>4, <1>5, <1>6, AppendProperties
<1>8. \A k \in 1 .. Len(q) :
         \/ k \in 1 .. Len(queue) /\ q[k] = queue[k]
         \/ k = Len(queue) + 1 /\ q[k].packet = p
  BY <1>4, <1>5, <1>7
<1>9. queue' = q
  BY <1>1, <1>3, <1>6
<1>10. ASSUME discarded = {} PROVE OfHistory' /\ Forwards' /\ Ahead'
  <2>1. OfHistory /\ Forwards /\ Ahead /\ Typed
    BY <1>10 DEF JournalInv, Flow
  <2>2. Sliced(p, history) /\ \A s \in Saves : Len(journal[s]) <= Ends(p)
    BY <1>1, <1>2, <2>1 DEF OfHistory, Ahead
  <2>3. \A j \in 1 .. Len(queue) : Ends(queue[j].packet) <= Ends(p)
    BY <1>1, <1>2, <2>1 DEF Forwards
  <2>4. ASSUME NEW k \in 1 .. Len(down'), Brings(down'[k])
        PROVE  Ends(p) <= Ends(down'[k])
    <3>1. PICK u : u = Tail(down)
      OBVIOUS
    <3>2. k + 1 \in 1 .. Len(down) /\ u[k] = down[k + 1]
      BY <2>1, <2>4, <3>1, DownTail
    <3>3. 1 < k + 1
      BY <2>1, <2>4, <3>1, DownTail, DownFacts
    <3>4. QED
      BY <1>1, <1>2, <2>1, <2>4, <3>1, <3>2, <3>3 DEF Forwards
  <2>5. OfHistory'
    <3>1. \A k \in 1 .. Len(q) : Sliced(q[k].packet, history)
      BY <1>8, <2>1, <2>2 DEF OfHistory
    <3>2. QED
      BY <1>9, <2>1, <3>1, TailKept DEF OfHistory
  <2>6. Forwards'
    <3>1. ASSUME NEW j \in 1 .. Len(q), NEW k \in 1 .. Len(q), j < k
          PROVE  Ends(q[j].packet) <= Ends(q[k].packet)
      <4>1. j \in 1 .. Len(queue) /\ q[j] = queue[j]
        BY <1>5, <1>7, <1>8, <3>1
      <4>2. CASE k \in 1 .. Len(queue) /\ q[k] = queue[k]
        BY <2>1, <3>1, <4>1, <4>2 DEF Forwards
      <4>3. CASE q[k].packet = p
        BY <2>3, <4>1, <4>3
      <4>4. QED
        BY <1>8, <4>2, <4>3
    <3>2. ASSUME NEW j \in 1 .. Len(q), NEW k \in 1 .. Len(down'),
                 Brings(down'[k])
          PROVE  Ends(q[j].packet) <= Ends(down'[k])
      <4>1. CASE j \in 1 .. Len(queue) /\ q[j] = queue[j]
        BY <2>1, <3>2, <4>1, TailKept
      <4>2. CASE q[j].packet = p
        BY <2>4, <3>2, <4>2
      <4>3. QED
        BY <1>8, <4>1, <4>2
    <3>3. QED
      BY <1>9, <2>1, <3>1, <3>2, TailKept DEF Forwards
  <2>7. Ahead'
    <3>1. ASSUME NEW s \in Saves, NEW k \in 1 .. Len(q)
          PROVE  Len(journal[s]) <= Ends(q[k].packet)
      BY <1>8, <2>1, <2>2 DEF Ahead
    <3>2. QED
      BY <1>9, <2>1, <3>1, TailKept DEF Ahead
  <2>8. QED
    BY <2>5, <2>6, <2>7
<1>11. QED
  BY <1>1, <1>7, <1>8, <1>9, <1>10 DEF Flow

LEMMA FlowStays ==
    ASSUME Flow, UNCHANGED <<history, discarded, down, queue, journal>>
    PROVE  Flow'
<1>1. OfHistory /\ Forwards /\ Ahead => OfHistory' /\ Forwards' /\ Ahead'
  BY DEF OfHistory, Forwards, Ahead
<1>2. QED
  BY <1>1 DEF Flow

\* The link is lost or made anew: nothing is under way in it.
LEMMA FlowCut ==
    ASSUME JournalInv, \A k \in 1 .. Len(down') : ~ Brings(down'[k]),
           queue' = queue \/ queue' = <<>>,
           UNCHANGED <<history, discarded, journal>>
    PROVE  Flow'
<1>1. SUFFICES ASSUME discarded = {} PROVE OfHistory' /\ Forwards' /\ Ahead'
  BY DEF Flow
<1>2. OfHistory /\ Forwards /\ Ahead
  BY <1>1 DEF JournalInv, Flow
<1>3. \A k \in 1 .. Len(queue') : k \in 1 .. Len(queue) /\ queue'[k] = queue[k]
  <2>1. CASE queue' = queue
    BY <2>1
  <2>2. CASE queue' = <<>>
    BY <2>2
  <2>3. QED
    BY <2>1, <2>2
<1>4. OfHistory'
  BY <1>2, <1>3 DEF OfHistory
<1>5. Forwards'
  BY <1>2, <1>3 DEF Forwards
<1>6. Ahead'
  BY <1>2, <1>3 DEF Ahead
<1>7. QED
  BY <1>4, <1>5, <1>6

LEMMA JournalFacts ==
    ASSUME Typed, open # NoSave
    PROVE  /\ open \in Saves
           /\ \A s \in Saves : Recordable(journal[s]) /\ Len(journal[s]) \in Nat
<1>1. open \in Saves
  BY DEF Typed, SessionTyped
<1>2. \A s \in Saves : Recordable(journal[s])
  BY DEF Typed, JournalTyped
<1>3. ASSUME NEW s \in Saves PROVE Len(journal[s]) \in Nat
  <2>1. Recordable(journal[s])
    BY <1>2
  <2>2. QED
    BY <2>1 DEF Recordable
<1>4. QED
  BY <1>1, <1>2, <1>3

LEMMA ExtendsItself ==
    ASSUME NEW e, Recordable(e) PROVE Extends(e, e)
<1>1. Len(e) \in Nat
  BY DEF Recordable
<1>2. QED
  BY <1>1 DEF Extends

\* What a journal becomes when the first n packets have been taken.
LEMMA Recordings ==
    ASSUME JournalInv, open # NoSave, NEW n \in 0 .. Len(queue),
           NEW e, Recordable(e), discarded = {} => Placed(e, n + 1),
           journal' = [journal EXCEPT ![open] = e],
           queue' = SubSeq(queue, n + 1, Len(queue)),
           UNCHANGED <<history, discarded, down>>
    PROVE  JournalTyped' /\ QueueTyped' /\ Flow'
<1>1. PICK q : q = SubSeq(queue, n + 1, Len(queue))
  OBVIOUS
<1>2. PICK j : j = [journal EXCEPT ![open] = e]
  OBVIOUS
<1>3. PICK L : L = Len(queue) /\ L \in Nat
  BY QueueFacts DEF JournalInv
<1>4. Typed
  BY DEF JournalInv
<1>5. open \in Saves /\ journal \in [Saves -> Seq(J!Entry)]
  BY <1>4, JournalFacts DEF Typed, JournalTyped
<1>6. /\ j \in [Saves -> Seq(J!Entry)] /\ j[open] = e
      /\ \A s \in Saves : s # open => j[s] = journal[s]
  BY <1>2, <1>5 DEF Recordable
<1>7. \A s \in Saves : Recordable(j[s])
  BY <1>4, <1>6, JournalFacts
<1>8. JournalTyped'
  BY <1>2, <1>6, <1>7 DEF JournalTyped, Recordable
<1>9. /\ q \in Seq([packet : J!Message, syncSent : BOOLEAN])
      /\ \A k \in 1 .. Len(q) :
            k + n \in (n + 1) .. L /\ k + n \in 1 .. L /\ q[k] = queue[k + n]
  <2>1. queue \in Seq([packet : J!Message, syncSent : BOOLEAN]) /\ n \in Nat
        /\ n <= L
    BY <1>3, <1>4 DEF Typed, QueueTyped
  <2>2. /\ q \in Seq([packet : J!Message, syncSent : BOOLEAN])
        /\ Len(q) = IF n + 1 <= L THEN L - (n + 1) + 1 ELSE 0
        /\ \A k \in 1 .. (L - (n + 1) + 1) : q[k] = queue[n + 1 + k - 1]
    <3>1. PICK a, m, R : /\ a = queue /\ m = n + 1
                         /\ R = [packet : J!Message, syncSent : BOOLEAN]
      OBVIOUS
    <3>2. L \in Int /\ m \in Int /\ q = SubSeq(a, m, L)
      BY <1>1, <1>3, <2>1, <3>1
    <3>3. \A i \in m .. L : a[i] \in R
      <4>1. a \in Seq(R) /\ \A i \in m .. L : i \in 1 .. Len(a)
        BY <1>3, <2>1, <3>1
      <4>2. QED
        BY <4>1, ElementOfSeq
    <3>4. /\ q \in Seq(R)
          /\ Len(q) = IF m <= L THEN L - m + 1 ELSE 0
          /\ \A k \in 1 .. (L - m + 1) : q[k] = a[m + k - 1]
      BY ONLY <3>2, <3>3, SubSeqProperties
    <3>5. QED
      BY <3>1, <3>4
  <2>3. Len(q) = L - n
    BY <1>3, <2>1, <2>2
  <2>4. ASSUME NEW k \in 1 .. Len(q)
        PROVE  /\ k + n \in (n + 1) .. L /\ k + n \in 1 .. L
               /\ q[k] = queue[k + n]
    <3>1. k \in 1 .. (L - (n + 1) + 1) /\ n + 1 + k - 1 = k + n
      BY <1>3, <2>1, <2>3
    <3>2. QED
      BY <1>3, <2>1, <2>2, <2>3, <3>1
  <2>5. QED
    BY <2>2, <2>4
<1>10. \A k \in 1 .. Len(q) : Accepted(q[k].packet)
  BY <1>3, <1>4, <1>9 DEF Typed, QueueTyped
<1>11. QueueTyped'
  BY <1>1, <1>9, <1>10 DEF QueueTyped, Accepted, Ends
<1>12. ASSUME discarded = {} PROVE OfHistory' /\ Forwards' /\ Ahead'
  <2>1. OfHistory /\ Forwards /\ Ahead /\ Placed(e, n + 1)
    BY <1>12 DEF JournalInv, Flow
  <2>2. OfHistory'
    <3>1. \A k \in 1 .. Len(q) : Sliced(q[k].packet, history)
      BY <1>3, <1>9, <2>1 DEF OfHistory
    <3>2. \A s \in Saves : Begins(j[s], history)
      BY <1>6, <2>1 DEF OfHistory, Placed
    <3>3. QED
      BY <1>1, <1>2, <2>1, <3>1, <3>2 DEF OfHistory
  <2>3. Forwards'
    <3>1. ASSUME NEW i \in 1 .. Len(q), NEW k \in 1 .. Len(q), i < k
          PROVE  Ends(q[i].packet) <= Ends(q[k].packet)
      <4>1. i + n \in 1 .. L /\ k + n \in 1 .. L /\ i + n < k + n
        BY <1>3, <1>9, <3>1
      <4>2. QED
        BY <1>3, <1>9, <2>1, <4>1 DEF Forwards
    <3>2. ASSUME NEW i \in 1 .. Len(q), NEW k \in 1 .. Len(down), Brings(down[k])
          PROVE  Ends(q[i].packet) <= Ends(down[k])
      BY <1>3, <1>9, <2>1, <3>2 DEF Forwards
    <3>3. QED
      BY <1>1, <2>1, <3>1, <3>2 DEF Forwards
  <2>4. Ahead'
    <3>1. ASSUME NEW s \in Saves, NEW k \in 1 .. Len(q)
          PROVE  Len(j[s]) <= Ends(q[k].packet)
      <4>1. CASE s = open
        BY <1>3, <1>6, <1>9, <2>1, <4>1 DEF Placed
      <4>2. CASE s # open
        BY <1>3, <1>6, <1>9, <2>1, <4>2 DEF Ahead
      <4>3. QED
        BY <4>1, <4>2
    <3>2. ASSUME NEW s \in Saves, NEW k \in 1 .. Len(down), Brings(down[k])
          PROVE  Len(j[s]) <= Ends(down[k])
      <4>1. CASE s = open
        BY <1>6, <2>1, <3>2, <4>1 DEF Placed
      <4>2. CASE s # open
        BY <1>6, <2>1, <3>2, <4>2 DEF Ahead
      <4>3. QED
        BY <4>1, <4>2
    <3>3. QED
      BY <1>1, <1>2, <3>1, <3>2 DEF Ahead
  <2>5. QED
    BY <2>2, <2>3, <2>4
<1>13. QED
  BY <1>8, <1>11, <1>12 DEF Flow

\* While the server only adds, a journal keeps what it has.
Kept == discarded = {} => \A s \in Saves : Extends(journal'[s], journal[s])

LEMMA RecordingKeeps ==
    ASSUME Typed, open # NoSave, NEW e,
           discarded = {} => Extends(e, journal[open]),
           journal' = [journal EXCEPT ![open] = e]
    PROVE  Kept
<1>1. open \in Saves /\ journal \in [Saves -> Seq(J!Entry)]
  BY JournalFacts DEF Typed, JournalTyped
<1>2. PICK j : j = [journal EXCEPT ![open] = e]
  OBVIOUS
<1>3. j[open] = e /\ \A s \in Saves : s # open => j[s] = journal[s]
  BY <1>1, <1>2
<1>4. \A s \in Saves : Extends(journal[s], journal[s])
  BY JournalFacts, ExtendsItself
<1>5. discarded = {} => \A s \in Saves : Extends(j[s], journal[s])
  BY <1>3, <1>4
<1>6. QED
  BY <1>2, <1>5 DEF Kept

LEMMA KeepsTyped ==
    ASSUME NEW st, StateTyped(st), J!Keeps(st)
    PROVE  RequestsTyped'
  BY DEF StateTyped, J!Keeps, RequestsTyped

LEMMA WorkerHolds ==
    ASSUME JournalInv, J!WorkerRuns
    PROVE  JournalInv' /\ Kept
<1>1. PICK L : L = Len(queue) /\ L \in Nat
  BY QueueFacts DEF JournalInv
<1>2. PICK st : st = J!AfterPackets[L]
  OBVIOUS
<1>3. /\ open # NoSave /\ queue' = <<>>
      /\ journal' = [journal EXCEPT ![open] = st.entries]
      /\ J!Keeps(st)
      /\ UNCHANGED <<history, discarded, down>>
      /\ UNCHANGED <<sendIndex, joined, link, up, count, connected,
                     open, switches, losses>>
  BY <1>1, <1>2 DEF J!WorkerRuns, J!serverVars, J!linkVars, J!boundVars
<1>4. L \in 0 .. Len(queue)
  BY <1>1
<1>5. StateTyped(st) /\ (discarded = {} => InOrder(st.entries, L + 1))
  BY <1>2, <1>3, <1>4, WorkerInOrder
<1>6. SubSeq(queue, L + 1, Len(queue)) = <<>>
  BY <1>1, SubSeqEmpty
<1>7. Recordable(st.entries) /\ (discarded = {} => Placed(st.entries, L + 1))
  BY <1>5 DEF StateTyped, InOrder
<1>8. JournalTyped' /\ QueueTyped' /\ Flow'
  BY <1>3, <1>4, <1>6, <1>7, Recordings
<1>9. Kept
  BY <1>3, <1>5, RecordingKeeps DEF InOrder, JournalInv
<1>10. RequestsTyped'
  BY <1>3, <1>5, KeepsTyped
<1>11. ServerTyped' /\ ConnectionTyped' /\ SessionTyped' /\ BoundsTyped'
  BY <1>3 DEF JournalInv, Typed, ServerTyped, ConnectionTyped, SessionTyped, BoundsTyped
<1>12. QED
  BY <1>8, <1>9, <1>10, <1>11 DEF JournalInv, Typed

LEMMA WorkerFailHolds ==
    ASSUME JournalInv, J!WorkerFails
    PROVE  JournalInv' /\ Kept
<1>1. /\ J!Fault /\ open # NoSave /\ open' = NoSave
      /\ UNCHANGED <<history, discarded, down>>
      /\ UNCHANGED <<sendIndex, joined, link, up, count, connected>>
  BY DEF J!WorkerFails, J!serverVars, J!linkVars
<1>2. PICK n \in DOMAIN queue :
        /\ J!Outcome(J!AfterPackets[n - 1].entries, queue[n].packet)
             \in {"accepted", "replaced"}
        /\ J!Keeps(J!AfterPackets[n - 1])
        /\ queue' = SubSeq(queue, n + 1, Len(queue))
        /\ \E entries \in {J!AfterPackets[n - 1].entries,
                           J!Recorded(J!AfterPackets[n - 1].entries, queue[n].packet)} :
             journal' = [journal EXCEPT ![open] = entries]
  BY DEF J!WorkerFails
<1>3. n \in 1 .. Len(queue) /\ n \in 0 .. Len(queue) /\ n - 1 \in 0 .. Len(queue)
      /\ (n - 1) + 1 = n
  BY QueueFacts DEF JournalInv, Typed, QueueTyped
<1>4. PICK st, p : st = J!AfterPackets[n - 1] /\ p = queue[n].packet
  OBVIOUS
<1>5. PICK e \in {st.entries, J!Recorded(st.entries, p)} :
        journal' = [journal EXCEPT ![open] = e]
  BY <1>2, <1>4
<1>6. J!Outcome(st.entries, p) \in {"accepted", "replaced"} /\ J!Keeps(st)
  BY <1>2, <1>4
<1>7. StateTyped(st) /\ (discarded = {} => InOrder(st.entries, n))
  <2>1. /\ StateTyped(J!AfterPackets[n - 1])
        /\ discarded = {} => InOrder(J!AfterPackets[n - 1].entries, (n - 1) + 1)
    BY <1>1, <1>3, WorkerInOrder
  <2>2. QED
    BY <1>3, <1>4, <2>1
<1>8. Recordable(st.entries)
  BY <1>7 DEF StateTyped
<1>9. Recordable(e)
  <2>1. p \in J!Message /\ Accepted(p)
    BY <1>3, <1>4, QueueFacts DEF JournalInv
  <2>2. QED
    BY <1>5, <1>6, <1>8, <2>1, RecordedFits
<1>10. discarded = {} => InOrder(e, n + 1)
  <2>1. ASSUME discarded = {} PROVE InOrder(e, n + 1)
    <3>1. InOrder(J!Recorded(st.entries, p), n + 1)
      BY <1>3, <1>4, <1>6, <1>7, <1>8, <2>1, RecordedInOrder
    <3>2. InOrder(st.entries, n + 1)
      <4>1. \A m \in (n + 1) .. Len(queue) : m \in n .. Len(queue)
        BY <1>3
      <4>2. QED
        BY <1>7, <2>1, <4>1 DEF InOrder, Placed
    <3>3. QED
      BY <1>5, <3>1, <3>2
  <2>2. QED
    BY <2>1
<1>11. JournalTyped' /\ QueueTyped' /\ Flow'
  BY <1>1, <1>2, <1>3, <1>5, <1>9, <1>10, Recordings DEF InOrder
<1>12. Kept
  BY <1>1, <1>5, <1>10, RecordingKeeps DEF InOrder, JournalInv
<1>13. RequestsTyped'
  BY <1>6, <1>7, KeepsTyped
<1>14. ServerTyped' /\ ConnectionTyped' /\ SessionTyped'
  BY <1>1 DEF JournalInv, Typed, ServerTyped, ConnectionTyped, SessionTyped
<1>15. BoundsTyped'
  BY <1>1, JournalAssumption
     DEF JournalInv, Typed, BoundsTyped, J!Fault, J!BoundAssumption
<1>16. QED
  BY <1>11, <1>12, <1>13, <1>14, <1>15 DEF JournalInv, Typed

AppliedStays ==
    discarded = {} =>
      \A s \in Saves : \A n \in DOMAIN journal[s] :
        journal[s][n].applied => /\ n \in DOMAIN journal'[s]
                                 /\ journal'[s][n] = journal[s][n]

LEMMA KeptStays ==
    ASSUME Typed, JournalTyped', Kept PROVE AppliedStays
<1>1. ASSUME discarded = {}, NEW s \in Saves, NEW n \in DOMAIN journal[s]
      PROVE  n \in DOMAIN journal'[s] /\ journal'[s][n] = journal[s][n]
  <2>1. /\ DOMAIN journal[s] = 1 .. Len(journal[s]) /\ Len(journal[s]) \in Nat
    BY DEF Typed, JournalTyped, Recordable
  <2>2. /\ DOMAIN journal'[s] = 1 .. Len(journal'[s]) /\ Len(journal'[s]) \in Nat
    BY DEF JournalTyped, Recordable
  <2>3. Extends(journal'[s], journal[s])
    BY <1>1 DEF Kept
  <2>4. QED
    BY <1>1, <2>1, <2>2, <2>3 DEF Extends
<1>2. QED
  BY <1>1 DEF AppliedStays

\* Marking changes neither the items nor what is applied already.
LEMMA MarkHolds ==
    ASSUME JournalInv, J!MarkApplied
    PROVE  JournalInv' /\ AppliedStays
<1>1. PICK x, e : /\ x = journal[open]
                  /\ e = [n \in DOMAIN x |-> [x[n] EXCEPT !.applied = TRUE]]
  OBVIOUS
<1>2. /\ open # NoSave /\ UNCHANGED <<history, discarded, down>>
      /\ queue' = queue /\ open' = open
      /\ UNCHANGED <<sendIndex, joined, link, up, count, connected,
                     requested, rejection, syncs, switches, losses>>
  BY DEF J!MarkApplied, J!serverVars, J!linkVars, J!requestVars, J!boundVars
<1>3. open \in Saves /\ journal \in [Saves -> Seq(J!Entry)] /\ Recordable(x)
  BY <1>1, <1>2, JournalFacts DEF JournalInv, Typed, JournalTyped
<1>4. journal' = [journal EXCEPT ![open] = e]
  BY <1>1, <1>3 DEF J!MarkApplied
<1>5. /\ DOMAIN x = 1 .. Len(x) /\ Len(x) \in Nat /\ \A n \in DOMAIN x : x[n] \in J!Entry
  BY <1>3 DEF Recordable
<1>6. ASSUME NEW n \in 1 .. Len(x)
      PROVE  /\ e[n] \in J!Entry /\ e[n].item = x[n].item
             /\ x[n].applied => e[n] = x[n]
  <2>1. x[n] \in J!Entry
    BY <1>5
  <2>2. PICK g : g = x[n]
    OBVIOUS
  <2>3. /\ g = [item |-> g.item, applied |-> g.applied]
        /\ g.item \in Network /\ g.applied \in BOOLEAN
    BY <2>1, <2>2 DEF J!Entry
  <2>4. e[n] = [g EXCEPT !.applied = TRUE]
    BY <1>1, <1>5, <2>2
  <2>5. e[n] = [item |-> g.item, applied |-> TRUE]
    BY <2>3, <2>4
  <2>6. QED
    BY <2>2, <2>3, <2>5, EntryMade
<1>7. e = [n \in 1 .. Len(x) |-> e[n]]
  BY <1>1, <1>5
<1>8. e \in Seq(J!Entry) /\ Len(e) = Len(x)
  BY <1>5, <1>6, <1>7, IsASeq
<1>9. Recordable(e)
  BY <1>3, <1>6, <1>8 DEF Recordable
<1>10. ASSUME discarded = {} PROVE Placed(e, 1)
  <2>1. Begins(x, history)
    BY <1>1, <1>3, <1>10 DEF JournalInv, Flow, OfHistory
  <2>2. Begins(e, history)
    BY <1>6, <1>8, <2>1 DEF Begins
  <2>3. QED
    BY <1>1, <1>3, <1>8, <1>10, <2>2 DEF JournalInv, Flow, Ahead, Placed
<1>11. SubSeq(queue, 1, Len(queue)) = queue
  BY SubSeqFull DEF JournalInv, Typed, QueueTyped
<1>12. JournalTyped' /\ QueueTyped' /\ Flow'
  <2>1. 0 \in 0 .. Len(queue) /\ 0 + 1 = 1
    BY QueueFacts DEF JournalInv
  <2>2. QED
    BY <1>2, <1>4, <1>9, <1>10, <1>11, <2>1, Recordings
<1>13. ServerTyped' /\ ConnectionTyped' /\ SessionTyped' /\ BoundsTyped' /\ RequestsTyped'
  BY <1>2 DEF JournalInv, Typed, ServerTyped, ConnectionTyped, SessionTyped, BoundsTyped,
              RequestsTyped
<1>14. AppliedStays
  <2>1. PICK j : j = [journal EXCEPT ![open] = e]
    OBVIOUS
  <2>2. j[open] = e /\ \A s \in Saves : s # open => j[s] = journal[s]
    BY <1>3, <2>1
  <2>3. DOMAIN e = DOMAIN x
    BY <1>5, <1>7
  <2>4. \A n \in DOMAIN x : x[n].applied => e[n] = x[n]
    BY <1>5, <1>6
  <2>5. ASSUME NEW s \in Saves, NEW n \in DOMAIN journal[s], journal[s][n].applied
        PROVE  n \in DOMAIN j[s] /\ j[s][n] = journal[s][n]
    <3>1. CASE s = open
      BY <1>1, <2>2, <2>3, <2>4, <2>5, <3>1
    <3>2. CASE s # open
      BY <2>2, <2>5, <3>2
    <3>3. QED
      BY <3>1, <3>2
  <2>6. QED
    BY <1>4, <2>1, <2>5 DEF AppliedStays
<1>15. QED
  BY <1>12, <1>13, <1>14 DEF JournalInv, Typed

-----------------------------------------------------------------------------
(* The server and the connection.                                           *)

LEMMA FaultCounts ==
    ASSUME BoundsTyped, J!Fault \/ J!Move PROVE BoundsTyped'
  BY JournalAssumption DEF BoundsTyped, J!Fault, J!Move, J!BoundAssumption

LEMMA GainHolds == ASSUME JournalInv, J!Gain PROVE JournalInv'
<1>1. /\ Len(history) < MaxItems
      /\ UNCHANGED <<discarded, sendIndex, joined, link, down, up>>
      /\ UNCHANGED <<count, connected, queue, requested, rejection, syncs,
                     open, journal, switches, losses>>
  BY DEF J!Gain, J!linkVars, J!clientVars, J!requestVars, J!boundVars
<1>2. PICK i \in Network : history' = Append(history, i)
  BY DEF J!Gain
<1>3. PICK h, g : h = history /\ g = Append(h, i)
  OBVIOUS
<1>4. h \in Seq(Network) /\ Len(h) \in Nat /\ MaxItems \in Nat
  BY <1>3, HistoryFacts DEF JournalInv
<1>5. /\ g \in Seq(Network) /\ Len(g) = Len(h) + 1
      /\ \A n \in 1 .. Len(h) : g[n] = h[n]
  BY <1>3, <1>4, AppendProperties
<1>6. history' = g
  BY <1>2, <1>3
<1>7. ServerTyped'
  BY <1>1, <1>3, <1>4, <1>5, <1>6 DEF JournalInv, Typed, ServerTyped
<1>8. ConnectionTyped' /\ SessionTyped' /\ QueueTyped'
  BY <1>1 DEF JournalInv, Typed, ConnectionTyped, SessionTyped, QueueTyped
<1>9. RequestsTyped' /\ JournalTyped' /\ BoundsTyped'
  BY <1>1 DEF JournalInv, Typed, RequestsTyped, JournalTyped, BoundsTyped
<1>10. ASSUME NEW p \in J!Message, Sliced(p, h) PROVE Sliced(p, g)
  <2>1. p.index \in Nat /\ Len(p.items) \in Nat /\ Ends(p) = p.index + Len(p.items)
    BY MessageShape DEF Ends
  <2>2. ASSUME NEW n \in 1 .. Len(p.items) PROVE p.items[n] = g[p.index + n]
    <3>1. p.index + n \in 1 .. Len(h)
      BY <1>4, <1>10, <2>1 DEF Sliced
    <3>2. QED
      BY <1>5, <1>10, <3>1 DEF Sliced
  <2>3. QED
    BY <1>4, <1>5, <1>10, <2>1, <2>2 DEF Sliced
<1>11. ASSUME NEW e, Recordable(e), Begins(e, h) PROVE Begins(e, g)
  <2>1. Len(e) \in Nat
    BY <1>11 DEF Recordable
  <2>2. QED
    BY <1>4, <1>5, <1>11, <2>1 DEF Begins
<1>12. ASSUME discarded = {} PROVE OfHistory' /\ Forwards' /\ Ahead'
  <2>1. OfHistory /\ Forwards /\ Ahead /\ Typed
    BY <1>12 DEF JournalInv, Flow
  <2>2. \A k \in 1 .. Len(queue) : Sliced(queue[k].packet, g)
    BY <1>3, <1>10, <2>1, QueueFacts DEF OfHistory
  <2>3. \A k \in 1 .. Len(down) : Brings(down[k]) => Sliced(down[k], g)
    BY <1>3, <1>10, <2>1, DownFacts DEF OfHistory
  <2>4. \A s \in Saves : Begins(journal[s], g)
    BY <1>3, <1>11, <2>1 DEF OfHistory, Typed, JournalTyped
  <2>5. OfHistory'
    BY <1>1, <1>6, <2>2, <2>3, <2>4 DEF OfHistory
  <2>6. Forwards' /\ Ahead'
    BY <1>1, <2>1 DEF Forwards, Ahead
  <2>7. QED
    BY <2>5, <2>6
<1>13. Flow'
  BY <1>1, <1>12 DEF Flow
<1>14. QED
  BY <1>7, <1>8, <1>9, <1>13 DEF JournalInv, Typed

\* The server announces, or answers.
LEMMA ServerSendsHold ==
    ASSUME JournalInv, NEW s, Delivered(s), link, down' = down \o s,
           sendIndex' = Len(history), joined' \in BOOLEAN,
           up' = up \/ (up # <<>> /\ up' = Tail(up)),
           UNCHANGED <<history, discarded, link, J!clientVars, J!boundVars>>
    PROVE  JournalInv'
<1>1. UNCHANGED <<count, connected, queue, requested, rejection, syncs,
                  open, journal, switches, losses>>
  BY DEF J!clientVars, J!requestVars, J!boundVars
<1>2. /\ Flow' /\ down' \in Seq(J!Message)
      /\ \A k \in 1 .. Len(down') : Ends(down'[k]) <= MaxItems
  BY <1>1, Delivers
<1>3. up' \in Seq({"Connect", "Sync"})
  <2>1. up \in Seq({"Connect", "Sync"})
    BY DEF JournalInv, Typed, ConnectionTyped
  <2>2. up # <<>> => Tail(up) \in Seq({"Connect", "Sync"})
    BY <2>1, HeadTailProperties
  <2>3. QED
    BY <2>1, <2>2
<1>4. ConnectionTyped'
  BY <1>2, <1>3 DEF JournalInv, Typed, ConnectionTyped
<1>5. ServerTyped'
  BY HistoryFacts DEF JournalInv, Typed, ServerTyped
<1>6. SessionTyped' /\ QueueTyped' /\ RequestsTyped' /\ JournalTyped' /\ BoundsTyped'
  BY <1>1 DEF JournalInv, Typed, SessionTyped, QueueTyped, RequestsTyped,
              JournalTyped, BoundsTyped
<1>7. QED
  BY <1>2, <1>4, <1>5, <1>6 DEF JournalInv, Typed

LEMMA AnnounceHolds == ASSUME JournalInv, J!Announce PROVE JournalInv'
<1>1. sendIndex \in Nat /\ sendIndex <= Len(history)
  BY HistoryFacts DEF JournalInv, Typed, ServerTyped
<1>2. PICK p : p = J!Packet(sendIndex, J!From(sendIndex))
  OBVIOUS
<1>3. Delivered(<<p>>)
  BY <1>1, <1>2, PacketSlices DEF JournalInv
<1>4. down' = down \o <<p>>
  <2>1. down \in Seq(J!Message) /\ p \in J!Message
    <3>1. <<p>> \in Seq(J!Message) /\ <<p>>[1] = p /\ 1 \in 1 .. Len(<<p>>)
      BY <1>3 DEF Delivered
    <3>2. p \in J!Message
      BY <3>1, ElementOfSeq
    <3>3. QED
      BY <3>2 DEF JournalInv, Typed, ConnectionTyped
  <2>2. Append(down, p) = down \o <<p>>
    BY <2>1, AppendIsConcat
  <2>3. QED
    BY <1>2, <2>2 DEF J!Announce
<1>5. /\ link /\ sendIndex' = Len(history) /\ joined' \in BOOLEAN
      /\ up' = up
      /\ UNCHANGED <<history, discarded, link, J!clientVars, J!boundVars>>
  BY DEF J!Announce, JournalInv, Typed, ServerTyped
<1>6. QED
  BY <1>3, <1>4, <1>5, ServerSendsHold

LEMMA Heard == ASSUME Typed, up # <<>> PROVE link
  BY DEF Typed, ConnectionTyped

LEMMA JoinsHold == ASSUME JournalInv, J!ServerJoins PROVE JournalInv'
<1>1. PICK a, w : a = <<J!Greeting("Connected")>> /\ w = J!Whole
  OBVIOUS
<1>2. Delivered(a) /\ Delivered(w)
  BY <1>1, GreetingShape, WholeDelivered DEF JournalInv
<1>3. PICK s : s = a \o w
  OBVIOUS
<1>4. Delivered(s)
  BY <1>2, <1>3, DeliveredTogether
<1>5. down' = down \o s
  <2>1. down \in Seq(J!Message) /\ a \in Seq(J!Message) /\ w \in Seq(J!Message)
    BY <1>2 DEF JournalInv, Typed, ConnectionTyped, Delivered
  <2>2. (down \o a) \o w = down \o (a \o w)
    BY <2>1, ConcatAssociative
  <2>3. QED
    BY <1>1, <1>3, <2>2 DEF J!ServerJoins
<1>6. /\ link /\ sendIndex' = Len(history) /\ joined' \in BOOLEAN
      /\ up # <<>> /\ up' = Tail(up)
      /\ UNCHANGED <<history, discarded, link, J!clientVars, J!boundVars>>
  BY Heard DEF J!ServerJoins, JournalInv
<1>7. QED
  BY <1>4, <1>5, <1>6, ServerSendsHold

LEMMA SyncsHold == ASSUME JournalInv, J!ServerSyncs PROVE JournalInv'
<1>1. Delivered(J!Whole)
  BY WholeDelivered DEF JournalInv
<1>2. /\ link /\ sendIndex' = Len(history) /\ joined' \in BOOLEAN
      /\ up # <<>> /\ up' = Tail(up)
      /\ down' = down \o J!Whole
      /\ UNCHANGED <<history, discarded, link, J!clientVars, J!boundVars>>
  BY Heard DEF J!ServerSyncs, JournalInv, Typed, ServerTyped
<1>3. QED
  BY <1>1, <1>2, ServerSendsHold

\* From then on nothing is said of the order.
LEMMA RollbackHolds == ASSUME JournalInv, J!Rollback PROVE JournalInv'
<1>1. /\ J!Fault /\ ~ link
      /\ discarded' = discarded \cup {history} /\ sendIndex' = 0
      /\ UNCHANGED <<joined, link, down, up>>
      /\ UNCHANGED <<count, connected, queue, requested, rejection, syncs,
                     open, journal>>
  BY DEF J!Rollback, J!linkVars, J!clientVars, J!requestVars
<1>2. PICK n \in 0 .. (Len(history) - 1) : history' = SubSeq(history, 1, n)
  BY DEF J!Rollback
<1>3. /\ history \in Seq(Network) /\ Len(history) \in Nat
      /\ Len(history) <= MaxItems /\ MaxItems \in Nat
  BY HistoryFacts DEF JournalInv
<1>4. PICK h, g : h = history /\ g = SubSeq(h, 1, n)
  OBVIOUS
<1>5. \A i \in 1 .. n : h[i] \in Network
  BY <1>2, <1>3, <1>4, ElementOfSeq
<1>6. n \in Nat /\ n <= MaxItems
  BY <1>2, <1>3
<1>7. g \in Seq(Network) /\ Len(g) = n
  <2>1. g \in Seq(Network) /\ Len(g) = IF 1 <= n THEN n - 1 + 1 ELSE 0
    BY ONLY <1>4, <1>5, <1>6, SubSeqProperties
  <2>2. QED
    BY <1>6, <2>1
<1>8. history \in J!Histories
  BY <1>3, Bounded
<1>9. ServerTyped'
  BY <1>1, <1>2, <1>4, <1>6, <1>7, <1>8 DEF JournalInv, Typed, ServerTyped
<1>10. ConnectionTyped' /\ SessionTyped' /\ QueueTyped'
  BY <1>1 DEF JournalInv, Typed, ConnectionTyped, SessionTyped, QueueTyped
<1>11. RequestsTyped' /\ JournalTyped'
  BY <1>1 DEF JournalInv, Typed, RequestsTyped, JournalTyped
<1>12. BoundsTyped'
  BY <1>1, FaultCounts DEF JournalInv, Typed
<1>13. Flow'
  BY <1>1 DEF Flow
<1>14. QED
  BY <1>9, <1>10, <1>11, <1>12, <1>13 DEF JournalInv, Typed

LEMMA DialHolds == ASSUME JournalInv, J!Dial PROVE JournalInv'
<1>1. PICK g : g = J!Greeting("RoomInfo")
  OBVIOUS
<1>2. g \in J!Message /\ ~ Brings(g) /\ Ends(g) = 0
  BY <1>1, GreetingShape DEF JournalInv
<1>3. /\ link' = TRUE /\ down' = <<g>> /\ up' = <<>>
      /\ UNCHANGED <<history, discarded, sendIndex, joined>>
      /\ UNCHANGED <<count, connected, queue, requested, rejection, syncs,
                     open, journal, switches, losses>>
  BY <1>1 DEF J!Dial, J!serverVars, J!clientVars, J!requestVars, J!boundVars
<1>4. <<g>> \in Seq(J!Message) /\ \A k \in 1 .. Len(<<g>>) : <<g>>[k] = g
  BY <1>2
<1>5. ConnectionTyped'
  BY <1>2, <1>3, <1>4, HistoryFacts DEF ConnectionTyped, JournalInv
<1>6. ServerTyped' /\ SessionTyped' /\ QueueTyped'
  BY <1>3 DEF JournalInv, Typed, ServerTyped, SessionTyped, QueueTyped
<1>7. RequestsTyped' /\ JournalTyped' /\ BoundsTyped'
  BY <1>3 DEF JournalInv, Typed, RequestsTyped, JournalTyped, BoundsTyped
<1>8. Flow'
  BY <1>2, <1>3, <1>4, FlowCut
<1>9. QED
  BY <1>5, <1>6, <1>7, <1>8 DEF JournalInv, Typed

LEMMA LoseLinkHolds == ASSUME JournalInv, J!LoseLink PROVE JournalInv'
<1>1. /\ J!Fault /\ link' = FALSE /\ down' = <<>> /\ up' = <<>>
      /\ joined' = FALSE /\ sendIndex' = 0 /\ count' = 0
      /\ UNCHANGED <<history, discarded, connected, queue, requested,
                     rejection, syncs, open, journal>>
  BY DEF J!LoseLink, J!requestVars
<1>2. /\ <<>> \in Seq(J!Message) /\ <<>> \in Seq({"Connect", "Sync"})
      /\ \A k \in 1 .. Len(<<>>) : FALSE
  OBVIOUS
<1>3. ConnectionTyped'
  BY <1>1, <1>2 DEF ConnectionTyped
<1>4. ServerTyped' /\ SessionTyped'
  <2>1. 0 \in 0 .. Len(history) /\ 0 \in 0 .. MaxItems
    BY HistoryFacts DEF JournalInv
  <2>2. ServerTyped'
    BY <1>1, <2>1 DEF JournalInv, Typed, ServerTyped
  <2>3. SessionTyped'
    BY <1>1, <2>1 DEF JournalInv, Typed, SessionTyped
  <2>4. QED
    BY <2>2, <2>3
<1>5. QueueTyped' /\ RequestsTyped' /\ JournalTyped'
  BY <1>1 DEF JournalInv, Typed, QueueTyped, RequestsTyped, JournalTyped
<1>6. BoundsTyped'
  BY <1>1, FaultCounts DEF JournalInv, Typed
<1>7. Flow'
  BY <1>1, <1>2, FlowCut
<1>8. QED
  BY <1>3, <1>4, <1>5, <1>6, <1>7 DEF JournalInv, Typed

LEMMA ClientCrashHolds == ASSUME JournalInv, J!CrashClient PROVE JournalInv'
<1>1. /\ J!Fault /\ link' = FALSE /\ down' = <<>> /\ up' = <<>>
      /\ joined' = FALSE /\ sendIndex' = 0 /\ count' = 0
      /\ connected' = FALSE /\ queue' = <<>> /\ requested' = None
      /\ rejection' = {} /\ syncs' = <<>> /\ open' = NoSave
      /\ UNCHANGED <<history, discarded, journal>>
  BY DEF J!CrashClient
<1>2. /\ <<>> \in Seq(J!Message) /\ <<>> \in Seq({"Connect", "Sync"})
      /\ <<>> \in Seq([packet : J!Message, syncSent : BOOLEAN])
      /\ <<>> \in Seq(J!Request) /\ \A k \in 1 .. Len(<<>>) : FALSE
  OBVIOUS
<1>3. ConnectionTyped' /\ QueueTyped' /\ RequestsTyped'
  BY <1>1, <1>2 DEF ConnectionTyped, QueueTyped, RequestsTyped
<1>4. ServerTyped' /\ SessionTyped'
  <2>1. 0 \in 0 .. Len(history) /\ 0 \in 0 .. MaxItems
    BY HistoryFacts DEF JournalInv
  <2>2. ServerTyped'
    BY <1>1, <2>1 DEF JournalInv, Typed, ServerTyped
  <2>3. SessionTyped'
    BY <1>1, <2>1 DEF JournalInv, Typed, SessionTyped
  <2>4. QED
    BY <2>2, <2>3
<1>5. JournalTyped'
  BY <1>1 DEF JournalInv, Typed, JournalTyped
<1>6. BoundsTyped'
  BY <1>1, FaultCounts DEF JournalInv, Typed
<1>7. Flow'
  BY <1>1, <1>2, FlowCut
<1>8. QED
  BY <1>3, <1>4, <1>5, <1>6, <1>7 DEF JournalInv, Typed

-----------------------------------------------------------------------------
(* The client.                                                              *)

LEMMA RequestsHold ==
    ASSUME RequestsTyped,
           NEW r \in {"binding", "gap", "conflict", "partial_overlap",
                      "packet_rejected", "server_reconnect"},
           NEW i \in 0 .. MaxItems, NEW x \in SUBSET (0 .. MaxItems), NEW b,
           J!RequestSync(r, i, x, b)
    PROVE  requested' \in J!Request \cup {None} /\ syncs' \in Seq(J!Request)
<1>1. PICK q : q = [reason |-> r, index |-> i, expected |-> x]
  OBVIOUS
<1>2. q \in J!Request
  BY <1>1, RequestMade
<1>3. requested' = q /\ syncs' = J!Asked(syncs, requested, q, b)
  BY <1>1 DEF J!RequestSync
<1>4. QED
  BY <1>2, <1>3, AskedTyped DEF RequestsTyped

LEMMA ExpectedTyped ==
    ASSUME Typed
    PROVE  /\ J!Expected \in SUBSET (0 .. MaxItems) /\ 0 \in 0 .. MaxItems
           /\ \A s \in Saves : {Len(journal[s])} \in SUBSET (0 .. MaxItems)
<1>1. MaxItems \in Nat
  BY HistoryFacts
<1>2. ASSUME NEW s \in Saves PROVE Len(journal[s]) \in 0 .. MaxItems
  BY <1>1 DEF Typed, JournalTyped, Recordable
<1>3. open # NoSave => open \in Saves
  BY DEF Typed, SessionTyped
<1>4. QED
  BY <1>1, <1>2, <1>3 DEF J!Expected

LEMMA LifecycleNoted ==
    ASSUME Typed, NEW x \in SUBSET (0 .. MaxItems), J!NoteLifecycle(x),
           rejection' = rejection
    PROVE  RequestsTyped'
<1>1. RequestsTyped /\ 0 \in 0 .. MaxItems
  BY ExpectedTyped DEF Typed
<1>2. CASE J!RequestSync("binding", 0, x, FALSE)
  BY <1>1, <1>2, RequestsHold DEF RequestsTyped
<1>3. CASE UNCHANGED <<requested, syncs>>
  BY <1>1, <1>3 DEF RequestsTyped
<1>4. QED
  BY <1>2, <1>3 DEF J!NoteLifecycle

LEMMA RunSyncHolds == ASSUME JournalInv, J!RunSync PROVE JournalInv'
<1>1. /\ syncs # <<>> /\ syncs' = Tail(syncs)
      /\ UNCHANGED <<history, discarded, sendIndex, joined, link, down, count,
                     connected, queue, rejection, open, journal,
                     switches, losses>>
  BY DEF J!RunSync, J!serverVars, J!boundVars
<1>2. RequestsTyped'
  <2>1. syncs \in Seq(J!Request) /\ requested \in J!Request \cup {None}
    BY DEF JournalInv, Typed, RequestsTyped
  <2>2. Tail(syncs) \in Seq(J!Request)
    BY <1>1, <2>1, HeadTailProperties
  <2>3. requested' \in J!Request \cup {None}
    BY <2>1 DEF J!RunSync
  <2>4. QED
    BY <1>1, <2>2, <2>3 DEF JournalInv, Typed, RequestsTyped
<1>3. ConnectionTyped'
  <2>1. up \in Seq({"Connect", "Sync"}) /\ (~ link => up = <<>>)
    BY DEF JournalInv, Typed, ConnectionTyped
  <2>2. CASE link /\ up' = Append(up, "Sync")
    <3>1. up' \in Seq({"Connect", "Sync"})
      BY <2>1, <2>2, AppendProperties
    <3>2. QED
      BY <1>1, <2>2, <3>1 DEF JournalInv, Typed, ConnectionTyped
  <2>3. CASE up' = up
    BY <1>1, <2>3 DEF JournalInv, Typed, ConnectionTyped
  <2>4. QED
    BY <2>2, <2>3 DEF J!RunSync
<1>4. ServerTyped' /\ SessionTyped' /\ QueueTyped'
  BY <1>1 DEF JournalInv, Typed, ServerTyped, SessionTyped, QueueTyped
<1>5. JournalTyped' /\ BoundsTyped'
  BY <1>1 DEF JournalInv, Typed, JournalTyped, BoundsTyped
<1>6. Flow'
  BY <1>1, FlowStays DEF JournalInv
<1>7. QED
  BY <1>2, <1>3, <1>4, <1>5, <1>6 DEF JournalInv, Typed

\* What every handler of a message leaves as it should be.
LEMMA TakesHold ==
    ASSUME Typed, NEW k, J!Takes(k),
           up' = up \/ \E m \in {"Connect", "Sync"} : up' = Append(up, m)
    PROVE  /\ down # <<>> /\ Head(down).kind = k /\ down' = Tail(down)
           /\ UNCHANGED <<history, discarded>>
           /\ ServerTyped' /\ ConnectionTyped' /\ BoundsTyped'
<1>1. /\ down # <<>> /\ Head(down).kind = k /\ down' = Tail(down)
      /\ UNCHANGED <<history, discarded, sendIndex, joined, link, switches, losses>>
  BY DEF J!Takes, J!serverVars, J!boundVars
<1>2. link
  BY <1>1 DEF Typed, ConnectionTyped
<1>3. up' \in Seq({"Connect", "Sync"})
  <2>1. up \in Seq({"Connect", "Sync"})
    BY DEF Typed, ConnectionTyped
  <2>2. QED
    BY <2>1, AppendProperties
<1>4. ConnectionTyped'
  BY <1>1, <1>2, <1>3, TailTyped DEF Typed, ConnectionTyped
<1>5. ServerTyped' /\ BoundsTyped'
  BY <1>1 DEF Typed, ServerTyped, BoundsTyped
<1>6. QED
  BY <1>1, <1>4, <1>5

LEMMA RoomInfoHolds == ASSUME JournalInv, J!OnRoomInfo PROVE JournalInv'
<1>1. /\ J!Takes("RoomInfo") /\ up' = Append(up, "Connect")
      /\ queue' = <<>> /\ requested' = None /\ rejection' = {}
      /\ open' = NoSave /\ connected' = FALSE
      /\ UNCHANGED <<count, syncs, journal>>
  BY DEF J!OnRoomInfo
<1>2. /\ down # <<>> /\ down' = Tail(down) /\ UNCHANGED <<history, discarded>>
      /\ ServerTyped' /\ ConnectionTyped' /\ BoundsTyped'
  BY <1>1, TakesHold DEF JournalInv
<1>3. /\ <<>> \in Seq([packet : J!Message, syncSent : BOOLEAN])
      /\ \A k \in 1 .. Len(<<>>) : FALSE
  OBVIOUS
<1>4. QueueTyped'
  BY <1>1, <1>3 DEF QueueTyped
<1>5. SessionTyped' /\ RequestsTyped' /\ JournalTyped'
  BY <1>1 DEF JournalInv, Typed, SessionTyped, RequestsTyped, JournalTyped
<1>6. Flow'
  BY <1>1, <1>2, Takings
<1>7. QED
  BY <1>2, <1>4, <1>5, <1>6 DEF JournalInv, Typed

LEMMA JoinedHolds == ASSUME JournalInv, J!OnConnected PROVE JournalInv'
<1>1. /\ J!Takes("Connected") /\ up' = up /\ connected' = TRUE
      /\ UNCHANGED <<count, queue, rejection, open, journal>>
  BY DEF J!OnConnected
<1>2. /\ down # <<>> /\ down' = Tail(down) /\ UNCHANGED <<history, discarded>>
      /\ ServerTyped' /\ ConnectionTyped' /\ BoundsTyped'
  BY <1>1, TakesHold DEF JournalInv
<1>3. RequestsTyped'
  <2>1. RequestsTyped /\ 0 \in 0 .. MaxItems /\ J!Expected \in SUBSET (0 .. MaxItems)
    BY ExpectedTyped DEF JournalInv, Typed
  <2>2. CASE J!RequestSync("server_reconnect", 0, J!Expected, FALSE)
    BY <1>1, <2>1, <2>2, RequestsHold DEF RequestsTyped
  <2>3. CASE UNCHANGED <<requested, syncs>>
    BY <1>1, <2>1, <2>3 DEF RequestsTyped
  <2>4. QED
    BY <2>2, <2>3 DEF J!OnConnected
<1>4. SessionTyped' /\ QueueTyped' /\ JournalTyped'
  BY <1>1 DEF JournalInv, Typed, SessionTyped, QueueTyped, JournalTyped
<1>5. Flow'
  BY <1>1, <1>2, Takings
<1>6. QED
  BY <1>2, <1>3, <1>4, <1>5 DEF JournalInv, Typed

LEMMA RejectsTyped ==
    ASSUME NEW p \in J!Message, Ends(p) <= MaxItems
    PROVE  J!First(J!Rejects(p)) \in SUBSET (0 .. MaxItems)
<1>1. p.index \in Nat /\ p.items \in Seq(Network) /\ Len(p.items) \in Nat
      /\ Ends(p) = p.index + Len(p.items)
  BY MessageShape DEF Ends
<1>2. DOMAIN p.items = 1 .. Len(p.items)
  BY <1>1
<1>3. MaxItems \in Nat
  BY JournalAssumption DEF J!BoundAssumption
<1>4. ASSUME NEW n \in 1 .. Len(p.items) PROVE p.index + n - 1 \in 0 .. MaxItems
  BY <1>1, <1>3
<1>5. J!Rejects(p) \subseteq 0 .. MaxItems
  BY <1>2, <1>4 DEF J!Rejects
<1>6. QED
  BY <1>5 DEF J!First

LEMMA InvalidHolds == ASSUME JournalInv, J!OnInvalidItems PROVE JournalInv'
<1>1. PICK p : p = Head(down)
  OBVIOUS
<1>2. /\ J!Takes("ReceivedItems") /\ up' = up
      /\ UNCHANGED <<count, connected, queue, open, journal>>
  BY DEF J!OnInvalidItems
<1>3. /\ down # <<>> /\ down' = Tail(down) /\ UNCHANGED <<history, discarded>>
      /\ ServerTyped' /\ ConnectionTyped' /\ BoundsTyped'
  BY <1>2, TakesHold DEF JournalInv
<1>4. p \in J!Message /\ Ends(p) <= MaxItems
  BY <1>1, <1>3, DownTail DEF JournalInv, Typed, ConnectionTyped
<1>5. RequestsTyped'
  <2>1. RequestsTyped /\ J!Expected \in SUBSET (0 .. MaxItems)
    BY ExpectedTyped DEF JournalInv, Typed
  <2>2. CASE UNCHANGED J!requestVars
    BY <2>1, <2>2 DEF RequestsTyped, J!requestVars
  <2>3. CASE /\ rejection' = J!First(J!Rejects(p))
             /\ J!RequestSync("packet_rejected", p.index, J!Expected, FALSE)
    <3>1. p.index \in 0 .. MaxItems
      BY <1>4 DEF J!Message
    <3>2. requested' \in J!Request \cup {None} /\ syncs' \in Seq(J!Request)
      BY <2>1, <2>3, <3>1, RequestsHold
    <3>3. QED
      BY <1>4, <2>3, <3>2, RejectsTyped DEF RequestsTyped
  <2>4. QED
    BY <1>1, <2>2, <2>3 DEF J!OnInvalidItems
<1>6. SessionTyped' /\ QueueTyped' /\ JournalTyped'
  BY <1>2 DEF JournalInv, Typed, SessionTyped, QueueTyped, JournalTyped
<1>7. Flow'
  BY <1>2, <1>3, Takings
<1>8. QED
  BY <1>3, <1>5, <1>6, <1>7 DEF JournalInv, Typed

LEMMA ItemsHold == ASSUME JournalInv, J!OnReceivedItems PROVE JournalInv'
<1>1. PICK p, missed : /\ p = Head(down)
                       /\ missed = (p.index # 0 /\ p.index # count)
  OBVIOUS
<1>2. /\ J!Takes("ReceivedItems") /\ J!Rejects(p) = {}
      /\ count' = IF missed THEN count ELSE p.index + Len(p.items)
      /\ up' = up \/ up' = Append(up, "Sync")
      /\ queue' = Append(queue, [packet |-> p, syncSent |-> missed])
      /\ \/ requested' = None /\ rejection' = {}
         \/ UNCHANGED <<requested, rejection>>
      /\ UNCHANGED <<connected, syncs, open, journal>>
  BY <1>1 DEF J!OnReceivedItems
<1>3. /\ down # <<>> /\ down' = Tail(down) /\ p.kind = "ReceivedItems"
      /\ UNCHANGED <<history, discarded>>
      /\ ServerTyped' /\ ConnectionTyped' /\ BoundsTyped'
  <2>1. up' = up \/ \E m \in {"Connect", "Sync"} : up' = Append(up, m)
    BY <1>2
  <2>2. QED
    BY <1>1, <1>2, <2>1, TakesHold DEF JournalInv
<1>4. p \in J!Message /\ Ends(p) <= MaxItems
  BY <1>1, <1>3, DownTail DEF JournalInv, Typed, ConnectionTyped
<1>5. Accepted(p)
  <2>1. DOMAIN p.items = 1 .. Len(p.items)
    BY <1>4, MessageShape
  <2>2. \A n \in DOMAIN p.items : p.items[n] \notin Invalid
    BY <1>2 DEF J!Rejects
  <2>3. QED
    BY <1>4, <2>1, <2>2 DEF Accepted
<1>6. missed \in BOOLEAN /\ Brings(p)
  BY <1>1, <1>3 DEF Brings
<1>7. /\ Flow' /\ queue' \in Seq([packet : J!Message, syncSent : BOOLEAN])
      /\ \A k \in 1 .. Len(queue') :
           \/ k \in 1 .. Len(queue) /\ queue'[k] = queue[k]
           \/ k = Len(queue) + 1 /\ queue'[k].packet = p
  BY <1>1, <1>2, <1>3, <1>6, Queues
<1>8. QueueTyped'
  <2>1. \A k \in 1 .. Len(queue') : Accepted(queue'[k].packet)
    BY <1>5, <1>7, QueueFacts DEF JournalInv
  <2>2. QED
    BY <1>7, <2>1 DEF QueueTyped, Accepted, Ends
<1>9. SessionTyped'
  <2>1. p.index + Len(p.items) \in 0 .. MaxItems
    BY <1>4, MessageShape, HistoryFacts DEF Ends, JournalInv
  <2>2. QED
    BY <1>2, <2>1 DEF JournalInv, Typed, SessionTyped
<1>10. RequestsTyped' /\ JournalTyped'
  BY <1>2 DEF JournalInv, Typed, RequestsTyped, JournalTyped
<1>11. QED
  BY <1>3, <1>7, <1>8, <1>9, <1>10 DEF JournalInv, Typed

LEMMA OpensHold ==
    ASSUME JournalInv, NEW s \in Saves, J!OpenSession(s) PROVE JournalInv'
<1>1. /\ connected /\ open' = s /\ J!NoteLifecycle({Len(journal[s])})
      /\ UNCHANGED <<history, discarded, sendIndex, joined, link, down, up,
                     count, connected, queue, rejection, journal, switches,
                     losses>>
  BY DEF J!OpenSession, J!serverVars, J!linkVars, J!boundVars
<1>2. RequestsTyped'
  BY <1>1, ExpectedTyped, LifecycleNoted DEF JournalInv
<1>3. ServerTyped' /\ ConnectionTyped' /\ SessionTyped'
  BY <1>1 DEF JournalInv, Typed, ServerTyped, ConnectionTyped, SessionTyped
<1>4. QueueTyped' /\ JournalTyped' /\ BoundsTyped'
  BY <1>1 DEF JournalInv, Typed, QueueTyped, JournalTyped, BoundsTyped
<1>5. Flow'
  BY <1>1, FlowStays DEF JournalInv
<1>6. QED
  BY <1>2, <1>3, <1>4, <1>5 DEF JournalInv, Typed

LEMMA LoadHolds == ASSUME JournalInv, J!NativeLoad PROVE JournalInv'
<1>1. /\ J!Move /\ J!NoteLifecycle(J!Expected)
      /\ UNCHANGED <<history, discarded, sendIndex, joined, link, down, up,
                     count, connected, queue, rejection, open, journal>>
  BY DEF J!NativeLoad, J!serverVars, J!linkVars
<1>2. RequestsTyped'
  BY <1>1, ExpectedTyped, LifecycleNoted DEF JournalInv
<1>3. ServerTyped' /\ ConnectionTyped' /\ SessionTyped'
  BY <1>1 DEF JournalInv, Typed, ServerTyped, ConnectionTyped, SessionTyped
<1>4. QueueTyped' /\ JournalTyped'
  BY <1>1 DEF JournalInv, Typed, QueueTyped, JournalTyped
<1>5. BoundsTyped'
  BY <1>1, FaultCounts DEF JournalInv, Typed
<1>6. Flow'
  BY <1>1, FlowStays DEF JournalInv
<1>7. QED
  BY <1>2, <1>3, <1>4, <1>5, <1>6 DEF JournalInv, Typed

LEMMA CloseHolds == ASSUME JournalInv, J!CloseSession PROVE JournalInv'
<1>1. /\ J!Move /\ open' = NoSave
      /\ UNCHANGED <<history, discarded, sendIndex, joined, link, down, up,
                     count, connected, queue, requested, rejection, syncs,
                     journal>>
  BY DEF J!CloseSession, J!serverVars, J!linkVars, J!requestVars
<1>2. ServerTyped' /\ ConnectionTyped' /\ SessionTyped'
  BY <1>1 DEF JournalInv, Typed, ServerTyped, ConnectionTyped, SessionTyped
<1>3. QueueTyped' /\ RequestsTyped' /\ JournalTyped'
  BY <1>1 DEF JournalInv, Typed, QueueTyped, RequestsTyped, JournalTyped
<1>4. BoundsTyped'
  BY <1>1, FaultCounts DEF JournalInv, Typed
<1>5. Flow'
  BY <1>1, FlowStays DEF JournalInv
<1>6. QED
  BY <1>2, <1>3, <1>4, <1>5 DEF JournalInv, Typed

-----------------------------------------------------------------------------

LEMMA JournalStarts == J!Init => JournalInv
<1>1. SUFFICES ASSUME J!Init PROVE JournalInv
  OBVIOUS
<1>2. /\ <<>> \in Seq(Network) /\ <<>> \in Seq(J!Message) /\ <<>> \in Seq(J!Entry)
      /\ <<>> \in Seq([packet : J!Message, syncSent : BOOLEAN])
      /\ <<>> \in Seq(J!Request) /\ <<>> \in Seq({"Connect", "Sync"})
      /\ Len(<<>>) = 0 /\ \A k \in 1 .. Len(<<>>) : FALSE
  OBVIOUS
<1>3. MaxItems \in Nat /\ MaxSwitches \in Nat /\ MaxFaults \in Nat
  BY JournalAssumption DEF J!BoundAssumption
<1>4. ServerTyped /\ SessionTyped
  <2>1. 0 \in 0 .. Len(<<>>) /\ 0 \in 0 .. MaxItems /\ Len(<<>>) <= MaxItems
    BY <1>2, <1>3
  <2>2. ServerTyped
    BY <1>1, <1>2, <2>1 DEF J!Init, ServerTyped
  <2>3. SessionTyped
    BY <1>1, <2>1 DEF J!Init, SessionTyped
  <2>4. QED
    BY <2>2, <2>3
<1>5. ConnectionTyped /\ QueueTyped /\ RequestsTyped
  BY <1>1, <1>2 DEF J!Init, ConnectionTyped, QueueTyped, RequestsTyped
<1>6. /\ DOMAIN journal = Saves /\ \A s \in Saves : journal[s] = <<>>
      /\ journal \in [Saves -> Seq(J!Entry)]
  BY <1>1, <1>2 DEF J!Init
<1>7. JournalTyped /\ BoundsTyped
  BY <1>1, <1>2, <1>3, <1>6
     DEF J!Init, JournalTyped, Recordable, BoundsTyped
<1>8. Flow
  BY <1>1, <1>2, <1>6 DEF J!Init, Flow, OfHistory, Forwards, Ahead, Begins
<1>9. QED
  BY <1>4, <1>5, <1>7, <1>8 DEF JournalInv, Typed

LEMMA NothingMoves == ASSUME JournalInv, UNCHANGED J!vars PROVE JournalInv'
<1>1. UNCHANGED <<history, discarded, sendIndex, joined, link, down, up, count,
                  connected, queue, requested, rejection, syncs, open,
                  journal, switches, losses>>
  BY DEF J!vars, J!serverVars, J!linkVars, J!clientVars, J!requestVars, J!boundVars
<1>2. ServerTyped' /\ ConnectionTyped' /\ SessionTyped'
  BY <1>1 DEF JournalInv, Typed, ServerTyped, ConnectionTyped, SessionTyped
<1>3. QueueTyped' /\ RequestsTyped' /\ JournalTyped' /\ BoundsTyped'
  BY <1>1 DEF JournalInv, Typed, QueueTyped, RequestsTyped, JournalTyped,
              BoundsTyped
<1>4. Flow'
  BY <1>1, FlowStays DEF JournalInv
<1>5. QED
  BY <1>2, <1>3, <1>4 DEF JournalInv, Typed

LEMMA JournalStep ==
    ASSUME JournalInv, [J!Next]_(J!vars) PROVE JournalInv'
<1>1. CASE J!Gain
  BY <1>1, GainHolds
<1>2. CASE J!Announce
  BY <1>2, AnnounceHolds
<1>3. CASE J!ServerJoins
  BY <1>3, JoinsHold
<1>4. CASE J!ServerSyncs
  BY <1>4, SyncsHold
<1>5. CASE J!Rollback
  BY <1>5, RollbackHolds
<1>6. CASE J!Dial
  BY <1>6, DialHolds
<1>7. CASE J!LoseLink
  BY <1>7, LoseLinkHolds
<1>8. CASE J!RunSync
  BY <1>8, RunSyncHolds
<1>9. CASE J!OnRoomInfo
  BY <1>9, RoomInfoHolds
<1>10. CASE J!OnConnected
  BY <1>10, JoinedHolds
<1>11. CASE J!OnInvalidItems
  BY <1>11, InvalidHolds
<1>12. CASE J!OnReceivedItems
  BY <1>12, ItemsHold
<1>13. CASE \E s \in Saves : J!OpenSession(s)
  BY <1>13, OpensHold
<1>14. CASE J!NativeLoad
  BY <1>14, LoadHolds
<1>15. CASE J!CloseSession
  BY <1>15, CloseHolds
<1>16. CASE J!CrashClient
  BY <1>16, ClientCrashHolds
<1>17. CASE J!WorkerRuns
  BY <1>17, WorkerHolds
<1>18. CASE J!WorkerFails
  BY <1>18, WorkerFailHolds
<1>19. CASE J!MarkApplied
  BY <1>19, MarkHolds
<1>20. CASE UNCHANGED J!vars
  BY <1>20, NothingMoves
<1>21. QED
  BY <1>1, <1>2, <1>3, <1>4, <1>5, <1>6, <1>7, <1>8, <1>9, <1>10, <1>11, <1>12,
     <1>13, <1>14, <1>15, <1>16, <1>17, <1>18, <1>19, <1>20 DEF J!Next

\* Only the worker, and the marking, write journals.
LEMMA StayStep ==
    ASSUME JournalInv, [J!Next]_(J!vars) PROVE AppliedStays
<1>1. CASE J!WorkerRuns
  BY <1>1, WorkerHolds, KeptStays DEF JournalInv, Typed
<1>2. CASE J!WorkerFails
  BY <1>2, WorkerFailHolds, KeptStays DEF JournalInv, Typed
<1>3. CASE J!MarkApplied
  BY <1>3, MarkHolds
<1>4. CASE journal' = journal
  BY <1>4 DEF AppliedStays
<1>5. [J!Next]_(J!vars)
        => J!WorkerRuns \/ J!WorkerFails \/ J!MarkApplied \/ journal' = journal
  BY DEF J!Next, J!Gain, J!Announce, J!ServerJoins, J!ServerSyncs, J!Rollback, J!Dial, J!LoseLink,
         J!RunSync, J!OnRoomInfo, J!OnConnected, J!OnInvalidItems, J!OnReceivedItems,
         J!OpenSession, J!NativeLoad, J!CloseSession, J!CrashClient, J!clientVars, J!vars
<1>6. QED
  BY <1>1, <1>2, <1>3, <1>4, <1>5

THEOREM JournalInvariant == J!Spec => []JournalInv
<1>1. J!Init => JournalInv
  BY JournalStarts
<1>2. JournalInv /\ [J!Next]_(J!vars) => JournalInv'
  BY JournalStep
<1>3. QED
  BY <1>1, <1>2, PTL DEF J!Spec

\* ReceivedItems: types.
THEOREM JournalTypes == J!Spec => []J!TypeOK
<1>1. ASSUME JournalInv PROVE J!TypeOK
  <2>1. /\ history \in J!Histories /\ Typed
    BY <1>1, HistoryFacts, Bounded DEF JournalInv
  <2>2. /\ \A n \in DOMAIN down : down[n] \in J!Message
        /\ \A n \in DOMAIN up : up[n] \in {"Connect", "Sync"}
        /\ \A n \in DOMAIN syncs : syncs[n] \in J!Request
    BY <2>1, ElementOfSeq DEF Typed, ConnectionTyped, RequestsTyped
  <2>3. ASSUME NEW n \in DOMAIN queue
        PROVE  /\ queue[n].packet \in J!Message
               /\ Invalid \cap J!Range(queue[n].packet.items) = {}
               /\ queue[n].syncSent \in BOOLEAN
    <3>1. n \in 1 .. Len(queue)
      BY <2>1, <2>3 DEF Typed, QueueTyped
    <3>2. PICK p : p = queue[n].packet
      OBVIOUS
    <3>3. p \in J!Message /\ Accepted(p) /\ queue[n].syncSent \in BOOLEAN
      BY <2>1, <3>1, <3>2, QueueFacts
    <3>4. DOMAIN p.items = 1 .. Len(p.items)
      BY <3>3, MessageShape
    <3>5. Invalid \cap J!Range(p.items) = {}
      BY <3>3, <3>4 DEF Accepted, J!Range
    <3>6. QED
      BY <3>2, <3>3, <3>5
  <2>4. ASSUME NEW s \in Saves
        PROVE  /\ \A n \in DOMAIN journal[s] : journal[s][n] \in J!Entry
               /\ Invalid \cap J!Range(J!ItemsOf(journal[s])) = {}
    <3>1. PICK e : e = journal[s]
      OBVIOUS
    <3>2. Recordable(e)
      BY <2>1, <3>1 DEF Typed, JournalTyped
    <3>3. DOMAIN e = 1 .. Len(e) /\ \A n \in DOMAIN e : e[n] \in J!Entry
      BY <3>2, ElementOfSeq DEF Recordable
    <3>4. Invalid \cap J!Range(J!ItemsOf(e)) = {}
      BY <3>2, <3>3 DEF Recordable, J!ItemsOf, J!Range
    <3>5. QED
      BY <3>1, <3>3, <3>4
  <2>5. QED
    BY <2>1, <2>2, <2>3, <2>4
       DEF J!TypeOK, Typed, ServerTyped, ConnectionTyped, SessionTyped, RequestsTyped,
           BoundsTyped
<1>2. QED
  BY <1>1, JournalInvariant, PTL

\* ReceivedItems: a journal has what the server has, without hole or repetition.
THEOREM JournalTrue == J!Spec => []JournalFromServer
<1>1. ASSUME JournalInv PROVE JournalFromServer
  <2>1. SUFFICES ASSUME discarded = {}, NEW s \in Saves
                 PROVE  J!IsPrefix(J!ItemsOf(journal[s]), history)
    BY DEF JournalFromServer, J!JournalFromServer
  <2>2. PICK e, h, i : e = journal[s] /\ h = history /\ i = J!ItemsOf(e)
    OBVIOUS
  <2>3. Recordable(e) /\ Begins(e, h)
    BY <1>1, <2>1, <2>2 DEF JournalInv, Flow, OfHistory, Typed, JournalTyped
  <2>4. h \in Seq(Network) /\ Len(h) \in Nat
    BY <1>1, <2>2, HistoryFacts DEF JournalInv
  <2>5. e \in Seq(J!Entry) /\ Len(e) \in Nat /\ Len(e) <= Len(h)
    BY <2>3 DEF Recordable, Begins
  <2>6. i = [n \in 1 .. Len(e) |-> e[n].item]
    BY <2>2, <2>5 DEF J!ItemsOf
  <2>7. \A n \in 1 .. Len(e) : i[n] = h[n] /\ h[n] \in Network
    BY <2>3, <2>4, <2>5, <2>6, ElementOfSeq DEF Begins
  <2>8. i \in Seq(Network) /\ Len(i) = Len(e)
    BY <2>5, <2>6, <2>7, IsASeq
  <2>9. SubSeq(i, 1, Len(i)) = i
    BY <2>8, SubSeqFull
  <2>10. PICK g : g = SubSeq(h, 1, Len(e))
    OBVIOUS
  <2>11. /\ g \in Seq(Network) /\ Len(g) = Len(e)
         /\ \A n \in 1 .. Len(e) : g[n] = h[n]
    <3>1. PICK l : l = Len(e)
      OBVIOUS
    <3>2. \A n \in 1 .. l : h[n] \in Network
      BY <2>7, <3>1
    <3>3. /\ g \in Seq(Network) /\ Len(g) = IF 1 <= l THEN l - 1 + 1 ELSE 0
          /\ \A n \in 1 .. (l - 1 + 1) : g[n] = h[1 + n - 1]
      BY ONLY <2>5, <2>10, <3>1, <3>2, SubSeqProperties
    <3>4. QED
      BY <2>5, <3>1, <3>3
  <2>12. g = i
    BY <2>7, <2>8, <2>11, SeqEqual
  <2>13. J!IsPrefix(i, h)
    BY <2>5, <2>8, <2>9, <2>10, <2>12 DEF J!IsPrefix
  <2>14. QED
    BY <2>2, <2>13
<1>2. QED
  BY <1>1, JournalInvariant, PTL

\* ReceivedItems: what has been applied stays applied.
THEOREM AppliedStaysSafe == J!Spec => AppliedKept
<1>1. JournalInv /\ [J!Next]_(J!vars) => [AppliedStays]_(J!vars)
  BY StayStep
<1>2. [][AppliedStays]_(J!vars) => AppliedKept
  BY PTL DEF AppliedKept, J!AppliedKept, AppliedStays
<1>3. QED
  BY <1>1, <1>2, JournalInvariant, PTL DEF J!Spec
=============================================================================
