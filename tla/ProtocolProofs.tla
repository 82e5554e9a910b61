----------------------------- MODULE ProtocolProofs -----------------------------
(***************************************************************************)
(* The exchange of the client with the bridge.                             *)
(*                                                                         *)
(* The commands, for any of them, and any ring size, number of protocols,  *)
(* restarts, reloads and lost forms: they take effect at most once and in  *)
(* order, an identifier the client chooses is always new, and a receipt it *)
(* reads is one the game recorded.                                         *)
(*                                                                         *)
(* None of that is inductive.  An activation ends with a reload and the    *)
(* next one is named by a hello that may still be in the queue, so the     *)
(* invariant must say that no name comes back: hellos are evaluated in the *)
(* order of their nonces, and everything in use is older than any hello    *)
(* still to come.  And an identifier is recomputed from the ring, so the   *)
(* last receipt of the ring must be the watermark.                         *)
(*                                                                         *)
(* The state file, for any number of attaches, forms and loads and numbers *)
(* of any base: what the client takes from a file that is rewritten while  *)
(* it reads is one export, and one that follows its form, provided that no *)
(* load is among the exports that begin during a read, and that they are   *)
(* too few to add a digit to the revision.                                 *)
(***************************************************************************)
EXTENDS Protocol, SequenceTheorems, TLAPS

-----------------------------------------------------------------------------
(* The commands.                                                            *)


\* The hello that proposed nonce n has left the queue.
Passed(n, list, count) ==
    /\ n \in Nat /\ n < count
    /\ \A k \in DOMAIN list : list[k].kind = "hello" => n < list[k].nonce

HellosOrdered ==
    \A k \in DOMAIN forms :
        forms[k].kind = "hello" =>
            /\ forms[k].nonce \in Nat /\ forms[k].nonce < hellos
            /\ \A j \in DOMAIN forms :
                  j < k /\ forms[j].kind = "hello" => forms[j].nonce < forms[k].nonce

CommandsKnown ==
    \A k \in DOMAIN forms :
        forms[k].kind = "command" =>
            /\ forms[k].content \in Contents
            /\ Passed(forms[k].nonce, forms, hellos)

\* A chosen identifier is above those of the commands sent before it.
InOrder ==
    \A j, k \in DOMAIN forms :
        /\ j < k /\ forms[j].kind = "command"
        /\ forms[k].kind = "command" /\ forms[k].auto
        /\ forms[j].nonce = forms[k].nonce
        => forms[j].id < forms[k].id

QueueInv == HellosOrdered /\ CommandsKnown /\ InOrder

\* The ring ends with the watermark and holds nothing above it.
RingOrdered ==
    /\ \A k \in DOMAIN ring : ring[k].id <= watermark
    /\ ring = <<>> => watermark = -1
    /\ ring # <<>> => ring[Len(ring)].id = watermark

GameInv ==
    /\ greeted => gameNonce # None
    /\ gameNonce # None => Passed(gameNonce, forms, hellos)
    /\ last.kind = "hello" => last.id = -1
    /\ RingOrdered

EffectInv ==
    /\ \A i \in DOMAIN effects :
          /\ Passed(effects[i].nonce, forms, hellos)
          /\ effects[i].nonce = gameNonce => effects[i].id <= watermark
    /\ AtMostOnce

\* What the client will choose next is new, too.
ClientInv ==
    /\ nonce # None => Passed(nonce, forms, hellos)
    /\ pc \in {"idle", "command"} =>
          /\ nonce # None
          /\ nonce = gameNonce => watermark < nextId
          /\ \A k \in DOMAIN forms :
                forms[k].kind = "command" /\ forms[k].nonce = nonce
                   => forms[k].id < nextId

Above ==
    \A k \in DOMAIN forms :
        forms[k].kind = "command" /\ forms[k].auto /\ forms[k].nonce = gameNonce
           => watermark < forms[k].id

CInv ==
    /\ TypeOK
    /\ QueueInv
    /\ GameInv
    /\ EffectInv
    /\ ClientInv
    /\ Above

-----------------------------------------------------------------------------
(* The elements of the sequences.                                           *)

Effect == [nonce: Nonces, id: Nat, content: Contents]

Published == [kind: {"none", "hello", "command", "disconnect"},
              id: Nat \cup {-1}, command: Kinds \cup {None}, result: Results]

LEMMA ElementFacts ==
    ASSUME TypeOK
    PROVE  /\ \A k \in DOMAIN forms : forms[k].id \in Nat
           /\ \A k \in DOMAIN ring : ring[k].id \in Nat /\ ring[k].result \in Results
           /\ \A i \in DOMAIN effects : effects[i].id \in Nat
  <1>1. /\ forms \in Seq(Form)
        /\ ring \in Seq(Receipt)
        /\ effects \in Seq(Effect)
    BY DEF TypeOK, Effect
  <1>2. /\ \A k \in DOMAIN forms : forms[k] \in Form
        /\ \A k \in DOMAIN ring : ring[k] \in Receipt
        /\ \A i \in DOMAIN effects : effects[i] \in Effect
    BY <1>1
  <1>3. /\ \A form \in Form : form.id \in Nat
        /\ \A receipt \in Receipt : receipt.id \in Nat /\ receipt.result \in Results
        /\ \A effect \in Effect : effect.id \in Nat
    BY DEF Form, Receipt, Effect
  <1>4. QED
    BY <1>2, <1>3

-----------------------------------------------------------------------------
(* The queue.                                                               *)

\* Forms that are evaluated, lost, or left alone: what remains is a piece of
\* the queue, in its order.
LEMMA QueueShrinks ==
    ASSUME TypeOK, QueueInv, NEW d \in Nat, forms' \in Seq(Form), hellos' = hellos,
           \A k \in DOMAIN forms' : k + d \in DOMAIN forms /\ forms'[k] = forms[k + d]
    PROVE  /\ QueueInv'
           /\ \A n : Passed(n, forms, hellos) => Passed(n, forms', hellos')
  <1>1. ASSUME NEW n, Passed(n, forms, hellos)
        PROVE  Passed(n, forms', hellos')
    BY <1>1 DEF Passed
  <1>2. ASSUME NEW j \in DOMAIN forms', NEW k \in DOMAIN forms', j < k
        PROVE  j + d < k + d
    BY <1>2
  <1>3. HellosOrdered'
    BY <1>2 DEF QueueInv, HellosOrdered
  <1>4. CommandsKnown'
    BY <1>1 DEF QueueInv, CommandsKnown
  <1>5. InOrder'
    <2>1. SUFFICES ASSUME NEW j \in DOMAIN forms', NEW k \in DOMAIN forms', j < k,
                          forms'[j].kind = "command", forms'[k].kind = "command",
                          forms'[k].auto, forms'[j].nonce = forms'[k].nonce
                   PROVE  forms'[j].id < forms'[k].id
      BY DEF InOrder
    <2>2. /\ j + d \in DOMAIN forms /\ forms'[j] = forms[j + d]
          /\ k + d \in DOMAIN forms /\ forms'[k] = forms[k + d]
      OBVIOUS
    <2>3. j + d < k + d
      BY <1>2, <2>1
    <2>4. QED
      BY <2>1, <2>2, <2>3 DEF QueueInv, InOrder
  <1>6. QED
    BY <1>1, <1>3, <1>4, <1>5 DEF QueueInv

\* The head of the queue is evaluated.
LEMMA HeadEvaluated ==
    ASSUME TypeOK, QueueInv, NEW kind, Evaluates(kind)
    PROVE  /\ Head0 \in Form /\ Head0.kind = kind
           /\ 1 \in DOMAIN forms /\ Head0 = forms[1]
           /\ forms' \in Seq(Form)
           /\ \A k \in DOMAIN forms' :
                 k + 1 \in DOMAIN forms /\ forms'[k] = forms[k + 1] /\ 1 < k + 1
           /\ QueueInv'
           /\ \A n : Passed(n, forms, hellos) => Passed(n, forms', hellos')
  <1>1. /\ forms \in Seq(Form) /\ forms # <<>>
        /\ forms' = Tail(forms)
        /\ Head0 = forms[1] /\ Head0.kind = kind
        /\ hellos' = hellos
    BY DEF Evaluates, Head0, TypeOK
  <1>2. 1 \in DOMAIN forms /\ forms[1] \in Form /\ forms' \in Seq(Form)
    BY <1>1
  <1>3. \A k \in DOMAIN forms' :
           k + 1 \in DOMAIN forms /\ forms'[k] = forms[k + 1] /\ 1 < k + 1
    BY <1>1
  <1>4. /\ QueueInv'
        /\ \A n : Passed(n, forms, hellos) => Passed(n, forms', hellos')
    BY <1>1, <1>2, <1>3, QueueShrinks
  <1>5. QED
    BY <1>1, <1>2, <1>3, <1>4

\* A form is sent.
LEMMA QueueGrows ==
    ASSUME TypeOK, QueueInv, NEW form \in Form, forms' = Append(forms, form),
           \/ form.kind = "hello" /\ form.nonce = hellos /\ hellos' = hellos + 1
           \/ form.kind = "disconnect" /\ hellos' = hellos
           \/ /\ form.kind = "command" /\ hellos' = hellos
              /\ form.content \in Contents
              /\ Passed(form.nonce, forms, hellos)
              /\ form.auto => \A j \in DOMAIN forms :
                                 /\ forms[j].kind = "command"
                                 /\ forms[j].nonce = form.nonce
                                 => forms[j].id < form.id
    PROVE  /\ forms' \in Seq(Form)
           /\ \A k \in DOMAIN forms' :
                 (k \in DOMAIN forms /\ forms'[k] = forms[k]) \/ forms'[k] = form
           /\ QueueInv'
           /\ \A n : Passed(n, forms, hellos) => Passed(n, forms', hellos')
  <1>1. forms \in Seq(Form) /\ hellos \in Nat
    BY DEF TypeOK
  <1>2. forms' \in Seq(Form)
    BY <1>1
  <1>3. ASSUME NEW k \in DOMAIN forms'
        PROVE  \/ k \in DOMAIN forms /\ forms'[k] = forms[k]
               \/ k = Len(forms) + 1 /\ forms'[k] = form
    BY <1>1
  <1>4. ASSUME NEW k \in DOMAIN forms
        PROVE  k < Len(forms) + 1 /\ k \in Nat
    BY <1>1
  <1>5. hellos <= hellos' /\ hellos' \in Nat
    BY <1>1
  <1>6. ASSUME NEW n, Passed(n, forms, hellos)
        PROVE  Passed(n, forms', hellos')
    BY <1>1, <1>3, <1>5, <1>6 DEF Passed
  <1>7. HellosOrdered'
    <2>1. ASSUME NEW k \in DOMAIN forms', forms'[k].kind = "hello"
          PROVE  /\ forms'[k].nonce \in Nat /\ forms'[k].nonce < hellos'
                 /\ \A j \in DOMAIN forms' :
                       j < k /\ forms'[j].kind = "hello"
                          => forms'[j].nonce < forms'[k].nonce
      <3>1. CASE k \in DOMAIN forms /\ forms'[k] = forms[k]
        <4>1. ASSUME NEW j \in DOMAIN forms', j < k
              PROVE  j \in DOMAIN forms /\ forms'[j] = forms[j]
          BY <1>1, <1>3, <1>4, <3>1, <4>1
        <4>2. QED
          BY <1>1, <1>5, <2>1, <3>1, <4>1 DEF QueueInv, HellosOrdered
      <3>2. CASE k = Len(forms) + 1 /\ forms'[k] = form
        <4>1. form.nonce = hellos /\ hellos' = hellos + 1
          BY <2>1, <3>2
        <4>2. ASSUME NEW j \in DOMAIN forms', j < k
              PROVE  j \in DOMAIN forms /\ forms'[j] = forms[j]
          BY <1>1, <1>3, <3>2, <4>2
        <4>3. QED
          BY <1>1, <3>2, <4>1, <4>2 DEF QueueInv, HellosOrdered
      <3>3. QED
        BY <1>3, <3>1, <3>2
    <2>2. QED
      BY <2>1 DEF HellosOrdered
  <1>8. CommandsKnown'
    BY <1>3, <1>6 DEF QueueInv, CommandsKnown
  <1>9. InOrder'
    <2>1. ASSUME NEW j \in DOMAIN forms', NEW k \in DOMAIN forms',
                 j < k, forms'[j].kind = "command",
                 forms'[k].kind = "command", forms'[k].auto,
                 forms'[j].nonce = forms'[k].nonce
          PROVE  forms'[j].id < forms'[k].id
      <3>1. j \in DOMAIN forms /\ forms'[j] = forms[j]
        BY <1>1, <1>3, <1>4, <2>1
      <3>2. QED
        BY <1>3, <2>1, <3>1 DEF QueueInv, InOrder
    <2>2. QED
      BY <2>1 DEF InOrder
  <1>10. QED
    BY <1>2, <1>3, <1>6, <1>7, <1>8, <1>9 DEF QueueInv

-----------------------------------------------------------------------------
(* One lemma per kind of step.                                              *)

LEMMA InitInvariant == Init => CInv
  <1> SUFFICES ASSUME Init PROVE CInv
    OBVIOUS
  <1> USE DEF Init
  <1>1. TypeOK
    <2>1. /\ forms \in Seq(Form)
          /\ ring \in Seq(Receipt) /\ Len(ring) <= RingLimit
          /\ effects \in Seq(Effect)
      BY RingAssumption
    <2>2. last \in Published
      BY DEF Published, Results
    <2>3. greeted \in BOOLEAN
      BY Zenon
    <2>4. QED
      BY <2>1, <2>2, <2>3 DEF TypeOK, Nonces, Effect, Published
  <1>2. QED
    BY <1>1
    DEF CInv, QueueInv, HellosOrdered, CommandsKnown, InOrder, GameInv,
        RingOrdered, EffectInv, AtMostOnce, ClientInv, Above

\* A hello names an activation nobody used before, or keeps the one there is.
LEMMA HelloInvariant ==
    ASSUME CInv, EvaluateHello
    PROVE  CInv'
  <1>1. Evaluates("hello")
    BY DEF EvaluateHello
  <1>2. /\ Head0 \in Form /\ Head0.kind = "hello"
        /\ 1 \in DOMAIN forms /\ Head0 = forms[1]
        /\ forms' \in Seq(Form)
        /\ \A k \in DOMAIN forms' :
              k + 1 \in DOMAIN forms /\ forms'[k] = forms[k + 1] /\ 1 < k + 1
        /\ QueueInv'
        /\ \A n : Passed(n, forms, hellos) => Passed(n, forms', hellos')
    BY <1>1, HeadEvaluated DEF CInv
  <1>3. UNCHANGED <<clientVars, hellos, faults, transmitted, watermark, ring,
                    target, effects, recorded>>
    BY DEF EvaluateHello, Evaluates
  <1>4. /\ clientSession' = Head0.session
        /\ gameNonce' = IF gameNonce = None THEN Head0.nonce ELSE gameNonce
        /\ greeted' = TRUE
        /\ last' = [kind |-> "hello", id |-> -1, command |-> None, result |-> "ok"]
    BY DEF EvaluateHello
  <1>5. Head0.nonce \in Nat /\ Head0.nonce # None /\ Passed(Head0.nonce, forms', hellos')
    <2>1. Head0.nonce \in Nat /\ Head0.nonce < hellos
      BY <1>2 DEF CInv, QueueInv, HellosOrdered
    <2>2. ASSUME NEW k \in DOMAIN forms', forms'[k].kind = "hello"
          PROVE  Head0.nonce < forms'[k].nonce
      BY <1>2, <2>2 DEF CInv, QueueInv, HellosOrdered
    <2>3. QED
      BY <1>3, <2>1, <2>2, NoneAssumption DEF Passed
  <1>6. gameNonce' # None /\ Passed(gameNonce', forms', hellos')
    BY <1>2, <1>4, <1>5 DEF CInv, GameInv
  <1>7. ASSUME NEW n, Passed(n, forms, hellos), n = gameNonce'
        PROVE  n = gameNonce
    <2>1. n < Head0.nonce
      BY <1>2, <1>7 DEF Passed
    <2>2. n # Head0.nonce
      BY <1>5, <1>7, <2>1 DEF Passed
    <2>3. QED
      BY <1>4, <1>7, <2>2
  <1>8. TypeOK'
    <2>1. last' \in Published
      BY <1>4 DEF Results, Published
    <2>2. clientSession' \in Nat /\ gameNonce' \in Nonces
      BY <1>2, <1>4, <1>5 DEF CInv, TypeOK, Nonces, Form
    <2>3. QED
      BY <1>2, <1>3, <1>4, <2>1, <2>2 DEF CInv, TypeOK, clientVars, Published
  <1>9. GameInv'
    BY <1>3, <1>4, <1>6 DEF CInv, GameInv, RingOrdered
  <1>10. EffectInv'
    <2>1. AtMostOnce'
      BY <1>3 DEF CInv, EffectInv, AtMostOnce
    <2>2. ASSUME NEW i \in DOMAIN effects'
          PROVE  /\ Passed(effects'[i].nonce, forms', hellos')
                 /\ effects'[i].nonce = gameNonce' => effects'[i].id <= watermark'
      <3>1. effects' = effects /\ watermark' = watermark
        BY <1>3
      <3>2. Passed(effects[i].nonce, forms, hellos)
        BY <3>1 DEF CInv, EffectInv
      <3>3. QED
        BY <1>2, <1>7, <3>1, <3>2 DEF CInv, EffectInv
    <2>3. QED
      BY <2>1, <2>2 DEF EffectInv
  <1>11. ClientInv'
    <2>1. UNCHANGED <<pc, nonce, nextId, watermark>>
      BY <1>3 DEF clientVars
    <2>2. nonce # None => Passed(nonce, forms, hellos)
      BY DEF CInv, ClientInv
    <2>3. nonce # None /\ nonce = gameNonce' => nonce = gameNonce
      BY <1>7, <2>2
    <2>4. QED
      BY <1>2, <2>1, <2>2, <2>3 DEF CInv, ClientInv
  <1>12. Above'
    <2>1. ASSUME NEW k \in DOMAIN forms', forms'[k].kind = "command",
                 forms'[k].auto, forms'[k].nonce = gameNonce'
          PROVE  watermark < forms'[k].id
      <3>1. k + 1 \in DOMAIN forms /\ forms'[k] = forms[k + 1]
        BY <1>2
      <3>2. Passed(forms[k + 1].nonce, forms, hellos)
        BY <2>1, <3>1 DEF CInv, QueueInv, CommandsKnown
      <3>3. forms[k + 1].nonce = gameNonce
        BY <1>7, <2>1, <3>1, <3>2
      <3>4. QED
        BY <2>1, <3>1, <3>3 DEF CInv, Above
    <2>2. QED
      BY <1>3, <2>1 DEF Above
  <1>13. QED
    BY <1>2, <1>8, <1>9, <1>10, <1>11, <1>12 DEF CInv

\* An evaluation that leaves the activation, the ring and the effects alone.
LEMMA QuietEvaluation ==
    ASSUME CInv, NEW kind, Evaluates(kind),
           UNCHANGED <<gameNonce, watermark, ring, target, effects, recorded>>,
           clientSession' \in Nat,
           greeted' \in BOOLEAN, greeted' => greeted,
           last' \in Published,
           last'.kind # "hello"
    PROVE  CInv'
  <1>1. /\ forms' \in Seq(Form)
        /\ \A k \in DOMAIN forms' : k + 1 \in DOMAIN forms /\ forms'[k] = forms[k + 1]
        /\ QueueInv'
        /\ \A n : Passed(n, forms, hellos) => Passed(n, forms', hellos')
    BY HeadEvaluated DEF CInv
  <1>2. UNCHANGED <<session, pc, nonce, nextId, sent, hellos, faults, transmitted>>
    BY DEF Evaluates, clientVars
  <1>3. TypeOK'
    BY <1>1, <1>2 DEF CInv, TypeOK, Published
  <1>4. GameInv'
    BY <1>1 DEF CInv, GameInv, RingOrdered
  <1>5. EffectInv'
    BY <1>1 DEF CInv, EffectInv, AtMostOnce
  <1>6. ClientInv'
    BY <1>1, <1>2 DEF CInv, ClientInv
  <1>7. Above'
    BY <1>1 DEF CInv, Above
  <1>8. QED
    BY <1>1, <1>3, <1>4, <1>5, <1>6, <1>7 DEF CInv

\* What a command is answered with.
LEMMA AnswerFacts ==
    ASSUME CInv, Evaluates("command"), NEW result \in Results, Answers(result)
    PROVE  /\ last' \in Published
           /\ last'.kind = "command"
  <1>1. Head0 \in Form /\ Head0.kind = "command" /\ 1 \in DOMAIN forms
        /\ Head0 = forms[1]
    BY HeadEvaluated DEF CInv
  <1>2. Head0.content \in Contents /\ Head0.id \in Nat
    BY <1>1 DEF CInv, QueueInv, CommandsKnown, Form
  <1>3. Head0.content.kind \in Kinds
    BY <1>2 DEF Contents
  <1>4. QED
    BY <1>2, <1>3 DEF Answers, Published

\* Refusals and repetitions that leave no receipt, and a disconnection.
LEMMA NoReceiptInvariant ==
    ASSUME CInv,
           EvaluateDisconnect \/ RefuseStranger \/ AnswerDuplicate \/ RefuseOld
    PROVE  CInv'
  <1>1. CASE EvaluateDisconnect
    <2> DEFINE accepted == greeted /\ Authentic(Head0)
    <2>1. /\ Evaluates("disconnect")
          /\ UNCHANGED <<clientSession, gameNonce, watermark, ring, target,
                         effects, recorded>>
          /\ greeted' = (greeted /\ ~accepted)
          /\ last' = [kind |-> "disconnect", id |-> -1, command |-> None,
                      result |-> IF accepted THEN "ok" ELSE "failed"]
      BY <1>1 DEF EvaluateDisconnect
    <2> HIDE DEF accepted
    <2>2. greeted' \in BOOLEAN /\ (greeted' => greeted)
      BY <2>1
    <2>3. /\ last' \in Published
          /\ last'.kind # "hello"
      BY <2>1 DEF Results, Published
    <2>4. clientSession' \in Nat
      BY <2>1 DEF CInv, TypeOK
    <2>5. QED
      BY <2>1, <2>2, <2>3, <2>4, QuietEvaluation
  <1>2. ASSUME EvaluatesCommand, NEW result \in Results, Answers(result),
               UNCHANGED <<watermark, ring, target, effects, recorded>>
        PROVE  CInv'
    <2>1. Evaluates("command") /\ UNCHANGED <<clientSession, gameNonce, greeted>>
      BY <1>2 DEF EvaluatesCommand
    <2>2. /\ last' \in Published
          /\ last'.kind # "hello"
      BY <1>2, <2>1, AnswerFacts
    <2>3. clientSession' \in Nat /\ greeted' \in BOOLEAN
      BY <2>1 DEF CInv, TypeOK
    <2>4. QED
      BY <1>2, <2>1, <2>2, <2>3, QuietEvaluation
  <1>3. "failed" \in Results
    BY DEF Results
  <1>4. CASE RefuseStranger \/ RefuseOld
    BY <1>2, <1>3, <1>4 DEF RefuseStranger, RefuseOld
  <1>5. CASE AnswerDuplicate
    <2>1. PICK k \in Found(Head0.id) :
             Answers(IF ring[k].content = Head0.content THEN ring[k].result
                     ELSE "failed")
      BY <1>5 DEF AnswerDuplicate
    <2>2. ring[k].result \in Results
      BY ElementFacts DEF Found, CInv
    <2>3. QED
      BY <1>2, <1>3, <1>5, <2>1, <2>2 DEF AnswerDuplicate
  <1>6. QED
    BY <1>1, <1>4, <1>5

\* A new command leaves a receipt, and may take effect.
LEMMA ReceiptInvariant ==
    ASSUME CInv, EvaluatesCommand, IsNew,
           NEW result \in Results, Answers(result), RecordReceipt(result),
           target' \in Contents \cup {None},
           \/ effects' = effects
           \/ greeted /\ effects' = Append(effects, [nonce |-> gameNonce,
                                                     id |-> Head0.id,
                                                     content |-> Head0.content])
    PROVE  CInv'
  <1>1. /\ Evaluates("command")
        /\ UNCHANGED <<clientSession, gameNonce, greeted>>
        /\ UNCHANGED <<session, pc, nonce, nextId, sent, hellos, faults, transmitted>>
    BY DEF EvaluatesCommand, Evaluates, clientVars
  <1>2. /\ Head0 \in Form /\ Head0.kind = "command"
        /\ 1 \in DOMAIN forms /\ Head0 = forms[1]
        /\ forms' \in Seq(Form)
        /\ \A k \in DOMAIN forms' :
              k + 1 \in DOMAIN forms /\ forms'[k] = forms[k + 1] /\ 1 < k + 1
        /\ QueueInv'
        /\ \A n : Passed(n, forms, hellos) => Passed(n, forms', hellos')
    BY <1>1, HeadEvaluated DEF CInv
  <1>3. Head0.content \in Contents /\ Head0.id \in Nat
    BY <1>2 DEF CInv, QueueInv, CommandsKnown, Form
  <1>4. /\ Head0.nonce = gameNonce
        /\ watermark < Head0.id
        /\ watermark' = Head0.id
        /\ watermark \in Nat \cup {-1}
    BY DEF IsNew, Authentic, RecordReceipt, CInv, TypeOK
  <1>5. Passed(gameNonce, forms, hellos) /\ gameNonce \in Nat
    BY <1>2, <1>4 DEF CInv, QueueInv, CommandsKnown, Passed
  <1> DEFINE receipt == [id |-> Head0.id, content |-> Head0.content, result |-> result]
             kept == IF Len(ring) = RingLimit THEN Tail(ring) ELSE ring
  <1>6. receipt \in Receipt /\ receipt.id = Head0.id
    BY <1>3 DEF Receipt
  <1>7. ring' = Append(kept, receipt)
    BY DEF RecordReceipt
  <1>8. /\ kept \in Seq(Receipt) /\ Len(kept) < RingLimit
        /\ \A k \in DOMAIN kept : \E j \in DOMAIN ring : kept[k] = ring[j]
    <2>1. ring \in Seq(Receipt) /\ Len(ring) <= RingLimit /\ RingLimit \in Nat \ {0}
      BY RingAssumption DEF CInv, TypeOK
    <2>2. CASE Len(ring) = RingLimit
      <3>1. kept = Tail(ring) /\ ring # <<>>
        BY <2>1, <2>2
      <3>2. \A k \in DOMAIN kept : k + 1 \in DOMAIN ring /\ kept[k] = ring[k + 1]
        BY <2>1, <3>1
      <3>3. QED
        BY <2>1, <2>2, <3>1, <3>2
    <2>3. CASE Len(ring) # RingLimit
      BY <2>1, <2>3
    <2>4. QED
      BY <2>2, <2>3
  <1> HIDE DEF receipt, kept
  <1>9. ring' \in Seq(Receipt) /\ Len(ring') <= RingLimit
    BY <1>6, <1>7, <1>8, RingAssumption
  <1>10. RingOrdered'
    <2>1. ring' # <<>> /\ ring'[Len(ring')] = receipt
      BY <1>6, <1>7, <1>8
    <2>2. ASSUME NEW k \in DOMAIN ring'
          PROVE  ring'[k].id <= watermark'
      <3>1. ring'[k] = receipt \/ (k \in DOMAIN kept /\ ring'[k] = kept[k])
        BY <1>6, <1>7, <1>8
      <3>2. CASE ring'[k] = receipt
        BY <1>3, <1>4, <1>6, <3>2
      <3>3. CASE k \in DOMAIN kept /\ ring'[k] = kept[k]
        <4>1. PICK j \in DOMAIN ring : kept[k] = ring[j]
          BY <1>8, <3>3
        <4>2. ring[j].id <= watermark /\ ring[j].id \in Nat
          BY ElementFacts DEF CInv, GameInv, RingOrdered
        <4>3. QED
          BY <1>3, <1>4, <3>3, <4>1, <4>2
      <3>4. QED
        BY <3>1, <3>2, <3>3
    <2>3. QED
      BY <1>4, <1>6, <2>1, <2>2 DEF RingOrdered
  <1>11. /\ last' \in Published
         /\ last'.kind # "hello"
    BY <1>1, AnswerFacts
  <1> DEFINE effect == [nonce |-> gameNonce, id |-> Head0.id, content |-> Head0.content]
  <1>12. /\ effect \in Effect
         /\ effect.nonce = gameNonce /\ effect.id = Head0.id
    BY <1>3, <1>5 DEF Effect, Nonces
  <1>13. effects' = effects \/ effects' = Append(effects, effect)
    OBVIOUS
  <1> HIDE DEF effect
  <1>14. effects \in Seq(Effect)
    BY DEF CInv, TypeOK, Effect
  <1>15. effects' \in Seq(Effect)
    BY <1>12, <1>13, <1>14
  <1>16. recorded' \in SUBSET Entry
    <2>1. recorded' = recorded \cup {[nonce |-> gameNonce, id |-> Head0.id,
                                      content |-> Head0.content, result |-> result]}
      BY DEF RecordReceipt
    <2>2. [nonce |-> gameNonce, id |-> Head0.id, content |-> Head0.content,
           result |-> result] \in Entry
      BY <1>3, <1>5 DEF Entry, Nonces
    <2>3. recorded \in SUBSET Entry
      BY DEF CInv, TypeOK
    <2>4. QED
      BY <2>1, <2>2, <2>3
  <1>17. TypeOK'
    <2>1. watermark' \in Nat \cup {-1}
      BY <1>3, <1>4
    <2>2. QED
      BY <1>1, <1>2, <1>9, <1>11, <1>15, <1>16, <2>1 DEF CInv, TypeOK, Effect, Published
  <1>18. GameInv'
    BY <1>1, <1>2, <1>10, <1>11 DEF CInv, GameInv
  <1>19. EffectInv'
    <2>1. ASSUME NEW i \in DOMAIN effects'
          PROVE  \/ i \in DOMAIN effects /\ effects'[i] = effects[i]
                 \/ effects'[i] = effect /\ \A j \in DOMAIN effects' : j <= i
      BY <1>12, <1>13, <1>14
    <2>2. ASSUME NEW i \in DOMAIN effects
          PROVE  /\ Passed(effects[i].nonce, forms', hellos')
                 /\ effects[i].nonce = gameNonce => effects[i].id < Head0.id
      <3>1. effects[i].id \in Nat
        BY ElementFacts DEF CInv
      <3>2. QED
        BY <1>2, <1>3, <1>4, <3>1 DEF CInv, EffectInv
    <2>3. ASSUME NEW i \in DOMAIN effects'
          PROVE  /\ Passed(effects'[i].nonce, forms', hellos')
                 /\ effects'[i].nonce = gameNonce' => effects'[i].id <= watermark'
      <3>1. CASE i \in DOMAIN effects /\ effects'[i] = effects[i]
        <4>1. effects[i].id \in Nat
          BY <3>1, ElementFacts DEF CInv
        <4>2. QED
          BY <1>1, <1>3, <1>4, <2>2, <3>1, <4>1
      <3>2. CASE effects'[i] = effect
        BY <1>2, <1>3, <1>4, <1>5, <1>12, <3>2
      <3>3. QED
        BY <2>1, <3>1, <3>2
    <2>4. ASSUME NEW i \in DOMAIN effects', NEW j \in DOMAIN effects',
                 i < j, effects'[i].nonce = effects'[j].nonce
          PROVE  effects'[i].id < effects'[j].id
      <3>1. i \in Nat /\ j \in Nat
        BY <1>15
      <3>2. i \in DOMAIN effects /\ effects'[i] = effects[i]
        <4>1. ~(j <= i)
          BY <2>4, <3>1
        <4>2. QED
          BY <2>1, <4>1
      <3>3. CASE j \in DOMAIN effects /\ effects'[j] = effects[j]
        BY <2>4, <3>2, <3>3 DEF CInv, EffectInv, AtMostOnce
      <3>4. CASE effects'[j] = effect
        BY <1>12, <2>2, <2>4, <3>2, <3>4
      <3>5. QED
        BY <2>1, <3>3, <3>4
    <2>5. AtMostOnce'
      BY <2>4 DEF AtMostOnce
    <2>6. QED
      BY <2>3, <2>5 DEF EffectInv
  <1>20. ClientInv'
    <2>1. pc \in {"idle", "command"} /\ nonce = gameNonce => Head0.id < nextId
      BY <1>2, <1>4 DEF CInv, ClientInv
    <2>2. QED
      BY <1>1, <1>2, <1>4, <2>1 DEF CInv, ClientInv
  <1>21. Above'
    <2>1. ASSUME NEW k \in DOMAIN forms', forms'[k].kind = "command",
                 forms'[k].auto, forms'[k].nonce = gameNonce
          PROVE  Head0.id < forms'[k].id
      BY <1>2, <1>4, <2>1 DEF CInv, QueueInv, InOrder
    <2>2. QED
      BY <1>1, <1>4, <2>1 DEF Above
  <1>22. QED
    BY <1>2, <1>17, <1>18, <1>19, <1>20, <1>21 DEF CInv

\* The three ways a new command ends.
LEMMA NewCommandInvariant ==
    ASSUME CInv, RefuseContent \/ Defer \/ Apply
    PROVE  CInv'
  <1>1. {"failed", "invalid", "unsafe", "already", "applied"} \subseteq Results
    BY DEF Results
  <1>2. target \in Contents \cup {None}
    BY DEF CInv, TypeOK
  <1>3. CASE RefuseContent
    <2> DEFINE result == IF IsForbidden(Head0.content) THEN "failed" ELSE "invalid"
    <2>1. /\ EvaluatesCommand /\ IsNew
          /\ Answers(result) /\ RecordReceipt(result)
          /\ target' = target /\ effects' = effects
      BY <1>3 DEF RefuseContent
    <2>2. result \in Results
      BY <1>1
    <2> HIDE DEF result
    <2>3. QED
      BY <1>2, <2>1, <2>2, ReceiptInvariant
  <1>4. CASE Defer
    <2>1. PICK result \in {"unsafe", "failed"} :
             Answers(result) /\ RecordReceipt(result)
      BY <1>4 DEF Defer
    <2>2. /\ EvaluatesCommand /\ IsNew
          /\ target' = target /\ effects' = effects
      BY <1>4 DEF Defer
    <2>3. QED
      BY <1>1, <1>2, <2>1, <2>2, ReceiptInvariant
  <1>5. CASE Apply
    <2> DEFINE result == IF target = Head0.content THEN "already" ELSE "applied"
    <2>1. /\ EvaluatesCommand /\ IsNew /\ greeted
          /\ Answers(result) /\ RecordReceipt(result)
          /\ target' = Head0.content
      BY <1>5 DEF Apply
    <2>2. \/ effects' = effects
          \/ effects' = Append(effects, [nonce |-> gameNonce, id |-> Head0.id,
                                         content |-> Head0.content])
      BY <1>5 DEF Apply
    <2>3. result \in Results
      BY <1>1
    <2>4. Head0.content \in Contents
      <3>1. Evaluates("command")
        BY <2>1 DEF EvaluatesCommand
      <3>2. Head0.kind = "command" /\ 1 \in DOMAIN forms /\ Head0 = forms[1]
        BY <3>1, HeadEvaluated DEF CInv
      <3>3. QED
        BY <3>2 DEF CInv, QueueInv, CommandsKnown
    <2> HIDE DEF result
    <2>5. QED
      BY <2>1, <2>2, <2>3, <2>4, ReceiptInvariant
  <1>6. QED
    BY <1>3, <1>4, <1>5

\* A reload forgets the activation, its watermark and its ring together.
LEMMA ReloadInvariant ==
    ASSUME CInv, Reload
    PROVE  CInv'
  <1>1. /\ clientSession' = 0 /\ gameNonce' = None /\ greeted' = FALSE
        /\ watermark' = -1 /\ ring' = <<>> /\ target' = None
        /\ last' = [kind |-> "none", id |-> -1, command |-> None, result |-> "none"]
        /\ faults' = faults + 1
        /\ UNCHANGED <<forms, session, pc, nonce, nextId, sent, hellos, effects,
                       recorded, transmitted>>
    BY DEF Reload, clientVars, historyVars
  <1>2. TypeOK'
    <2>1. last' \in Published
      BY <1>1 DEF Results, Published
    <2>2. ring' \in Seq(Receipt) /\ Len(ring') <= RingLimit
      BY <1>1, RingAssumption
    <2>3. greeted' \in BOOLEAN
      BY <1>1, Zenon
    <2>4. faults' \in Nat
      BY <1>1 DEF CInv, TypeOK
    <2>5. QED
      BY <1>1, <2>1, <2>2, <2>3, <2>4 DEF CInv, TypeOK, Nonces, Published
  <1>3. QueueInv'
    BY <1>1 DEF CInv, QueueInv, HellosOrdered, CommandsKnown, InOrder
  <1>4. GameInv'
    BY <1>1 DEF GameInv, RingOrdered
  <1>5. \A n : Passed(n, forms, hellos) => n # gameNonce'
    BY <1>1, NoneAssumption DEF Passed
  <1>6. EffectInv'
    BY <1>1, <1>5 DEF CInv, EffectInv, AtMostOnce
  <1>7. ClientInv'
    BY <1>1 DEF CInv, ClientInv
  <1>8. Above'
    BY <1>1, <1>5 DEF CInv, QueueInv, CommandsKnown, Above
  <1>9. QED
    BY <1>2, <1>3, <1>4, <1>6, <1>7, <1>8 DEF CInv

\* Steps of the client that send nothing: the queue keeps a beginning.
LEMMA ClientRestInvariant ==
    ASSUME CInv,
           UNCHANGED <<goalVars, hellos, historyVars>>,
           forms' = forms \/ forms' \in Remaining,
           session' \in Nat, faults' \in Nat,
           pc' \in {"down", "hello", "idle", "command"},
           sent' \in [id: Nat, content: Contents] \cup {None},
           nonce' = nonce, nextId' = nextId,
           pc' \in {"idle", "command"} => pc \in {"idle", "command"}
    PROVE  CInv'
  <1>1. forms \in Seq(Form)
    BY DEF CInv, TypeOK
  <1>2. /\ forms' \in Seq(Form)
        /\ \A k \in DOMAIN forms' : k \in DOMAIN forms /\ forms'[k] = forms[k]
    <2>1. CASE forms' = forms
      BY <1>1, <2>1
    <2>2. CASE forms' \in Remaining
      <3>1. PICK m \in 0 .. Len(forms) : forms' = SubSeq(forms, 1, m)
        BY <2>2 DEF Remaining
      <3>2. QED
        BY <1>1, <3>1
    <2>3. QED
      BY <2>1, <2>2
  <1>3. \A k \in DOMAIN forms' : k + 0 = k
    BY <1>2
  <1>4. /\ QueueInv'
        /\ \A n : Passed(n, forms, hellos) => Passed(n, forms', hellos')
    <2>1. \A k \in DOMAIN forms' : k + 0 \in DOMAIN forms /\ forms'[k] = forms[k + 0]
      BY <1>2, <1>3
    <2>2. 0 \in Nat
      OBVIOUS
    <2>3. QED
      BY <1>2, <2>1, <2>2, QueueShrinks DEF CInv
  <1>5. TypeOK'
    BY <1>2 DEF CInv, TypeOK, goalVars, historyVars
  <1>6. GameInv'
    BY <1>4 DEF CInv, GameInv, RingOrdered, goalVars
  <1>7. EffectInv'
    BY <1>4 DEF CInv, EffectInv, AtMostOnce, goalVars, historyVars
  <1>8. ClientInv'
    BY <1>2, <1>4 DEF CInv, ClientInv, goalVars
  <1>9. Above'
    BY <1>2 DEF CInv, Above, goalVars
  <1>10. QED
    BY <1>4, <1>5, <1>6, <1>7, <1>8, <1>9 DEF CInv

\* A receipt is taken, a wait ends, the client is restarted.
LEMMA WaitOverInvariant ==
    ASSUME CInv, ReceiveReceipt \/ Abandon \/ TimesOut \/ Crash
    PROVE  CInv'
  <1>1. /\ UNCHANGED <<goalVars, hellos, historyVars>>
        /\ forms' = forms \/ forms' \in Remaining
        /\ nonce' = nonce /\ nextId' = nextId
        /\ sent' = None
        /\ pc' = "down" \/ (pc' = "idle" /\ pc = "command")
    BY DEF ReceiveReceipt, Abandon, TimesOut, Crash
  <1>2. session' \in Nat /\ faults' \in Nat
    BY DEF CInv, TypeOK, ReceiveReceipt, Abandon, TimesOut, Crash
  <1>3. QED
    BY <1>1, <1>2, ClientRestInvariant

\* The identifier recomputed from the ring is above the watermark.
LEMMA NextFromReceiptsFacts ==
    ASSUME TypeOK, RingOrdered, last.id = -1
    PROVE  NextFromReceipts \in Nat /\ watermark < NextFromReceipts
  <1>1. ring \in Seq(Receipt) /\ watermark \in Nat \cup {-1}
    BY DEF TypeOK
  <1>2. CASE ring = <<>>
    BY <1>2 DEF NextFromReceipts, RingOrdered
  <1>3. CASE ring # <<>>
    <2> DEFINE ids == {ring[k].id : k \in DOMAIN ring}
               top == CHOOSE id \in ids : \A k \in DOMAIN ring : ring[k].id <= id
    <2>1. Len(ring) \in DOMAIN ring /\ ring[Len(ring)].id = watermark
      BY <1>1, <1>3 DEF RingOrdered
    <2>2. watermark \in ids /\ \A k \in DOMAIN ring : ring[k].id <= watermark
      BY <2>1 DEF RingOrdered
    <2>3. top \in ids /\ \A k \in DOMAIN ring : ring[k].id <= top
      BY <2>2
    <2>4. watermark <= top
      BY <2>1, <2>3
    <2>5. top \in Nat
      <3>1. \A k \in DOMAIN ring : ring[k].id \in Nat
        BY ElementFacts
      <3>2. QED
        BY <2>3, <3>1
    <2>6. NextFromReceipts = top + 1
      BY <1>3 DEF NextFromReceipts
    <2> HIDE DEF top
    <2>7. QED
      BY <1>1, <2>4, <2>5, <2>6
  <1>4. QED
    BY <1>2, <1>3

\* initialize returns with the nonce of the game and an empty queue.
LEMMA AcceptHelloInvariant ==
    ASSUME CInv, AcceptHello
    PROVE  CInv'
  <1>1. /\ forms = <<>> /\ forms' = forms
        /\ last.kind = "hello"
        /\ gameNonce # None
        /\ pc' = "idle" /\ nonce' = gameNonce
        /\ nextId' = NextFromReceipts
        /\ UNCHANGED <<clientSession, gameNonce, greeted, watermark, ring, target,
                       last, session, sent, hellos, faults, effects, recorded,
                       transmitted>>
    BY DEF AcceptHello, Answered, goalVars, historyVars
  <1>2. NextFromReceipts \in Nat /\ watermark < NextFromReceipts
    BY <1>1, NextFromReceiptsFacts DEF CInv, GameInv
  <1>3. TypeOK'
    BY <1>1, <1>2 DEF CInv, TypeOK
  <1>4. QueueInv'
    BY <1>1 DEF CInv, QueueInv, HellosOrdered, CommandsKnown, InOrder
  <1>5. GameInv' /\ EffectInv' /\ Above'
    BY <1>1 DEF CInv, GameInv, RingOrdered, EffectInv, AtMostOnce, Above
  <1>6. ClientInv'
    BY <1>1, <1>2 DEF CInv, ClientInv, GameInv
  <1>7. QED
    BY <1>3, <1>4, <1>5, <1>6 DEF CInv

\* A new protocol proposes a nonce no other hello had.
LEMMA SendHelloInvariant ==
    ASSUME CInv, SendHello
    PROVE  CInv'
  <1> DEFINE form == [kind |-> "hello", session |-> session, nonce |-> hellos,
                      id |-> 0, content |-> None, auto |-> FALSE]
  <1>1. /\ hellos' = hellos + 1
        /\ pc' = "hello" /\ nonce' = None /\ nextId' = 0 /\ sent' = None
        /\ forms' = Append(forms, form)
        /\ UNCHANGED <<clientSession, gameNonce, greeted, watermark, ring, target,
                       last, session, faults, effects, recorded, transmitted>>
    BY DEF SendHello, goalVars, historyVars
  <1>2. form \in Form /\ form.kind = "hello" /\ form.nonce = hellos
    BY DEF CInv, TypeOK, Form, Nonces
  <1> HIDE DEF form
  <1>3. /\ forms' \in Seq(Form)
        /\ \A k \in DOMAIN forms' :
              (k \in DOMAIN forms /\ forms'[k] = forms[k]) \/ forms'[k] = form
        /\ QueueInv'
        /\ \A n : Passed(n, forms, hellos) => Passed(n, forms', hellos')
    BY <1>1, <1>2, QueueGrows DEF CInv
  <1>4. TypeOK'
    <2>1. hellos' \in Nat
      BY <1>1 DEF CInv, TypeOK
    <2>2. QED
      BY <1>1, <1>3, <2>1 DEF CInv, TypeOK, Nonces
  <1>5. GameInv'
    BY <1>1, <1>3 DEF CInv, GameInv, RingOrdered
  <1>6. EffectInv'
    BY <1>1, <1>3 DEF CInv, EffectInv, AtMostOnce
  <1>7. ClientInv'
    BY <1>1 DEF ClientInv
  <1>8. Above'
    BY <1>1, <1>2, <1>3 DEF CInv, Above
  <1>9. QED
    BY <1>3, <1>4, <1>5, <1>6, <1>7, <1>8 DEF CInv

\* A command is reserved and sent, or an identifier is repeated.
LEMMA TransmitInvariant ==
    ASSUME CInv, pc = "idle", NEW id \in Nat, NEW content \in Contents,
           NEW auto \in BOOLEAN, auto => id = nextId,
           Transmits(id, content, auto),
           transmitted' \in SUBSET [session: Nat, nonce: Nonces, id: Nat,
                                    content: Contents]
    PROVE  CInv'
  <1> DEFINE form == [kind |-> "command", session |-> session, nonce |-> nonce,
                      id |-> id, content |-> content, auto |-> auto]
  <1>1. /\ pc' = "command"
        /\ sent' = [id |-> id, content |-> content]
        /\ nextId' = IF id >= nextId THEN id + 1 ELSE nextId
        /\ forms' = Append(forms, form)
        /\ UNCHANGED <<clientSession, gameNonce, greeted, watermark, ring, target,
                       last, session, nonce, hellos, faults, effects, recorded>>
    BY DEF Transmits, goalVars
  <1>2. /\ form \in Form /\ form.kind = "command" /\ form.nonce = nonce
        /\ form.id = id /\ form.auto = auto /\ form.content = content
    BY DEF CInv, TypeOK, Form
  <1>3. nextId \in Nat /\ nextId' \in Nat /\ nextId <= nextId' /\ id < nextId'
    BY <1>1 DEF CInv, TypeOK
  <1>4. /\ nonce # None /\ Passed(nonce, forms, hellos)
        /\ nonce = gameNonce => watermark < nextId
        /\ \A k \in DOMAIN forms :
              forms[k].kind = "command" /\ forms[k].nonce = nonce
                 => forms[k].id < nextId
    BY DEF CInv, ClientInv
  <1> HIDE DEF form
  <1>5. /\ forms' \in Seq(Form)
        /\ \A k \in DOMAIN forms' :
              (k \in DOMAIN forms /\ forms'[k] = forms[k]) \/ forms'[k] = form
        /\ QueueInv'
        /\ \A n : Passed(n, forms, hellos) => Passed(n, forms', hellos')
    BY <1>1, <1>2, <1>4, QueueGrows DEF CInv
  <1>6. TypeOK'
    BY <1>1, <1>3, <1>5 DEF CInv, TypeOK
  <1>7. GameInv'
    BY <1>1, <1>5 DEF CInv, GameInv, RingOrdered
  <1>8. EffectInv'
    BY <1>1, <1>5 DEF CInv, EffectInv, AtMostOnce
  <1>9. ClientInv'
    <2>1. ASSUME NEW k \in DOMAIN forms', forms'[k].kind = "command",
                 forms'[k].nonce = nonce
          PROVE  forms'[k].id < nextId'
      <3>1. CASE k \in DOMAIN forms /\ forms'[k] = forms[k]
        <4>1. forms[k].id < nextId /\ forms[k].id \in Nat
          BY <1>4, <2>1, <3>1, ElementFacts DEF CInv
        <4>2. QED
          BY <1>3, <3>1, <4>1
      <3>2. CASE forms'[k] = form
        BY <1>2, <1>3, <3>2
      <3>3. QED
        BY <1>5, <3>1, <3>2
    <2>2. nonce = gameNonce => watermark < nextId'
      BY <1>3, <1>4 DEF CInv, TypeOK
    <2>3. QED
      BY <1>1, <1>4, <1>5, <2>1, <2>2 DEF ClientInv
  <1>10. Above'
    <2>1. ASSUME NEW k \in DOMAIN forms', forms'[k].kind = "command",
                 forms'[k].auto, forms'[k].nonce = gameNonce
          PROVE  watermark < forms'[k].id
      <3>1. CASE k \in DOMAIN forms /\ forms'[k] = forms[k]
        BY <2>1, <3>1 DEF CInv, Above
      <3>2. CASE forms'[k] = form
        BY <1>2, <1>4, <2>1, <3>2
      <3>3. QED
        BY <1>5, <3>1, <3>2
    <2>2. QED
      BY <1>1, <2>1 DEF Above
  <1>11. QED
    BY <1>5, <1>6, <1>7, <1>8, <1>9, <1>10 DEF CInv

LEMMA SendsInvariant ==
    ASSUME CInv, SendCommand \/ RepeatCommand
    PROVE  CInv'
  <1>1. CASE SendCommand
    <2>1. PICK content \in Contents :
             /\ Transmits(nextId, content, TRUE)
             /\ transmitted' = transmitted \cup
                    {[session |-> session, nonce |-> nonce, id |-> nextId,
                      content |-> content]}
      BY <1>1 DEF SendCommand
    <2>2. nextId \in Nat /\ pc = "idle"
      BY <1>1 DEF SendCommand, CInv, TypeOK
    <2>3. [session |-> session, nonce |-> nonce, id |-> nextId, content |-> content]
             \in [session: Nat, nonce: Nonces, id: Nat, content: Contents]
      BY DEF CInv, TypeOK
    <2>4. transmitted' \in SUBSET [session: Nat, nonce: Nonces, id: Nat,
                                   content: Contents]
      BY <2>1, <2>3 DEF CInv, TypeOK
    <2>5. QED
      BY <2>1, <2>2, <2>4, TransmitInvariant
  <1>2. CASE RepeatCommand
    <2>1. PICK id \in 0 .. (nextId - 1), content \in Contents :
             Transmits(id, content, FALSE)
      BY <1>2 DEF RepeatCommand
    <2>2. pc = "idle" /\ transmitted' = transmitted
      BY <1>2 DEF RepeatCommand
    <2>3. id \in Nat
      BY DEF CInv, TypeOK
    <2>4. transmitted' \in SUBSET [session: Nat, nonce: Nonces, id: Nat,
                                   content: Contents]
      BY <2>2 DEF CInv, TypeOK
    <2>5. QED
      BY <2>1, <2>2, <2>3, <2>4, TransmitInvariant
  <1>3. QED
    BY <1>1, <1>2

\* The client says goodbye and is started again.
LEMMA StopInvariant ==
    ASSUME CInv, Stop
    PROVE  CInv'
  <1> DEFINE form == [kind |-> "disconnect", session |-> session, nonce |-> nonce,
                      id |-> 0, content |-> None, auto |-> FALSE]
  <1>1. /\ pc' = "down" /\ session' = session + 1 /\ faults' = faults + 1
        /\ forms' = Append(forms, form)
        /\ UNCHANGED <<clientSession, gameNonce, greeted, watermark, ring, target,
                       last, nonce, nextId, sent, hellos, effects, recorded,
                       transmitted>>
    BY DEF Stop, goalVars, historyVars
  <1>2. form \in Form /\ form.kind = "disconnect"
    BY DEF CInv, TypeOK, Form
  <1> HIDE DEF form
  <1>3. /\ forms' \in Seq(Form)
        /\ \A k \in DOMAIN forms' :
              (k \in DOMAIN forms /\ forms'[k] = forms[k]) \/ forms'[k] = form
        /\ QueueInv'
        /\ \A n : Passed(n, forms, hellos) => Passed(n, forms', hellos')
    BY <1>1, <1>2, QueueGrows DEF CInv
  <1>4. TypeOK'
    <2>1. session' \in Nat /\ faults' \in Nat
      BY <1>1 DEF CInv, TypeOK
    <2>2. QED
      BY <1>1, <1>3, <2>1 DEF CInv, TypeOK
  <1>5. GameInv'
    BY <1>1, <1>3 DEF CInv, GameInv, RingOrdered
  <1>6. EffectInv'
    BY <1>1, <1>3 DEF CInv, EffectInv, AtMostOnce
  <1>7. ClientInv'
    BY <1>1, <1>3 DEF CInv, ClientInv
  <1>8. Above'
    BY <1>1, <1>2, <1>3 DEF CInv, Above
  <1>9. QED
    BY <1>3, <1>4, <1>5, <1>6, <1>7, <1>8 DEF CInv

LEMMA StepInvariant ==
    ASSUME CInv, [Next]_vars
    PROVE  CInv'
  <1>1. CASE EvaluateHello
    BY <1>1, HelloInvariant
  <1>2. CASE EvaluateDisconnect \/ RefuseStranger \/ AnswerDuplicate \/ RefuseOld
    BY <1>2, NoReceiptInvariant
  <1>3. CASE RefuseContent \/ Defer \/ Apply
    BY <1>3, NewCommandInvariant
  <1>4. CASE Reload
    BY <1>4, ReloadInvariant
  <1>5. CASE SendHello
    BY <1>5, SendHelloInvariant
  <1>6. CASE AcceptHello
    BY <1>6, AcceptHelloInvariant
  <1>7. CASE SendCommand \/ RepeatCommand
    BY <1>7, SendsInvariant
  <1>8. CASE ReceiveReceipt \/ Abandon \/ TimesOut \/ Crash
    BY <1>8, WaitOverInvariant
  <1>9. CASE Stop
    BY <1>9, StopInvariant
  <1>10. CASE UNCHANGED vars
    <2>1. UNCHANGED <<goalVars, forms, session, pc, nonce, nextId, sent, hellos,
                      faults, historyVars>>
      BY <1>10 DEF vars, clientVars
    <2>2. /\ session \in Nat /\ faults \in Nat
          /\ pc \in {"down", "hello", "idle", "command"}
          /\ sent \in [id: Nat, content: Contents] \cup {None}
      BY DEF CInv, TypeOK
    <2>3. QED
      BY <2>1, <2>2, ClientRestInvariant
  <1>11. QED
    BY <1>1, <1>2, <1>3, <1>4, <1>5, <1>6, <1>7, <1>8, <1>9, <1>10
    DEF Next, Evaluate

-----------------------------------------------------------------------------
(* What the client reads.  ReceiptTruthful speaks of one step, and needs to *)
(* know what the answer it reads was written for.                           *)

EntryOf(n, id, content, result) ==
    [nonce |-> n, id |-> id, content |-> content, result |-> result]

\* The ring holds receipts of this activation only.
RingRecorded ==
    \A k \in DOMAIN ring :
        /\ gameNonce # None
        /\ EntryOf(gameNonce, ring[k].id, ring[k].content, ring[k].result) \in recorded

\* The command that is waited for is the last form of the queue, and nothing
\* else is answered after it.
Awaited ==
    pc = "command" =>
        IF forms # <<>>
        THEN LET form == forms[Len(forms)]
             IN  /\ form.kind = "command" /\ form.nonce = nonce
                 /\ form.id = sent.id /\ form.content = sent.content
        ELSE last.kind = "command" /\ last.result \in {"applied", "already"}
                => EntryOf(nonce, sent.id, sent.content, last.result) \in recorded

ReadInv == RingRecorded /\ Awaited

\* An evaluation whose answer, when it is a favourable one, is of a receipt.
LEMMA EvaluationAwaited ==
    ASSUME CInv, Awaited, NEW kind, Evaluates(kind),
           kind # "command" => last'.kind # "command",
           recorded \subseteq recorded',
           last'.result \in {"applied", "already"} =>
               EntryOf(Head0.nonce, Head0.id, Head0.content, last'.result) \in recorded'
    PROVE  Awaited'
  <1>1. /\ forms \in Seq(Form) /\ forms # <<>> /\ forms' = Tail(forms)
        /\ Head0 = forms[1] /\ Head0.kind = kind
        /\ UNCHANGED <<pc, nonce, sent>>
    BY DEF CInv, TypeOK, Evaluates, Head0, clientVars
  <1>2. CASE Len(forms) = 1
    <2>1. forms' = <<>> /\ Head0 = forms[Len(forms)]
      BY <1>1, <1>2
    <2>2. QED
      BY <1>1, <2>1 DEF Awaited
  <1>3. CASE Len(forms) # 1
    <2>1. /\ Len(forms) \in Nat /\ Len(forms) > 1
          /\ forms' \in Seq(Form) /\ Len(forms') = Len(forms) - 1
      <3>1. Len(forms) \in Nat /\ Len(forms) # 0
        BY <1>1
      <3>2. Len(Tail(forms)) = Len(forms) - 1 /\ Tail(forms) \in Seq(Form)
        BY <1>1, <3>1
      <3>3. QED
        BY <1>1, <1>3, <3>1, <3>2
    <2>2. \A k \in 1 .. Len(forms) - 1 : forms'[k] = forms[k + 1]
      BY <1>1
    <2>3. Len(forms) - 1 \in 1 .. Len(forms) - 1 /\ (Len(forms) - 1) + 1 = Len(forms)
      BY <2>1
    <2>4. forms'[Len(forms) - 1] = forms[Len(forms)]
      BY <2>2, <2>3
    <2>5. forms' # <<>>
      BY <2>1
    <2>6. QED
      BY <1>1, <2>1, <2>4, <2>5 DEF Awaited
  <1>4. QED
    BY <1>2, <1>3

\* A hello names the activation only while there is no receipt.
LEMMA HelloRead ==
    ASSUME CInv, ReadInv, EvaluateHello
    PROVE  ReadInv'
  <1>1. /\ Evaluates("hello")
        /\ gameNonce' = IF gameNonce = None THEN Head0.nonce ELSE gameNonce
        /\ last'.kind = "hello" /\ last'.result = "ok"
        /\ ring' = ring /\ recorded' = recorded
    BY DEF EvaluateHello
  <1>2. RingRecorded'
    BY <1>1 DEF ReadInv, RingRecorded
  <1>3. Awaited'
    BY <1>1, EvaluationAwaited DEF ReadInv
  <1>4. QED
    BY <1>2, <1>3 DEF ReadInv

LEMMA DisconnectRead ==
    ASSUME CInv, ReadInv, EvaluateDisconnect
    PROVE  ReadInv'
  <1>1. /\ Evaluates("disconnect")
        /\ UNCHANGED <<gameNonce, ring, recorded>>
        /\ last'.kind = "disconnect"
        /\ last'.result \in {"ok", "failed"}
    BY DEF EvaluateDisconnect
  <1>2. RingRecorded'
    BY <1>1 DEF ReadInv, RingRecorded
  <1>3. Awaited'
    BY <1>1, EvaluationAwaited DEF ReadInv
  <1>4. QED
    BY <1>2, <1>3 DEF ReadInv

\* A refusal is not favourable; the answer to a repetition is a receipt of this
\* activation, of the same content.
LEMMA NoReceiptRead ==
    ASSUME CInv, ReadInv, RefuseStranger \/ AnswerDuplicate \/ RefuseOld
    PROVE  ReadInv'
  <1>1. /\ Evaluates("command")
        /\ UNCHANGED <<gameNonce, ring, recorded>>
    BY DEF RefuseStranger, AnswerDuplicate, RefuseOld, EvaluatesCommand
  <1>2. RingRecorded'
    BY <1>1 DEF ReadInv, RingRecorded
  <1>3. last'.result \in {"applied", "already"} =>
            EntryOf(Head0.nonce, Head0.id, Head0.content, last'.result) \in recorded'
    <2>1. CASE RefuseStranger \/ RefuseOld
      BY <2>1 DEF RefuseStranger, RefuseOld, Answers
    <2>2. CASE AnswerDuplicate
      <3>1. PICK k \in Found(Head0.id) :
               last'.result = IF ring[k].content = Head0.content THEN ring[k].result
                              ELSE "failed"
        BY <2>2 DEF AnswerDuplicate, Answers
      <3>2. Head0.nonce = gameNonce
        BY <2>2 DEF AnswerDuplicate, Authentic
      <3>3. k \in DOMAIN ring /\ ring[k].id = Head0.id
        BY DEF Found
      <3>4. EntryOf(gameNonce, ring[k].id, ring[k].content, ring[k].result)
                \in recorded
        BY <3>3 DEF ReadInv, RingRecorded
      <3>5. QED
        BY <1>1, <3>1, <3>2, <3>3, <3>4
    <2>3. QED
      BY <2>1, <2>2
  <1>4. Awaited'
    BY <1>1, <1>3, EvaluationAwaited DEF ReadInv
  <1>5. QED
    BY <1>2, <1>4 DEF ReadInv

\* A new command is answered with the receipt it leaves.
LEMMA ReceiptRead ==
    ASSUME CInv, ReadInv, EvaluatesCommand, IsNew, NEW result \in Results,
           Answers(result), RecordReceipt(result)
    PROVE  ReadInv'
  <1>1. Evaluates("command") /\ gameNonce' = gameNonce /\ Head0.nonce = gameNonce
    BY DEF EvaluatesCommand, IsNew, Authentic
  <1> DEFINE receipt == [id |-> Head0.id, content |-> Head0.content, result |-> result]
             kept == IF Len(ring) = RingLimit THEN Tail(ring) ELSE ring
  <1>2. /\ ring' = Append(kept, receipt)
        /\ recorded' = recorded \cup
               {EntryOf(gameNonce, Head0.id, Head0.content, result)}
        /\ last'.result = result
    BY DEF RecordReceipt, Answers, EntryOf
  <1>3. gameNonce # None
    BY <1>1, HeadEvaluated, NoneAssumption
    DEF CInv, QueueInv, CommandsKnown, Passed
  <1>4. /\ kept \in Seq(Receipt) /\ receipt \in Receipt
        /\ \A k \in DOMAIN kept : \E j \in DOMAIN ring : kept[k] = ring[j]
    <2>1. ring \in Seq(Receipt) /\ RingLimit \in Nat \ {0}
      BY RingAssumption DEF CInv, TypeOK
    <2>2. Head0.content \in Contents /\ Head0.id \in Nat
      BY <1>1, HeadEvaluated DEF CInv, QueueInv, CommandsKnown, Form
    <2>3. receipt \in Receipt
      BY <2>2 DEF Receipt
    <2>4. CASE Len(ring) = RingLimit
      <3>1. kept = Tail(ring) /\ ring # <<>>
        BY <2>1, <2>4
      <3>2. \A k \in DOMAIN kept : k + 1 \in DOMAIN ring /\ kept[k] = ring[k + 1]
        BY <2>1, <3>1
      <3>3. QED
        BY <2>1, <2>3, <3>1, <3>2
    <2>5. CASE Len(ring) # RingLimit
      BY <2>1, <2>3, <2>5
    <2>6. QED
      BY <2>4, <2>5
  <1>5. RingRecorded'
    <2>1. ASSUME NEW k \in DOMAIN ring'
          PROVE  EntryOf(gameNonce, ring'[k].id, ring'[k].content, ring'[k].result)
                     \in recorded'
      <3>1. ring'[k] = receipt \/ \E j \in DOMAIN ring : ring'[k] = ring[j]
        <4> HIDE DEF kept, receipt
        <4>1. ring'[k] = receipt \/ (k \in DOMAIN kept /\ ring'[k] = kept[k])
          BY <1>2, <1>4
        <4>2. QED
          BY <1>4, <4>1
      <3>2. CASE ring'[k] = receipt
        BY <1>2, <3>2
      <3>3. CASE \E j \in DOMAIN ring : ring'[k] = ring[j]
        BY <1>2, <3>3 DEF ReadInv, RingRecorded
      <3>4. QED
        BY <3>1, <3>2, <3>3
    <2>2. QED
      BY <1>1, <1>3, <2>1 DEF RingRecorded
  <1>6. Awaited'
    BY <1>1, <1>2, EvaluationAwaited DEF ReadInv
  <1>7. QED
    BY <1>5, <1>6 DEF ReadInv

LEMMA NewCommandRead ==
    ASSUME CInv, ReadInv, RefuseContent \/ Defer \/ Apply
    PROVE  ReadInv'
  <1>1. /\ EvaluatesCommand /\ IsNew
        /\ \E result \in Results : Answers(result) /\ RecordReceipt(result)
    <2>1. {"failed", "invalid", "unsafe", "already", "applied"} \subseteq Results
      BY DEF Results
    <2>2. CASE RefuseContent
      BY <2>1, <2>2 DEF RefuseContent
    <2>3. CASE Defer
      BY <2>1, <2>3 DEF Defer
    <2>4. CASE Apply
      BY <2>1, <2>4 DEF Apply
    <2>5. QED
      BY <2>2, <2>3, <2>4
  <1>2. QED
    BY <1>1, ReceiptRead

\* Sending puts the command at the end; nothing else of the client waits.
LEMMA SendsRead ==
    ASSUME CInv, ReadInv, SendCommand \/ RepeatCommand
    PROVE  ReadInv'
  <1>1. PICK id, content, auto : Transmits(id, content, auto)
    BY DEF SendCommand, RepeatCommand
  <1> DEFINE form == [kind |-> "command", session |-> session, nonce |-> nonce,
                      id |-> id, content |-> content, auto |-> auto]
  <1>2. /\ sent' = [id |-> id, content |-> content]
        /\ forms' = Append(forms, form)
        /\ UNCHANGED <<gameNonce, ring, last, nonce, recorded>>
    BY <1>1 DEF Transmits, goalVars
  <1>3. /\ form.kind = "command" /\ form.nonce = nonce
        /\ form.id = id /\ form.content = content
    OBVIOUS
  <1> HIDE DEF form
  <1>4. forms \in Seq(Form)
    BY DEF CInv, TypeOK
  <1>5. forms' # <<>> /\ forms'[Len(forms')] = form
    BY <1>2, <1>4
  <1>6. Awaited'
    BY <1>2, <1>3, <1>5 DEF Awaited
  <1>7. RingRecorded'
    BY <1>2 DEF ReadInv, RingRecorded
  <1>8. QED
    BY <1>6, <1>7 DEF ReadInv

\* A reload empties the ring and the answer.
LEMMA ReloadRead ==
    ASSUME CInv, ReadInv, Reload
    PROVE  ReadInv'
  <1>1. /\ ring' = <<>> /\ last'.kind = "none"
        /\ UNCHANGED <<forms, pc, nonce, sent, recorded>>
    BY DEF Reload, clientVars, historyVars
  <1>2. RingRecorded'
    BY <1>1 DEF RingRecorded
  <1>3. Awaited'
    BY <1>1 DEF ReadInv, Awaited
  <1>4. QED
    BY <1>2, <1>3 DEF ReadInv

LEMMA OthersRead ==
    ASSUME CInv, ReadInv,
           UNCHANGED <<goalVars, historyVars>>,
           pc' # "command" \/ UNCHANGED <<forms, clientVars>>
    PROVE  ReadInv'
  <1>1. UNCHANGED <<gameNonce, ring, last, recorded>>
    BY DEF goalVars, historyVars
  <1>2. RingRecorded'
    BY <1>1 DEF ReadInv, RingRecorded
  <1>3. Awaited'
    BY <1>1 DEF ReadInv, Awaited, clientVars
  <1>4. QED
    BY <1>2, <1>3 DEF ReadInv

LEMMA StepRead ==
    ASSUME CInv, ReadInv, [Next]_vars
    PROVE  ReadInv'
  <1>1. CASE EvaluateHello
    BY <1>1, HelloRead
  <1>2. CASE EvaluateDisconnect
    BY <1>2, DisconnectRead
  <1>3. CASE RefuseStranger \/ AnswerDuplicate \/ RefuseOld
    BY <1>3, NoReceiptRead
  <1>4. CASE RefuseContent \/ Defer \/ Apply
    BY <1>4, NewCommandRead
  <1>5. CASE Reload
    BY <1>5, ReloadRead
  <1>6. CASE SendCommand \/ RepeatCommand
    BY <1>6, SendsRead
  <1>7. CASE SendHello \/ AcceptHello \/ ReceiveReceipt \/ Abandon \/ TimesOut
             \/ Stop \/ Crash
    <2>1. UNCHANGED <<goalVars, historyVars>> /\ pc' # "command"
      BY <1>7 DEF SendHello, AcceptHello, ReceiveReceipt, Abandon, TimesOut, Stop, Crash
    <2>2. QED
      BY <2>1, OthersRead
  <1>8. CASE UNCHANGED vars
    <2>1. UNCHANGED <<goalVars, historyVars, forms, clientVars>>
      BY <1>8 DEF vars
    <2>2. QED
      BY <2>1, OthersRead
  <1>9. QED
    BY <1>1, <1>2, <1>3, <1>4, <1>5, <1>6, <1>7, <1>8 DEF Next, Evaluate

-----------------------------------------------------------------------------
(* The theorems about the commands.                                         *)

\* The inductive invariant: no activation is named twice, the ring ends with
\* the watermark, and what is sent or chosen next is above it.
THEOREM Invariant == Spec => []CInv
  <1>1. CInv /\ [Next]_vars => CInv'
    BY StepInvariant
  <1>2. QED
    BY <1>1, InitInvariant, PTL DEF Spec

\* The ring stays within its limit and every published answer is a receipt the
\* client can read.
THEOREM TypeCorrect == Spec => []TypeOK
  <1>1. CInv => TypeOK
    BY DEF CInv
  <1>2. QED
    BY <1>1, Invariant, PTL

\* Within one activation commands take effect in the order of their
\* identifiers, each at most once, whatever is repeated, lost, evaluated late
\* or no longer in the ring (ap3-command! and its watermark).
THEOREM EffectsOnce == Spec => []AtMostOnce
  <1>1. CInv => AtMostOnce
    BY DEF CInv, EffectInv
  <1>2. QED
    BY <1>1, Invariant, PTL

\* An identifier the client chose is new to the game when it arrives, also
\* when it was recomputed from the ring after a reconnection
\* (BridgeProtocol.initialize, send_command).
THEOREM ChosenIsNew == Spec => []AutomaticIsNew
  <1>1. CInv => AutomaticIsNew
    <2>1. SUFFICES ASSUME CInv, NEW k \in DOMAIN forms,
                          forms[k].kind = "command", forms[k].auto,
                          forms[k].nonce = gameNonce
                   PROVE  forms[k].id > watermark /\ Found(forms[k].id) = {}
      BY DEF AutomaticIsNew
    <2>2. watermark < forms[k].id /\ watermark \in Nat \cup {-1} /\ forms[k].id \in Nat
      BY <2>1, ElementFacts DEF CInv, Above, TypeOK
    <2>3. ASSUME NEW j \in DOMAIN ring, ring[j].id = forms[k].id
          PROVE  FALSE
      BY <2>1, <2>2, <2>3 DEF CInv, GameInv, RingOrdered
    <2>4. QED
      BY <2>2, <2>3 DEF Found
  <1>2. QED
    BY <1>1, Invariant, PTL

\* What the client reads as applied was recorded by the game, in the activation
\* the command was numbered in, for that identifier and that content.
THEOREM Truthful == Spec => ReceiptTruthful
  <1>1. Init => ReadInv
    BY DEF Init, ReadInv, RingRecorded, Awaited
  <1>2. CInv /\ ReadInv /\ [Next]_vars => ReadInv'
    BY StepRead
  <1>3. CInv /\ ReadInv =>
            [ReceiveReceipt /\ last.result \in {"applied", "already"}
             => [nonce |-> nonce, id |-> sent.id, content |-> sent.content,
                 result |-> last.result] \in recorded]_vars
    <2>1. ASSUME ReadInv, ReceiveReceipt, last.result \in {"applied", "already"}
          PROVE  EntryOf(nonce, sent.id, sent.content, last.result) \in recorded
      BY <2>1 DEF ReadInv, Awaited, ReceiveReceipt, Answered
    <2>2. QED
      BY <2>1 DEF EntryOf
  <1>4. Spec => []ReadInv
    BY <1>1, <1>2, Invariant, PTL DEF Spec
  <1>5. QED
    BY <1>3, <1>4, Invariant, PTL DEF ReceiptTruthful

-----------------------------------------------------------------------------
(* The state file: what holds of a file and a read.                         *)

\* The exports that begin during one read are fewer than it takes for a revision
\* to come to look like another one, and none of them begins the revisions anew.
Readable ==
    /\ S!BoundAssumption /\ None \notin Nat
    /\ ReloadsWhileReading = FALSE /\ MaxOverlap < Base - 1

Values == Int \cup (Nat \X {"none", "hello", "pong", "query", "refused"})
Lines == [key: S!Keys, value: Values, of: Nat]
Sent == [kind: {"path", "hello", "ping", "query"}, session: 1 .. MaxSessions,
         sequence: Nat]

FileType ==
    /\ file \in Seq(Lines) /\ unwritten \in Seq(Lines) /\ game \in S!Game
    /\ reloads \in 0 .. MaxReloads /\ queue \in Seq(Sent)
    /\ client \in [phase: S!Phases, session: 0 .. MaxSessions, next: Nat,
                   previous: Int, last: Int]
    /\ asked \in 0 .. MaxForms
    /\ exported \in Nat \ {0} /\ log \in Seq(S!Game) /\ Len(log) = exported
    /\ sentAt \in 0 .. exported
    /\ reader # None => reader \in [text: Seq(Lines), begun: 1 .. exported]

\* The log ends with the game as it is; a game nobody has greeted since its load
\* has no session.
LogCurrent == log[exported] = game
Numbered == \A e \in 1 .. exported : log[e].revision >= 1 /\ log[e].heartbeat >= -1
Unasked == \A e \in 1 .. exported : log[e].answer = "none" => log[e].session = 0

\* The file and what is still to be written are one text, or both are gone with
\* an attach.  R tells how many records each export has printed.
Printed(R) ==
    \/ file = <<>> /\ unwritten = <<>>
    \/ /\ Len(file) + Len(unwritten) = 6 + R[exported]
       /\ \A i \in 1 .. Len(file) :
            file[i] = S!Text(game, exported, R[exported])[i]
       /\ \A i \in 1 .. Len(unwritten) :
            unwritten[i] = S!Text(game, exported, R[exported])[Len(file) + i]

\* Each line that was read stands at its place in the text of an export that had
\* begun, of a later one the later it was read.
Collected(R) ==
    reader # None =>
        /\ \A i \in 1 .. Len(reader.text) :
             /\ reader.text[i].of \in reader.begun .. exported
             /\ i <= 6 + R[reader.text[i].of]
             /\ reader.text[i] =
                  S!Text(log[reader.text[i].of], reader.text[i].of,
                       R[reader.text[i].of])[i]
        /\ \A i, j \in 1 .. Len(reader.text) :
             i <= j => reader.text[i].of <= reader.text[j].of

Texts == \E R \in [1 .. exported -> 0 .. 1] : Printed(R) /\ Collected(R)

\* The exports during a read follow one another.
Succession ==
    reader # None =>
        /\ exported <= reader.begun + MaxOverlap
        /\ \A e \in reader.begun .. exported :
             log[e].revision = log[reader.begun].revision + (e - reader.begun)

FileInv == LogCurrent /\ Numbered /\ Unasked /\ Texts /\ Succession

\* A read belongs to one wait, and began after its form was sent.
ReadsInWait == reader # None => S!Polling /\ sentAt <= reader.begun

\* The sessions are handed out in order, and the game has the one of the client
\* only once its hello is evaluated.
Known ==
    /\ game.session <= client.session
    /\ \A i \in 1 .. Len(queue) : queue[i].session <= client.session
    /\ client.phase # "closed" => client.session >= 1 /\ sentAt >= 1
OnPath ==
    client.phase = "path" =>
        /\ game.session < client.session
        /\ \A i \in 1 .. Len(queue) :
             queue[i].session = client.session => queue[i].kind = "path"

\* Between two operations nothing is on its way, and the last export is the one
\* read last unless the game was loaded anew.
AtRest ==
    client.phase \in {"idle", "before"} =>
        /\ queue = <<>>
        /\ game.answer = "none" \/ game.revision = client.last
Counted ==
    client.phase \in {"idle", "before", "query"} /\ game.session = client.session =>
        game.heartbeat < client.next

\* The game g answers the form that is waited for.
Answering(g) ==
    CASE client.phase = "hello" ->
           g.session = client.session /\ g.answer = "hello"
      [] client.phase = "ping" ->
           /\ g.session = client.session /\ g.answer = "pong"
           /\ g.heartbeat = client.next
      [] client.phase = "query" ->
           g.answer = "query" /\ g.revision > client.previous
      [] OTHER -> FALSE

\* The form that is waited for is the last one; until it is evaluated no export
\* since it was sent answers it, and after that only loads export.
Awaiting == client.phase \in {"hello", "ping", "query"}
Own(form) ==
    /\ form.kind = client.phase /\ form.session = client.session
    /\ client.phase = "ping" => form.sequence = client.next
Pending ==
    Awaiting /\ queue # <<>> =>
        /\ Own(queue[Len(queue)])
        /\ client.phase # "hello" => Len(queue) = 1
        /\ client.phase = "hello" =>
             /\ game.session < client.session
             /\ \A i \in 1 .. Len(queue) - 1 :
                  queue[i].session = client.session => queue[i].kind = "path"
        /\ \A e \in sentAt .. exported : ~Answering(log[e])
Served ==
    Awaiting /\ queue = <<>> =>
        /\ ~Answering(log[sentAt])
        /\ \A e \in sentAt .. exported : Answering(log[e]) =>
             \A f \in e + 1 .. exported : log[f].answer = "none"

DialogInv ==
    /\ ReadsInWait /\ Known /\ OnPath /\ AtRest /\ Counted /\ Pending /\ Served

\* The snapshot shows the game g of export n, whole.
Shows(snap, g, n) ==
    /\ snap.revision = g.revision /\ snap.heartbeat = g.heartbeat
    /\ snap.session = g.session /\ snap.answer = g.answer
    /\ ~snap.malformed /\ snap.exports = {n}

\* What was observed last is one export.
Whole ==
    observed # None =>
        \E e \in 1 .. exported : Shows(observed.snapshot, log[e], e)

SnapshotInv == FileType /\ FileInv /\ DialogInv /\ Whole

LEMMA TextShape ==
    ASSUME NEW g \in S!Game, NEW n \in Nat, NEW r \in 0 .. 1, Base \in Nat \ {0, 1}
    PROVE  /\ S!Text(g, n, r) \in Seq(Lines)
           /\ Len(S!Text(g, n, r)) = 6 + r
           /\ S!Text(g, n, r)[1] = S!Line("begin", g.revision, n)
           /\ S!Text(g, n, r)[2] = S!Line("heartbeat", g.heartbeat, n)
           /\ S!Text(g, n, r)[3] = S!Line("answer", <<g.session, g.answer>>, n)
           /\ S!Text(g, n, r)[4] = S!Line("count", r, n)
           /\ r = 1 => S!Text(g, n, r)[5] = S!Line("event", 1, n)
           /\ S!Text(g, n, r)[5 + r] = S!Line("end", g.revision \div Base, n)
           /\ S!Text(g, n, r)[6 + r] = S!Line("digit", g.revision % Base, n)
<1>1. g.revision \div Base \in Int /\ g.revision % Base \in Int
  BY DEF S!Game
<1>2. PICK h : h = <<S!Line("begin", g.revision, n),
                     S!Line("heartbeat", g.heartbeat, n),
                     S!Line("answer", <<g.session, g.answer>>, n),
                     S!Line("count", r, n)>>
  OBVIOUS
<1>3. PICK m : m = [i \in 1 .. r |-> S!Line("event", i, n)]
  OBVIOUS
<1>4. PICK l : l = <<S!Line("end", g.revision \div Base, n),
                     S!Line("digit", g.revision % Base, n)>>
  OBVIOUS
<1>5. h \in Seq(Lines) /\ Len(h) = 4
  <2>1. \A x \in {h[1], h[2], h[3], h[4]} : x \in Lines
    BY <1>2 DEF S!Game, Lines, Values, S!Keys, S!Line
  <2>. QED
    BY <1>2, <2>1
<1>6. m \in Seq(Lines) /\ Len(m) = r
  BY <1>3 DEF Lines, Values, S!Keys, S!Line
<1>7. l \in Seq(Lines) /\ Len(l) = 2
  <2>1. \A x \in {l[1], l[2]} : x \in Lines
    BY <1>1, <1>4 DEF Lines, Values, S!Keys, S!Line
  <2>. QED
    BY <1>4, <2>1
<1>8. PICK k : k = h \o m
  OBVIOUS
<1>9. PICK f : f = k \o l
  OBVIOUS
<1>10. S!Text(g, n, r) = f
  BY <1>2, <1>3, <1>4, <1>8, <1>9 DEF S!Text
<1>11. /\ k \in Seq(Lines) /\ Len(k) = Len(h) + Len(m)
       /\ \A i \in 1 .. Len(h) + Len(m) :
             k[i] = IF i <= Len(h) THEN h[i] ELSE m[i - Len(h)]
  BY ONLY <1>5, <1>6, <1>8, ConcatProperties
<1>12. /\ f \in Seq(Lines) /\ Len(f) = Len(k) + Len(l)
       /\ \A i \in 1 .. Len(k) + Len(l) :
             f[i] = IF i <= Len(k) THEN k[i] ELSE l[i - Len(k)]
  <2>1. k \in Seq(Lines) /\ l \in Seq(Lines)
    BY <1>7, <1>11
  <2>. QED
    BY ONLY <2>1, <1>9, ConcatProperties
<1>13. Len(k) = 4 + r
  BY <1>5, <1>6, <1>11
<1>14. /\ k[1] = h[1] /\ k[2] = h[2] /\ k[3] = h[3] /\ k[4] = h[4]
       /\ r = 1 => k[5] = m[1]
  BY <1>5, <1>6, <1>11
<1>15. /\ f[1] = k[1] /\ f[2] = k[2] /\ f[3] = k[3] /\ f[4] = k[4]
       /\ r = 1 => f[5] = k[5]
       /\ f[5 + r] = l[1] /\ f[6 + r] = l[2] /\ Len(f) = 6 + r
  BY <1>7, <1>12, <1>13
<1>. QED
  BY <1>2, <1>3, <1>4, <1>10, <1>12, <1>14, <1>15

\* Two numbers at most MaxOverlap apart, one cut off, one not.
LEMMA Digits ==
    ASSUME NEW B \in Nat \ {0, 1}, NEW r \in Nat \ {0}, NEW a \in Nat, NEW b \in Nat,
           a <= b, b < B - 1
    PROVE  /\ ((r + a) \div B) * B + ((r + b) % B) = r => b = 0
           /\ (r + a) \div B # r
<1>1. /\ (r + a) \div B \in Int /\ ((r + a) % B) \in 0 .. B - 1
      /\ r + a = ((r + a) \div B) * B + ((r + a) % B)
  OBVIOUS
<1>2. /\ (r + b) \div B \in Int /\ ((r + b) % B) \in 0 .. B - 1
      /\ r + b = ((r + b) \div B) * B + ((r + b) % B)
  OBVIOUS
<1>3. ASSUME NEW q \in Int, NEW k \in Int, NEW m \in 0 .. B - 1,
             r = q * B + m, r + b = k * B + m
      PROVE  b = 0
  <2>1. b = (k - q) * B
    BY <1>3
  <2>2. k - q <= 0
    <3>1. SUFFICES ASSUME k - q >= 1 PROVE FALSE
      OBVIOUS
    <3>2. (k - q) * B >= B
      BY <3>1
    <3>. QED
      BY <2>1, <3>2
  <2>3. k - q >= 0
    <3>1. SUFFICES ASSUME k - q <= -1 PROVE FALSE
      OBVIOUS
    <3>2. (k - q) * B <= -B
      BY <3>1
    <3>. QED
      BY <2>1, <3>2
  <2>4. k - q = 0
    BY <2>2, <2>3
  <2>. QED
    BY <2>1, <2>4
<1>4. ((r + a) \div B) * B + ((r + b) % B) = r => b = 0
  BY <1>1, <1>2, <1>3
<1>5. (r + a) \div B # r
  <2>1. SUFFICES ASSUME (r + a) \div B = r PROVE FALSE
    OBVIOUS
  <2>2. r + a >= r * B
    BY <1>1, <2>1
  <2>3. r * B = r * (B - 1) + r
    OBVIOUS
  <2>4. r * (B - 1) >= B - 1
    OBVIOUS
  <2>. QED
    BY <2>2, <2>3, <2>4
<1>. QED
  BY <1>4, <1>5

\* The lines of a text, one after the other.
LEMMA LineShape ==
    ASSUME NEW g \in S!Game, NEW n \in Nat, NEW r \in 0 .. 1, Base \in Nat \ {0, 1},
           NEW i \in 1 .. 6 + r
    PROVE  \/ i = 1 /\ S!Text(g, n, r)[i] = S!Line("begin", g.revision, n)
           \/ i = 2 /\ S!Text(g, n, r)[i] = S!Line("heartbeat", g.heartbeat, n)
           \/ i = 3 /\ S!Text(g, n, r)[i] = S!Line("answer", <<g.session, g.answer>>, n)
           \/ i = 4 /\ S!Text(g, n, r)[i] = S!Line("count", r, n)
           \/ i = 5 /\ r = 1 /\ S!Text(g, n, r)[i] = S!Line("event", 1, n)
           \/ i = 5 + r /\ S!Text(g, n, r)[i] = S!Line("end", g.revision \div Base, n)
           \/ i = 6 + r /\ S!Text(g, n, r)[i] = S!Line("digit", g.revision % Base, n)
<1>1. PICK T : T = S!Text(g, n, r)
  OBVIOUS
<1>2. /\ T[1] = S!Line("begin", g.revision, n)
      /\ T[2] = S!Line("heartbeat", g.heartbeat, n)
      /\ T[3] = S!Line("answer", <<g.session, g.answer>>, n)
      /\ T[4] = S!Line("count", r, n)
      /\ r = 1 => T[5] = S!Line("event", 1, n)
      /\ T[5 + r] = S!Line("end", g.revision \div Base, n)
      /\ T[6 + r] = S!Line("digit", g.revision % Base, n)
  BY <1>1, TextShape
<1>. QED
  BY <1>1, <1>2

\* A text of n lines that come from the exports b .. x, each at its place and in
\* the order of the exports.
LinesOf(b, x, games, R, text, n, of) ==
    /\ b \in Nat \ {0} /\ x \in Nat /\ x - b < Base - 1 /\ n \in Nat /\ n = Len(text)
    /\ \A e \in b .. x :
         /\ games[e] \in S!Game /\ games[e].revision >= 1 /\ R[e] \in 0 .. 1
         /\ games[e].revision = games[b].revision + (e - b)
    /\ \A i \in 1 .. n :
         /\ of[i] \in b .. x /\ i <= 6 + R[of[i]]
         /\ text[i] = S!Text(games[of[i]], of[i], R[of[i]])[i]
    /\ \A i, j \in 1 .. n : i <= j => of[i] <= of[j]

\* Such a text that is the text of one of them.
TextOfOne(b, x, games, R, text, n) ==
    \E e \in b .. x :
        n = 6 + R[e] /\ \A i \in 1 .. n : text[i] = S!Text(games[e], e, R[e])[i]

\* If it begins and ends with one revision, it is one export's.
LEMMA OneText ==
    ASSUME Base \in Nat \ {0, 1}, None \notin Nat,
           NEW b, NEW x, NEW games, NEW R, NEW text, NEW n, NEW of,
           LinesOf(b, x, games, R, text, n, of), S!Framed(text)
    PROVE  TextOfOne(b, x, games, R, text, n)
<1> USE DEF LinesOf
<1>1. ASSUME NEW i \in 1 .. n
      PROVE  /\ i = 1 => text[i].value = games[of[i]].revision
             /\ text[i].key = "end" <=> i = 5 + R[of[i]]
             /\ text[i].key = "digit" <=> i = 6 + R[of[i]]
             /\ i = 5 + R[of[i]] => text[i].value = games[of[i]].revision \div Base
             /\ i = 6 + R[of[i]] => text[i].value = games[of[i]].revision % Base
  <2>1. PICK e : e = of[i]
    OBVIOUS
  <2>2. e \in b .. x /\ e \in Nat /\ games[e] \in S!Game /\ R[e] \in 0 .. 1
    BY <2>1
  <2>3. i \in 1 .. 6 + R[e] /\ text[i] = S!Text(games[e], e, R[e])[i]
    BY <2>1, <2>2
  <2>4. /\ i = 1 => text[i].value = games[e].revision
        /\ text[i].key = "end" <=> i = 5 + R[e]
        /\ text[i].key = "digit" <=> i = 6 + R[e]
        /\ i = 5 + R[e] => text[i].value = games[e].revision \div Base
        /\ i = 6 + R[e] => text[i].value = games[e].revision % Base
    <3>1. PICK g, r, line : g = games[e] /\ r = R[e] /\ line = text[i]
      OBVIOUS
    <3>2. /\ g \in S!Game /\ r \in 0 .. 1 /\ e \in Nat /\ Base \in Nat \ {0, 1}
          /\ i \in 1 .. 6 + r /\ line = S!Text(g, e, r)[i]
      BY <2>2, <2>3, <3>1
    <3>3. /\ i = 1 => line.value = g.revision
          /\ line.key = "end" <=> i = 5 + r
          /\ line.key = "digit" <=> i = 6 + r
          /\ i = 5 + r => line.value = g.revision \div Base
          /\ i = 6 + r => line.value = g.revision % Base
      <4>1. \/ i = 1 /\ line = S!Line("begin", g.revision, e)
            \/ i = 2 /\ line = S!Line("heartbeat", g.heartbeat, e)
            \/ i = 3 /\ line = S!Line("answer", <<g.session, g.answer>>, e)
            \/ i = 4 /\ line = S!Line("count", r, e)
            \/ i = 5 /\ r = 1 /\ line = S!Line("event", 1, e)
            \/ i = 5 + r /\ line = S!Line("end", g.revision \div Base, e)
            \/ i = 6 + r /\ line = S!Line("digit", g.revision % Base, e)
        BY ONLY <3>2, LineShape
      <4>. QED
        BY ONLY <3>2, <4>1 DEF S!Line
    <3>. QED
      BY ONLY <3>1, <3>3
  <2>. QED
    BY <2>1, <2>4
<1>2. n >= 2 /\ S!LastNumber(text) = text[1].value
  BY DEF S!Framed
<1>3. PICK first : first = games[of[1]].revision
  OBVIOUS
<1>4. text[1].value = first /\ of[1] \in b .. x /\ first \in Nat \ {0}
  <2>1. 1 \in 1 .. n
    BY <1>2
  <2>2. text[1].value = first /\ of[1] \in b .. x
    BY <1>1, <1>3, <2>1
  <2>3. games[of[1]] \in S!Game /\ first >= 1
    BY <1>3, <2>2
  <2>. QED
    BY <2>2, <2>3, <1>3 DEF S!Game
<1>5. ASSUME NEW i \in 1 .. n
      PROVE  /\ of[i] - of[1] \in Nat /\ of[i] <= of[n] /\ of[i] - of[1] < Base - 1
             /\ games[of[i]].revision = first + (of[i] - of[1])
  <2>1. /\ of[1] \in b .. x /\ of[i] \in b .. x /\ of[1] <= of[i] /\ of[i] <= of[n]
    <3>1. n \in Nat /\ n >= 2 /\ i \in 1 .. n /\ \A j \in 1 .. n : of[j] \in b .. x
      BY <1>2
    <3>2. \A j, k \in 1 .. n : j <= k => of[j] <= of[k]
      OBVIOUS
    <3>. QED
      BY ONLY <3>1, <3>2
  <2>2. /\ games[of[i]].revision = games[b].revision + (of[i] - b)
        /\ first = games[b].revision + (of[1] - b)
    BY <1>3, <2>1
  <2>3. games[b].revision \in Nat
    <3>1. b \in b .. x
      BY <2>1
    <3>2. games[b] \in S!Game
      BY <3>1
    <3>. QED
      BY ONLY <3>2 DEF S!Game
  <2>4. /\ of[1] \in Int /\ of[i] \in Int /\ of[1] >= b /\ of[i] <= x
        /\ b \in Int /\ x \in Int /\ x - b < Base - 1 /\ Base \in Int
    BY <2>1
  <2>5. of[i] - of[1] \in Nat /\ of[i] - of[1] < Base - 1
    BY ONLY <2>1, <2>4
  <2>6. games[of[i]].revision = first + (of[i] - of[1])
    BY ONLY <2>2, <2>3, <2>4
  <2>. QED
    BY <2>1, <2>5, <2>6
<1>6. /\ text[n].key = "digit" /\ text[n - 1].key = "end"
      /\ of[n] - of[1] = 0
  <2>1. n \in 1 .. n /\ n - 1 \in 1 .. n
    BY <1>2
  <2>2. PICK c : c = of[n] - of[1]
    OBVIOUS
  <2>3. c \in Nat /\ c < Base - 1 /\ games[of[n]].revision = first + c
    BY <1>5, <2>1, <2>2
  <2>4. CASE text[n].key = "digit" /\ text[n - 1].key = "end"
    <3>1. PICK a : a = of[n - 1] - of[1]
      OBVIOUS
    <3>2. a \in Nat /\ a <= c /\ games[of[n - 1]].revision = first + a
      <4>1. /\ a \in Nat /\ games[of[n - 1]].revision = first + a
            /\ of[n - 1] <= of[n]
        BY <1>5, <2>1, <3>1
      <4>2. of[1] \in Int /\ of[n] \in Int /\ of[n - 1] \in Int
        BY <1>4, <2>1
      <4>. QED
        BY ONLY <4>1, <4>2, <2>2, <3>1
    <3>3. text[n - 1].value = (first + a) \div Base
      BY <1>1, <2>1, <2>4, <3>2
    <3>4. text[n].value = (first + c) % Base
      BY <1>1, <2>1, <2>3, <2>4
    <3>5. text[n - 1].value * Base + text[n].value = first
      BY <1>2, <1>4, <2>4 DEF S!LastNumber
    <3>6. ((first + a) \div Base) * Base + ((first + c) % Base) = first
      BY <3>3, <3>4, <3>5
    <3>7. c = 0
      <4>1. /\ Base \in Nat \ {0, 1} /\ first \in Nat \ {0} /\ a \in Nat /\ c \in Nat
            /\ a <= c /\ c < Base - 1
        BY <1>4, <2>3, <3>2
      <4>2. ((first + a) \div Base) * Base + ((first + c) % Base) = first => c = 0
        BY ONLY <4>1, Digits, Zenon
      <4>. QED
        BY <3>6, <4>2
    <3>. QED
      BY <2>2, <2>4, <3>7
  <2>5. CASE ~(text[n].key = "digit" /\ text[n - 1].key = "end")
    <3>1. S!LastNumber(text) # None
      BY <1>2, <1>4
    <3>2. text[n].key = "end" /\ text[n].value = first
      BY <1>2, <1>4, <2>5, <3>1 DEF S!LastNumber
    <3>3. text[n].value = (first + c) \div Base
      BY <1>1, <2>1, <2>3, <3>2
    <3>4. c <= c /\ (first + c) \div Base # first
      BY ONLY <1>4, <2>3, Digits, Base \in Nat \ {0, 1}
    <3>. QED
      BY <3>2, <3>3, <3>4
  <2>. QED
    BY <2>4, <2>5
<1>7. ASSUME NEW i \in 1 .. n PROVE of[i] = of[1]
  <2>1. of[i] - of[1] \in Nat /\ of[i] <= of[n] /\ of[n] - of[1] = 0
    BY <1>5, <1>6
  <2>2. of[i] \in Int /\ of[1] \in Int /\ of[n] \in Int
    BY <1>2
  <2>. QED
    BY ONLY <2>1, <2>2
<1>8. n = 6 + R[of[1]]
  <2>1. n \in 1 .. n
    BY <1>2
  <2>2. n = 6 + R[of[n]]
    BY <1>1, <1>6, <2>1
  <2>. QED
    BY <1>7, <2>1, <2>2
<1>9. \A i \in 1 .. n : text[i] = S!Text(games[of[1]], of[1], R[of[1]])[i]
  BY <1>7
<1>. QED
  BY <1>4, <1>8, <1>9 DEF TextOfOne

\* A text the client accepts is that of one export which had begun by then and
\* not before the read.
LEMMA AcceptedWhole ==
    ASSUME Readable, FileType, FileInv, reader # None, S!Accepted(reader.text)
    PROVE  \E e \in reader.begun .. exported, r \in 0 .. 1 :
             /\ Len(reader.text) = 6 + r
             /\ \A i \in 1 .. 6 + r : reader.text[i] = S!Text(log[e], e, r)[i]
<1>1. PICK R \in [1 .. exported -> 0 .. 1] : Collected(R)
  BY DEF FileInv, Texts
<1>2. PICK text, games, n, b, x :
        /\ text = reader.text /\ games = log /\ n = Len(reader.text)
        /\ b = reader.begun /\ x = exported
  OBVIOUS
<1>3. PICK of : of = [i \in 1 .. n |-> text[i].of]
  OBVIOUS
<1>4. b \in Nat \ {0} /\ x \in Nat /\ n \in Nat /\ b \in 1 .. x
  BY <1>2 DEF FileType
<1>5. Base \in Nat \ {0, 1} /\ None \notin Nat /\ MaxOverlap \in Nat
  BY DEF Readable, S!BoundAssumption
<1>6. \A e \in b .. x : games[e] \in S!Game /\ games[e].revision >= 1 /\ R[e] \in 0 .. 1
  <2>1. \A e \in b .. x : e \in 1 .. exported
    BY <1>2, <1>4
  <2>2. \A e \in 1 .. exported : log[e] \in S!Game /\ R[e] \in 0 .. 1
    BY <1>1 DEF FileType
  <2>3. \A e \in 1 .. exported : log[e].revision >= 1
    BY DEF FileInv, Numbered
  <2>. QED
    BY <1>2, <2>1, <2>2, <2>3
<1>7. x - b < Base - 1
  BY <1>2, <1>4, <1>5 DEF FileInv, Succession, Readable
<1>8. \A e \in b .. x : games[e].revision = games[b].revision + (e - b)
  BY <1>2 DEF FileInv, Succession
<1>9. \A i \in 1 .. n :
        /\ of[i] \in b .. x /\ i <= 6 + R[of[i]]
        /\ text[i] = S!Text(games[of[i]], of[i], R[of[i]])[i]
  BY <1>1, <1>2, <1>3 DEF Collected
<1>10. \A i, j \in 1 .. n : i <= j => of[i] <= of[j]
  BY <1>1, <1>2, <1>3 DEF Collected
<1>11. LinesOf(b, x, games, R, text, n, of)
  BY <1>2, <1>4, <1>6, <1>7, <1>8, <1>9, <1>10 DEF LinesOf
<1>12. S!Framed(text)
  BY <1>2 DEF S!Accepted
<1>13. TextOfOne(b, x, games, R, text, n)
  BY <1>5, <1>11, <1>12, OneText, Zenon
<1>14. PICK e \in b .. x :
         n = 6 + R[e] /\ \A i \in 1 .. n : text[i] = S!Text(games[e], e, R[e])[i]
  BY <1>13 DEF TextOfOne
<1>. QED
  BY <1>2, <1>6, <1>14

\* The lines are the text of the game g in export n, with r records.
IsText(text, g, n, r) ==
    /\ text \in Seq(Lines) /\ Len(text) = 6 + r
    /\ \A i \in 1 .. 6 + r : text[i] = S!Text(g, n, r)[i]

\* What parse_snapshot_text makes of the text of one export.
LEMMA WholeRead ==
    ASSUME NEW g \in S!Game, NEW n \in Nat, NEW r \in 0 .. 1, Base \in Nat \ {0, 1},
           NEW text, IsText(text, g, n, r)
    PROVE  Shows(S!Snapshot(text), g, n)
<1> USE DEF IsText
<1>1. /\ text[1] = S!Line("begin", g.revision, n)
      /\ text[2] = S!Line("heartbeat", g.heartbeat, n)
      /\ text[3] = S!Line("answer", <<g.session, g.answer>>, n)
      /\ text[4] = S!Line("count", r, n)
      /\ r = 1 => text[5] = S!Line("event", 1, n)
      /\ text[5 + r] = S!Line("end", g.revision \div Base, n)
      /\ text[6 + r] = S!Line("digit", g.revision % Base, n)
  <2>1. PICK T : T = S!Text(g, n, r)
    OBVIOUS
  <2>2. /\ T[1] = S!Line("begin", g.revision, n)
        /\ T[2] = S!Line("heartbeat", g.heartbeat, n)
        /\ T[3] = S!Line("answer", <<g.session, g.answer>>, n)
        /\ T[4] = S!Line("count", r, n)
        /\ r = 1 => T[5] = S!Line("event", 1, n)
        /\ T[5 + r] = S!Line("end", g.revision \div Base, n)
        /\ T[6 + r] = S!Line("digit", g.revision % Base, n)
    BY <2>1, TextShape
  <2>3. \A i \in 1 .. 6 + r : text[i] = T[i]
    BY <2>1
  <2>. QED
    BY <2>2, <2>3
<1>2. /\ text[1].key = "begin" /\ text[1].value = g.revision
      /\ text[2].key = "heartbeat" /\ text[2].value = g.heartbeat
      /\ text[3].key = "answer" /\ text[3].value = <<g.session, g.answer>>
      /\ text[4].key = "count" /\ text[4].value = r
      /\ r = 1 => text[5].key = "event" /\ text[5].value = 1
      /\ text[5 + r].key = "end" /\ text[6 + r].key = "digit"
  BY <1>1 DEF S!Line
<1>3. \A i \in 1 .. 6 + r : text[i].of = n
  BY <1>1 DEF S!Line
<1>4. S!Inner(text) = 2 .. 4 + r
  <2>1. \A i \in 2 .. 4 + r : i # Len(text) - 1
    OBVIOUS
  <2>2. Len(text) - 1 = 5 + r /\ 5 + r + 1 = 6 + r
    OBVIOUS
  <2>3. \A i \in 2 .. 5 + r : i # 5 + r => i \in 2 .. 4 + r
    OBVIOUS
  <2>4. 2 .. 4 + r \subseteq 2 .. 5 + r
    OBVIOUS
  <2>. QED
    BY <1>2, <2>1, <2>2, <2>3, <2>4 DEF S!Inner
<1>5. S!Field(text, "heartbeat") = g.heartbeat
  <2>1. 2 \in S!Inner(text) /\ \A i \in S!Inner(text) : text[i].key = "heartbeat" => i = 2
    BY <1>2, <1>4
  <2>2. (CHOOSE i \in S!Inner(text) : text[i].key = "heartbeat") = 2
    BY <1>2, <2>1
  <2>. QED
    BY <1>2, <2>2 DEF S!Field
<1>6. S!Field(text, "answer") = <<g.session, g.answer>>
  <2>1. 3 \in S!Inner(text) /\ \A i \in S!Inner(text) : text[i].key = "answer" => i = 3
    BY <1>2, <1>4
  <2>2. (CHOOSE i \in S!Inner(text) : text[i].key = "answer") = 3
    BY <1>2, <2>1
  <2>. QED
    BY <1>2, <2>2 DEF S!Field
<1>7. S!Field(text, "count") = r
  <2>1. 4 \in S!Inner(text) /\ \A i \in S!Inner(text) : text[i].key = "count" => i = 4
    BY <1>2, <1>4
  <2>2. (CHOOSE i \in S!Inner(text) : text[i].key = "count") = 4
    BY <1>2, <2>1
  <2>. QED
    BY <1>2, <2>2 DEF S!Field
<1>8. S!RecordsWhole(text)
  <2>1. ASSUME NEW k \in 1 .. r
        PROVE  \E i \in S!Inner(text) : text[i].key = "event" /\ text[i].value = k
    <3>1. r = 1 /\ k = 1 /\ 5 \in S!Inner(text)
      BY <1>4
    <3>. QED
      BY <1>2, <3>1
  <2>. QED
    BY <1>7, <2>1 DEF S!RecordsWhole
<1>9. {text[i].of : i \in DOMAIN text} = {n}
  <2>1. DOMAIN text = 1 .. 6 + r
    OBVIOUS
  <2>. QED
    BY <1>3, <2>1
<1>10. S!Field(text, "answer")[1] = g.session /\ S!Field(text, "answer")[2] = g.answer
  BY <1>6
<1>11. PICK snap : snap = S!Snapshot(text)
  OBVIOUS
<1>12. snap.revision = g.revision
  BY <1>2, <1>11 DEF S!Snapshot
<1>13. snap.heartbeat = g.heartbeat
  BY <1>5, <1>11 DEF S!Snapshot
<1>14. snap.session = g.session /\ snap.answer = g.answer
  BY <1>10, <1>11 DEF S!Snapshot
<1>15. ~snap.malformed
  BY <1>8, <1>11 DEF S!Snapshot
<1>16. snap.exports = {n}
  BY <1>9, <1>11 DEF S!Snapshot
<1>. QED
  BY <1>11, <1>12, <1>13, <1>14, <1>15, <1>16 DEF Shows

\* So what the client takes from a text it accepts is one export.
LEMMA ReadIsExport ==
    ASSUME Readable, FileType, FileInv, reader # None, S!Accepted(reader.text)
    PROVE  \E e \in reader.begun .. exported : Shows(S!Read, log[e], e)
<1>1. PICK e \in reader.begun .. exported, r \in 0 .. 1 :
        /\ Len(reader.text) = 6 + r
        /\ \A i \in 1 .. 6 + r : reader.text[i] = S!Text(log[e], e, r)[i]
  BY AcceptedWhole
<1>2. PICK g, text : g = log[e] /\ text = reader.text
  OBVIOUS
<1>3. g \in S!Game /\ e \in Nat /\ Base \in Nat \ {0, 1}
  BY <1>1, <1>2 DEF FileType, Readable, S!BoundAssumption
<1>4. IsText(text, g, e, r)
  BY <1>1, <1>2 DEF FileType, IsText
<1>5. Shows(S!Snapshot(text), g, e)
  BY <1>3, <1>4, WholeRead
<1>. QED
  BY <1>2, <1>5 DEF S!Read

-----------------------------------------------------------------------------
(* The file, action by action.                                              *)

\* An export of g, which is the game with its answer, or the game loaded anew.
LEMMA ExportKeeps ==
    ASSUME Readable, FileType, FileInv, NEW g \in S!Game, S!Export(g), UNCHANGED reader,
           g.heartbeat >= -1, g.answer = "none" => g.session = 0,
           reader # None => g.revision = game.revision
    PROVE  /\ file' \in Seq(Lines) /\ unwritten' \in Seq(Lines) /\ game' \in S!Game
           /\ exported' \in Nat \ {0} /\ log' \in Seq(S!Game) /\ Len(log') = exported'
           /\ exported' = exported + 1
           /\ \A e \in 1 .. exported : log'[e] = log[e]
           /\ log'[exported'] = game'
           /\ game' = [g EXCEPT !.revision = @ + 1]
           /\ reader # None => reader \in [text: Seq(Lines), begun: 1 .. exported']
           /\ FileInv'
<1>1. /\ exported' = exported + 1 /\ file' = <<>> /\ game' = [g EXCEPT !.revision = @ + 1]
      /\ log' = Append(log, game') /\ exported \in Nat \ {0}
      /\ reader # None => exported - reader.begun < MaxOverlap
  BY DEF S!Export, S!MayOverlap, FileType
<1>2. game' \in S!Game /\ game'.revision = g.revision + 1 /\ game'.session = g.session
      /\ game'.heartbeat = g.heartbeat /\ game'.answer = g.answer
  BY <1>1 DEF S!Game
<1>3. /\ log' \in Seq(S!Game) /\ Len(log') = exported' /\ log'[exported'] = game'
      /\ \A e \in 1 .. exported : log'[e] = log[e]
  BY <1>1, <1>2 DEF FileType
<1>4. PICK records \in 0 .. 1 : unwritten' = S!Text(game', exported', records)
  BY DEF S!Export
<1>5. unwritten' \in Seq(Lines) /\ Len(unwritten') = 6 + records
  <2>1. PICK h, n, u : h = game' /\ n = exported' /\ u = unwritten'
    OBVIOUS
  <2>2. h \in S!Game /\ n \in Nat /\ Base \in Nat \ {0, 1}
    BY <1>1, <1>2, <2>1 DEF Readable, S!BoundAssumption
  <2>3. S!Text(h, n, records) \in Seq(Lines) /\ Len(S!Text(h, n, records)) = 6 + records
    BY <2>2, TextShape
  <2>. QED
    BY <1>4, <2>1, <2>3
<1>6. reader # None => reader \in [text: Seq(Lines), begun: 1 .. exported']
  BY <1>1 DEF FileType
<1>7. LogCurrent'
  BY <1>3 DEF LogCurrent
<1>8. Numbered'
  <2>1. \A e \in 1 .. exported' : e \in 1 .. exported \/ e = exported'
    BY <1>1
  <2>2. game'.revision >= 1 /\ game'.heartbeat >= -1
    BY <1>2 DEF S!Game
  <2>. QED
    BY <1>3, <2>1, <2>2 DEF FileInv, Numbered
<1>9. Unasked'
  <2>1. \A e \in 1 .. exported' : e \in 1 .. exported \/ e = exported'
    BY <1>1
  <2>. QED
    BY <1>2, <1>3, <2>1 DEF FileInv, Unasked
<1>10. Texts'
  <2>1. PICK R \in [1 .. exported -> 0 .. 1] : Collected(R)
    BY DEF FileInv, Texts
  <2>2. PICK Q : Q = [e \in 1 .. exported' |-> IF e = exported' THEN records ELSE R[e]]
    OBVIOUS
  <2>3. /\ Q \in [1 .. exported' -> 0 .. 1] /\ Q[exported'] = records
        /\ \A e \in 1 .. exported : Q[e] = R[e]
    BY <1>1, <2>2
  <2>4. Printed(Q)'
    <3>1. Len(file') = 0
      BY <1>1
    <3>2. \A i \in 1 .. Len(unwritten') :
            unwritten'[i] = S!Text(game', exported', Q[exported'])[Len(file') + i]
      BY <1>4, <1>5, <2>3, <3>1
    <3>. QED
      BY <1>5, <2>3, <3>1, <3>2 DEF Printed
  <2>5. Collected(Q)'
    <3>1. SUFFICES ASSUME reader # None PROVE Collected(Q)'
      BY DEF Collected
    <3>2. \A i \in 1 .. Len(reader.text) :
            /\ reader.text[i].of \in reader.begun .. exported
            /\ i <= 6 + R[reader.text[i].of]
            /\ reader.text[i] =
                 S!Text(log[reader.text[i].of], reader.text[i].of, R[reader.text[i].of])[i]
      BY <2>1, <3>1 DEF Collected
    <3>3. \A e \in reader.begun .. exported :
            /\ e \in reader.begun .. exported'
            /\ Q[e] = R[e] /\ log'[e] = log[e]
      <4>1. reader.begun \in 1 .. exported /\ exported \in Nat
        BY <3>1 DEF FileType
      <4>2. exported' = exported + 1
        BY <1>1
      <4>3. ASSUME NEW e \in reader.begun .. exported
            PROVE  e \in 1 .. exported /\ e \in reader.begun .. exported'
        BY <4>1, <4>2
      <4>4. QED
        BY <1>3, <2>3, <4>3
    <3>4. \A i \in 1 .. Len(reader.text) :
            /\ reader.text[i].of \in reader.begun .. exported'
            /\ i <= 6 + Q[reader.text[i].of]
            /\ reader.text[i] =
                 S!Text(log'[reader.text[i].of], reader.text[i].of, Q[reader.text[i].of])[i]
      BY <3>2, <3>3
    <3>. QED
      BY <2>1, <3>1, <3>4 DEF Collected
  <2>. QED
    BY <2>3, <2>4, <2>5 DEF Texts
<1>11. Succession'
  <2>1. SUFFICES ASSUME reader # None PROVE Succession'
    BY DEF Succession
  <2>2. PICK b : b = reader.begun
    OBVIOUS
  <2>3. /\ b \in 1 .. exported /\ exported - b < MaxOverlap /\ MaxOverlap \in Nat
        /\ \A e \in b .. exported : log[e].revision = log[b].revision + (e - b)
    BY <1>1, <2>1, <2>2 DEF FileType, FileInv, Succession, Readable, S!BoundAssumption
  <2>4. exported' <= b + MaxOverlap
    BY <1>1, <2>3
  <2>5. /\ log[exported].revision = game.revision /\ game.revision \in Int
        /\ log[b].revision \in Int
    <3>1. log[exported] = game
      BY DEF FileInv, LogCurrent
    <3>2. game \in S!Game /\ log[b] \in S!Game
      BY <2>3 DEF FileType
    <3>. QED
      BY ONLY <3>1, <3>2 DEF S!Game
  <2>6. log'[exported'].revision = log[b].revision + (exported' - b)
    <3>1. PICK r, q, n : /\ r = log[b].revision /\ q = game.revision
                         /\ n = log'[exported'].revision
      OBVIOUS
    <3>2. q = r + (exported - b)
      <4>1. exported \in b .. exported
        BY <1>1, <2>3
      <4>2. log[exported].revision = log[b].revision + (exported - b)
        BY ONLY <2>3, <4>1
      <4>. QED
        BY <2>5, <3>1, <4>2
    <3>3. n = q + 1
      BY <1>2, <1>3, <2>1, <3>1
    <3>4. exported \in Int /\ b \in Int /\ r \in Int /\ exported' = exported + 1
      BY <1>1, <2>3, <2>5, <3>1
    <3>5. n = r + (exported' - b)
      BY ONLY <3>2, <3>3, <3>4
    <3>. QED
      BY <3>1, <3>5
  <2>7. \A e \in b .. exported' : e \in b .. exported \/ e = exported'
    BY <1>1, <2>3
  <2>8. \A e \in b .. exported : log'[e] = log[e]
    BY <1>3, <2>3
  <2>9. log'[b] = log[b]
    BY <1>3, <2>3
  <2>10. \A e \in b .. exported' : log'[e].revision = log'[b].revision + (e - b)
    BY <2>3, <2>6, <2>7, <2>8, <2>9
  <2>. QED
    BY <2>2, <2>4, <2>10 DEF Succession
<1>. QED
  BY <1>1, <1>2, <1>3, <1>5, <1>6, <1>7, <1>8, <1>9, <1>10, <1>11 DEF FileInv

\* Writing moves a line from what is unwritten to the file.
LEMMA WriteKeeps ==
    ASSUME FileType, FileInv, S!Write
    PROVE  FileType' /\ FileInv'
<1>1. /\ unwritten # <<>> /\ unwritten \in Seq(Lines) /\ file \in Seq(Lines)
      /\ file' = Append(file, Head(unwritten)) /\ unwritten' = Tail(unwritten)
  BY DEF S!Write, S!Writing, FileType
<1>2. /\ file' \in Seq(Lines) /\ Len(file') = Len(file) + 1
      /\ \A i \in 1 .. Len(file) : file'[i] = file[i]
      /\ file'[Len(file) + 1] = unwritten[1]
  BY <1>1
<1>3. /\ unwritten' \in Seq(Lines) /\ Len(unwritten') = Len(unwritten) - 1
      /\ Len(unwritten) \in Nat \ {0}
      /\ \A i \in 1 .. Len(unwritten') : unwritten'[i] = unwritten[i + 1]
  BY <1>1
<1>4. UNCHANGED <<game, reloads, queue, client, asked, reader, exported, log, sentAt>>
  BY DEF S!Write
<1>5. FileType'
  BY <1>2, <1>3, <1>4 DEF FileType
<1>6. ASSUME NEW R \in [1 .. exported -> 0 .. 1], Printed(R)
      PROVE  Printed(R)'
  <2>1. PICK T : T = S!Text(game, exported, R[exported])
    OBVIOUS
  <2>2. /\ Len(file) + Len(unwritten) = 6 + R[exported]
        /\ \A i \in 1 .. Len(file) : file[i] = T[i]
        /\ \A i \in 1 .. Len(unwritten) : unwritten[i] = T[Len(file) + i]
    BY <1>1, <1>6, <2>1 DEF Printed
  <2>3. Len(file) \in Nat
    BY <1>1
  <2>4. Len(file') + Len(unwritten') = 6 + R[exported]
    BY <1>2, <1>3, <2>2, <2>3
  <2>5. file'[Len(file) + 1] = T[Len(file) + 1]
    BY <1>2, <1>3, <2>2
  <2>6. \A i \in 1 .. Len(file') : file'[i] = T[i]
    <3>1. \A i \in 1 .. Len(file') : i \in 1 .. Len(file) \/ i = Len(file) + 1
      BY <1>2, <2>3
    <3>. QED
      BY <1>2, <2>2, <2>5, <3>1
  <2>7. ASSUME NEW i \in 1 .. Len(unwritten')
        PROVE  unwritten'[i] = T[Len(file') + i]
    <3>1. i + 1 \in 1 .. Len(unwritten) /\ Len(file) + (i + 1) = Len(file') + i
      BY <1>2, <1>3, <2>3
    <3>. QED
      BY <1>3, <2>2, <3>1
  <2>. QED
    BY <1>4, <2>1, <2>4, <2>6, <2>7 DEF Printed
<1>7. \A R : Collected(R) => Collected(R)'
  BY <1>4 DEF Collected
<1>8. Texts'
  BY <1>4, <1>6, <1>7 DEF FileInv, Texts
<1>. QED
  BY <1>4, <1>5, <1>8 DEF FileInv, LogCurrent, Numbered, Unasked, Succession

\* Every line of a text tells the export it is of.
LEMMA TextOf ==
    ASSUME NEW g \in S!Game, NEW n \in Nat, NEW r \in 0 .. 1, Base \in Nat \ {0, 1},
           NEW i \in 1 .. 6 + r
    PROVE  S!Text(g, n, r)[i].of = n
<1>1. PICK line : line = S!Text(g, n, r)[i]
  OBVIOUS
<1>2. \/ i = 1 /\ line = S!Line("begin", g.revision, n)
      \/ i = 2 /\ line = S!Line("heartbeat", g.heartbeat, n)
      \/ i = 3 /\ line = S!Line("answer", <<g.session, g.answer>>, n)
      \/ i = 4 /\ line = S!Line("count", r, n)
      \/ i = 5 /\ r = 1 /\ line = S!Line("event", 1, n)
      \/ i = 5 + r /\ line = S!Line("end", g.revision \div Base, n)
      \/ i = 6 + r /\ line = S!Line("digit", g.revision % Base, n)
  BY <1>1, LineShape
<1>. QED
  BY ONLY <1>1, <1>2 DEF S!Line

\* One read takes what the file has beyond what was read.
LEMMA MoreRead ==
    ASSUME NEW text \in Seq(Lines), NEW f \in Seq(Lines), Len(f) > Len(text)
    PROVE  LET more == text \o SubSeq(f, Len(text) + 1, Len(f))
           IN  /\ more \in Seq(Lines) /\ Len(more) = Len(f)
               /\ \A i \in 1 .. Len(f) :
                    more[i] = IF i <= Len(text) THEN text[i] ELSE f[i]
<1>1. PICK k, l : k = Len(text) /\ l = Len(f)
  OBVIOUS
<1>2. k \in Nat /\ l \in Nat /\ l > k
  BY <1>1
<1>3. PICK rest : rest = SubSeq(f, k + 1, l)
  OBVIOUS
<1>4. /\ rest \in Seq(Lines) /\ Len(rest) = l - k
      /\ \A i \in 1 .. l - k : rest[i] = f[k + i]
  <2>1. /\ Len(rest) = IF k + 1 <= l THEN l - (k + 1) + 1 ELSE 0
        /\ \A i \in 1 .. l - (k + 1) + 1 : rest[i] = f[(k + 1) + i - 1]
    BY <1>1, <1>2, <1>3, SubSeqProperties
  <2>2. Len(rest) = l - k /\ l - (k + 1) + 1 = l - k
    BY <1>2, <2>1
  <2>3. \A i \in 1 .. l - k : rest[i] = f[k + i]
    BY <1>2, <2>1, <2>2
  <2>4. rest \in Seq(Lines)
    BY <1>1, <1>2, <1>3
  <2>. QED
    BY <2>2, <2>3, <2>4
<1>5. PICK more : more = text \o rest
  OBVIOUS
<1>6. /\ more \in Seq(Lines) /\ Len(more) = Len(text) + Len(rest)
      /\ \A i \in 1 .. Len(text) + Len(rest) :
            more[i] = IF i <= Len(text) THEN text[i] ELSE rest[i - Len(text)]
  BY ONLY <1>4, <1>5, text \in Seq(Lines), ConcatProperties
<1>7. Len(more) = l
  BY <1>1, <1>2, <1>4, <1>6
<1>8. ASSUME NEW i \in 1 .. l
      PROVE  more[i] = IF i <= k THEN text[i] ELSE f[i]
  <2>1. i \in 1 .. Len(text) + Len(rest)
    BY <1>1, <1>2, <1>4
  <2>2. more[i] = IF i <= k THEN text[i] ELSE rest[i - k]
    BY <1>1, <1>6, <2>1
  <2>3. CASE i <= k
    BY <2>2, <2>3
  <2>4. CASE ~(i <= k)
    <3>1. i - k \in 1 .. l - k /\ k + (i - k) = i
      BY <1>2, <2>4
    <3>. QED
      BY <1>4, <2>2, <2>4, <3>1
  <2>. QED
    BY <2>3, <2>4
<1>. QED
  BY <1>1, <1>3, <1>5, <1>6, <1>7, <1>8

LEMMA ReadMoreKeeps ==
    ASSUME Readable, FileType, FileInv, S!ReadMore
    PROVE  FileType' /\ FileInv'
<1>1. /\ reader # None /\ reader \in [text: Seq(Lines), begun: 1 .. exported]
      /\ Len(file) > Len(reader.text) /\ file \in Seq(Lines)
      /\ exported \in Nat \ {0}
  BY DEF S!ReadMore, FileType
<1>2. PICK text, more : /\ text = reader.text
                        /\ more = text \o SubSeq(file, Len(text) + 1, Len(file))
  OBVIOUS
<1>3. text \in Seq(Lines) /\ Len(file) > Len(text)
  BY <1>1, <1>2
<1>4. /\ more \in Seq(Lines) /\ Len(more) = Len(file)
      /\ \A i \in 1 .. Len(file) : more[i] = IF i <= Len(text) THEN text[i] ELSE file[i]
  BY <1>1, <1>2, <1>3, MoreRead
<1>5. reader' = [reader EXCEPT !.text = more]
  BY <1>2 DEF S!ReadMore
<1>6. /\ reader' \in [text: Seq(Lines), begun: 1 .. exported]
      /\ reader'.text = more /\ reader'.begun = reader.begun
  BY <1>1, <1>4, <1>5
<1>7. UNCHANGED <<file, unwritten, game, exported, log, reloads, queue, client, asked,
                  sentAt>>
  BY DEF S!ReadMore, S!gameVars
<1>8. FileType'
  BY <1>6, <1>7 DEF FileType
<1>9. PICK R \in [1 .. exported -> 0 .. 1] : Printed(R) /\ Collected(R)
  BY DEF FileInv, Texts
<1>10. /\ Len(file) + Len(unwritten) = 6 + R[exported]
       /\ \A i \in 1 .. Len(file) : file[i] = S!Text(game, exported, R[exported])[i]
  <2>1. file # <<>>
    BY <1>1, <1>3
  <2>. QED
    BY <1>9, <2>1 DEF Printed
<1>11. /\ game \in S!Game /\ R[exported] \in 0 .. 1 /\ Len(file) \in Nat
       /\ Len(file) <= 6 + R[exported] /\ Base \in Nat \ {0, 1} /\ log[exported] = game
  <2>1. Len(unwritten) \in Nat /\ Len(file) \in Nat /\ game \in S!Game
    BY DEF FileType
  <2>2. R[exported] \in 0 .. 1
    BY <1>1, <1>9
  <2>. QED
    BY <1>10, <2>1, <2>2 DEF FileInv, LogCurrent, Readable, S!BoundAssumption
<1>12. ASSUME NEW i \in 1 .. Len(file)
       PROVE  file[i].of = exported /\ i <= 6 + R[exported]
  <2>1. i \in 1 .. 6 + R[exported]
    BY <1>11
  <2>2. PICK g, r, n : g = game /\ r = R[exported] /\ n = exported
    OBVIOUS
  <2>3. g \in S!Game /\ r \in 0 .. 1 /\ n \in Nat
    BY <1>1, <1>11, <2>2
  <2>4. S!Text(g, n, r)[i].of = n
    BY <1>11, <2>1, <2>2, <2>3, TextOf
  <2>. QED
    BY <1>10, <2>1, <2>2, <2>4
<1>13. \A i \in 1 .. Len(text) :
         /\ text[i].of \in reader.begun .. exported
         /\ i <= 6 + R[text[i].of]
         /\ text[i] = S!Text(log[text[i].of], text[i].of, R[text[i].of])[i]
  BY <1>1, <1>2, <1>9 DEF Collected
<1>14. \A i, j \in 1 .. Len(text) : i <= j => text[i].of <= text[j].of
  BY <1>1, <1>2, <1>9 DEF Collected
<1>15. \A i \in 1 .. Len(more) : i \in 1 .. Len(text) \/ i \notin 1 .. Len(text)
  OBVIOUS
<1>16. \A i \in 1 .. Len(more) :
         /\ i \in 1 .. Len(file)
         /\ i \in 1 .. Len(text) => more[i] = text[i]
         /\ i \notin 1 .. Len(text) => i > Len(text) /\ more[i] = file[i]
  BY <1>1, <1>3, <1>4
<1>17. ASSUME NEW i \in 1 .. Len(more)
       PROVE  /\ more[i].of \in reader.begun .. exported
              /\ i <= 6 + R[more[i].of]
              /\ more[i] = S!Text(log[more[i].of], more[i].of, R[more[i].of])[i]
  <2>1. CASE i \in 1 .. Len(text)
    BY <1>13, <1>16, <2>1
  <2>2. CASE i \notin 1 .. Len(text)
    <3>1. more[i] = file[i] /\ i \in 1 .. Len(file)
      BY <1>16, <2>2
    <3>2. more[i].of = exported /\ i <= 6 + R[exported]
      BY <1>12, <3>1
    <3>3. more[i] = S!Text(log[exported], exported, R[exported])[i]
      BY <1>10, <1>11, <3>1
    <3>4. exported \in reader.begun .. exported
      BY <1>1
    <3>. QED
      BY <3>2, <3>3, <3>4
  <2>. QED
    BY <2>1, <2>2
<1>18. ASSUME NEW i \in 1 .. Len(more), NEW j \in 1 .. Len(more), i <= j
       PROVE  more[i].of <= more[j].of
  <2>1. CASE j \in 1 .. Len(text)
    <3>1. i \in 1 .. Len(text)
      BY <1>3, <1>18, <2>1
    <3>. QED
      BY <1>14, <1>16, <1>18, <2>1, <3>1
  <2>2. CASE j \notin 1 .. Len(text)
    <3>1. more[j].of = exported
      BY <1>12, <1>16, <2>2
    <3>2. more[i].of \in reader.begun .. exported
      BY <1>17
    <3>. QED
      BY <1>1, <3>1, <3>2
  <2>. QED
    BY <2>1, <2>2
<1>19. Collected(R)'
  BY <1>6, <1>7, <1>17, <1>18 DEF Collected
<1>20. Texts'
  BY <1>7, <1>9, <1>19 DEF Texts, Printed
<1>21. Succession'
  BY <1>1, <1>6, <1>7 DEF FileInv, Succession
<1>. QED
  BY <1>7, <1>8, <1>20, <1>21 DEF FileInv, LogCurrent, Numbered, Unasked

\* What a form makes of the game: it asks of the game, whose revision the export
\* raises, and only a hello changes its session.
LEMMA FormEffect ==
    ASSUME FileType, FileInv, NEW form \in Sent
    PROVE  /\ S!AfterForm(form) \in S!Game
           /\ S!AfterForm(form).revision = game.revision
           /\ S!AfterForm(form).heartbeat >= -1
           /\ S!AfterForm(form).answer = "none" => S!AfterForm(form).session = 0
           /\ form.kind = "hello" => S!AfterForm(form).session = form.session
           /\ form.kind # "hello" => S!AfterForm(form).session = game.session
           /\ form.kind = "query" => S!AfterForm(form).heartbeat = game.heartbeat
<1>1. /\ game \in S!Game /\ game.heartbeat >= -1
      /\ game.answer = "none" => game.session = 0
  BY DEF FileType, FileInv, LogCurrent, Numbered, Unasked
<1>2. /\ form.kind \in {"path", "hello", "ping", "query"}
      /\ form.session \in 0 .. MaxSessions /\ form.sequence \in Nat
  BY DEF Sent
<1>3. PICK g : g = S!AfterForm(form)
  OBVIOUS
<1>4. CASE form.kind = "path"
  <2>1. g = game
    BY <1>3, <1>4 DEF S!AfterForm
  <2>. QED
    BY <1>1, <1>3, <1>4, <2>1
<1>5. CASE form.kind = "hello"
  <2>1. g = [game EXCEPT !.session = form.session, !.heartbeat = -1, !.answer = "hello"]
    BY <1>3, <1>5 DEF S!AfterForm
  <2>. QED
    <3>1. /\ g.revision = game.revision /\ g.session = form.session
          /\ g.heartbeat = -1 /\ g.answer = "hello"
      BY <1>1, <2>1 DEF S!Game
    <3>2. g \in S!Game
      <4>1. g = [revision |-> game.revision, session |-> form.session,
                 heartbeat |-> -1, answer |-> "hello"]
        BY <1>1, <2>1 DEF S!Game
      <4>. QED
        BY <1>1, <1>2, <4>1 DEF S!Game
    <3>. QED
      BY <1>3, <1>5, <3>1, <3>2
<1>6. CASE form.kind = "ping"
  <2>1. g = S!Ponged(form)
    BY <1>3, <1>6 DEF S!AfterForm
  <2>2. \/ g = [game EXCEPT !.heartbeat = form.sequence, !.answer = "pong"]
        \/ g = [game EXCEPT !.answer = "refused"]
    BY <2>1 DEF S!Ponged
  <2>. QED
    <3>1. /\ g.revision = game.revision /\ g.session = game.session
          /\ g.heartbeat \in {form.sequence, game.heartbeat}
          /\ g.answer \in {"pong", "refused"}
      BY <1>1, <2>2 DEF S!Game
    <3>2. g \in S!Game
      <4>1. \/ g = [revision |-> game.revision, session |-> game.session,
                    heartbeat |-> form.sequence, answer |-> "pong"]
            \/ g = [revision |-> game.revision, session |-> game.session,
                    heartbeat |-> game.heartbeat, answer |-> "refused"]
        BY <1>1, <2>2 DEF S!Game
      <4>. QED
        BY <1>1, <1>2, <4>1 DEF S!Game
    <3>. QED
      BY <1>1, <1>2, <1>3, <1>6, <3>1, <3>2
<1>7. CASE form.kind = "query"
  <2>1. PICK answer \in {"query", "refused"} : g = [game EXCEPT !.answer = answer]
    BY <1>3, <1>7 DEF S!AfterForm
  <2>. QED
    BY <1>1, <1>2, <1>3, <1>7, <2>1 DEF S!Game
<1>. QED
  BY <1>2, <1>4, <1>5, <1>6, <1>7

LEMMA EvaluateKeeps ==
    ASSUME Readable, FileType, FileInv, S!Evaluate
    PROVE  FileType' /\ FileInv'
<1>1. queue # <<>> /\ queue \in Seq(Sent) /\ Head(queue) \in Sent
  BY DEF S!Evaluate, FileType
<1>2. PICK g : g = S!AfterForm(Head(queue))
  OBVIOUS
<1>3. /\ g \in S!Game /\ g.revision = game.revision /\ g.heartbeat >= -1
      /\ g.answer = "none" => g.session = 0
  BY <1>1, <1>2, FormEffect
<1>4. /\ S!Export(g) /\ queue' = Tail(queue)
      /\ UNCHANGED <<reloads, client, asked, reader, sentAt>>
  BY <1>2 DEF S!Evaluate
<1>5. /\ file' \in Seq(Lines) /\ unwritten' \in Seq(Lines) /\ game' \in S!Game
      /\ exported' \in Nat \ {0} /\ log' \in Seq(S!Game) /\ Len(log') = exported'
      /\ exported' = exported + 1
      /\ reader # None => reader \in [text: Seq(Lines), begun: 1 .. exported']
      /\ FileInv'
  BY <1>3, <1>4, ExportKeeps
<1>6. queue' \in Seq(Sent) /\ sentAt' \in 0 .. exported'
  BY <1>1, <1>4, <1>5 DEF FileType
<1>. QED
  BY <1>4, <1>5, <1>6 DEF FileType

LEMMA FreshGame ==
    ASSUME Readable
    PROVE  /\ S!Fresh \in S!Game /\ S!Fresh.heartbeat = -1 /\ S!Fresh.session = 0
           /\ S!Fresh.revision = 0 /\ S!Fresh.answer = "none"
BY DEF S!Fresh, S!Game, Readable, S!BoundAssumption

LEMMA ReloadKeeps ==
    ASSUME Readable, FileType, FileInv, S!Reload
    PROVE  FileType' /\ FileInv'
<1>1. /\ S!Export(S!Fresh) /\ reader = None /\ reloads < MaxReloads /\ reloads' = reloads + 1
      /\ UNCHANGED <<queue, client, asked, reader, sentAt>>
  BY DEF S!Reload, Readable
<1>2. /\ S!Fresh \in S!Game /\ S!Fresh.heartbeat >= -1 /\ S!Fresh.session = 0
  BY FreshGame
<1>3. /\ file' \in Seq(Lines) /\ unwritten' \in Seq(Lines) /\ game' \in S!Game
      /\ exported' \in Nat \ {0} /\ log' \in Seq(S!Game) /\ Len(log') = exported'
      /\ exported' = exported + 1
      /\ FileInv'
  BY <1>1, <1>2, ExportKeeps
<1>4. reloads' \in 0 .. MaxReloads /\ sentAt' \in 0 .. exported'
  BY <1>1, <1>3 DEF FileType, Readable, S!BoundAssumption
<1>. QED
  BY <1>1, <1>3, <1>4 DEF FileType

LEMMA StartReadKeeps ==
    ASSUME Readable, FileType, FileInv, S!StartRead
    PROVE  FileType' /\ FileInv'
<1>1. /\ reader' = [text |-> <<>>, begun |-> exported]
      /\ UNCHANGED <<file, unwritten, game, exported, log, reloads, queue, client, asked,
                     sentAt>>
  BY DEF S!StartRead, S!gameVars
<1>2. /\ reader' \in [text: Seq(Lines), begun: 1 .. exported]
      /\ Len(reader'.text) = 0 /\ reader'.begun = exported /\ exported \in Nat \ {0}
  BY <1>1 DEF FileType
<1>3. FileType'
  BY <1>1, <1>2 DEF FileType
<1>4. \A R : Collected(R)'
  BY <1>2 DEF Collected
<1>5. Texts'
  BY <1>1, <1>4 DEF FileInv, Texts, Printed
<1>6. Succession'
  <2>1. \A e \in exported .. exported : e = exported
    BY <1>2
  <2>2. log[exported].revision \in Int /\ MaxOverlap \in Nat
    <3>1. log[exported] \in S!Game
      BY <1>2 DEF FileType
    <3>. QED
      BY <3>1 DEF S!Game, Readable, S!BoundAssumption
  <2>3. \A e \in exported .. exported :
          log[e].revision = log[exported].revision + (e - exported)
    BY <1>2, <2>1, <2>2
  <2>. QED
    BY <1>1, <1>2, <2>2, <2>3 DEF Succession
<1>. QED
  BY <1>1, <1>3, <1>5, <1>6 DEF FileInv, LogCurrent, Numbered, Unasked

LEMMA AttachKeeps ==
    ASSUME Readable, FileType, FileInv, S!Attach
    PROVE  FileType' /\ FileInv'
<1>1. /\ client.phase = "closed" /\ client.session < MaxSessions /\ unwritten = <<>>
      /\ client' = [client EXCEPT !.phase = "path", !.session = @ + 1,
                                  !.next = 0, !.previous = -1, !.last = -1]
      /\ file' = <<>> /\ sentAt' = exported
      /\ queue' = Append(queue, [kind |-> "path", session |-> client'.session,
                                 sequence |-> 0])
      /\ UNCHANGED <<unwritten, game, exported, log, reloads, asked, reader>>
  BY DEF S!Attach, S!Writing
<1>2. /\ client' \in [phase: S!Phases, session: 0 .. MaxSessions, next: Nat,
                      previous: Int, last: Int]
      /\ client'.session \in 1 .. MaxSessions
  <2>1. /\ client \in [phase: S!Phases, session: 0 .. MaxSessions, next: Nat,
                        previous: Int, last: Int]
        /\ MaxSessions \in Nat
    BY DEF FileType, Readable, S!BoundAssumption
  <2>2. client.session + 1 \in 1 .. MaxSessions
    BY <1>1, <2>1
  <2>3. client' = [phase |-> "path", session |-> client.session + 1, next |-> 0,
                   previous |-> -1, last |-> -1]
    BY <1>1, <2>1
  <2>. QED
    BY <2>2, <2>3 DEF S!Phases
<1>3. queue' \in Seq(Sent)
  <2>1. [kind |-> "path", session |-> client'.session, sequence |-> 0] \in Sent
    BY <1>2 DEF Sent
  <2>. QED
    BY <1>1, <2>1 DEF FileType
<1>4. FileType'
  BY <1>1, <1>2, <1>3 DEF FileType
<1>5. Texts'
  BY <1>1 DEF FileInv, Texts, Printed, Collected
<1>. QED
  BY <1>1, <1>4, <1>5 DEF FileInv, LogCurrent, Numbered, Unasked, Succession

\* The client's other actions leave the file alone, and end the read if they
\* touch it.
LEMMA ClientKeepsFile ==
    ASSUME FileInv, UNCHANGED S!gameVars, reader' \in {reader, None}
    PROVE  FileInv'
<1>1. UNCHANGED <<file, unwritten, game, exported, log>>
  BY DEF S!gameVars
<1>2. \A R : Collected(R) => Collected(R)'
  BY <1>1 DEF Collected
<1>3. Texts'
  BY <1>1, <1>2 DEF FileInv, Texts, Printed
<1>. QED
  BY <1>1, <1>3 DEF FileInv, LogCurrent, Numbered, Unasked, Succession

\* A form the client sends has its session.
LEMMA FormTyped ==
    ASSUME FileType, Known, client.phase # "closed",
           NEW kind \in {"path", "hello", "ping", "query"}, NEW sequence \in Nat,
           S!Sends(S!Form(kind, sequence))
    PROVE  queue' \in Seq(Sent) /\ sentAt' \in 0 .. exported
<1>1. client.session \in 1 .. MaxSessions
  BY DEF FileType, Known
<1>2. S!Form(kind, sequence) \in Sent
  BY <1>1 DEF S!Form, Sent
<1>. QED
  BY <1>2 DEF S!Sends, FileType

\* What is read of a text that is accepted are numbers.
LEMMA ReadNumbers ==
    ASSUME Readable, FileType, FileInv, reader # None, S!Accepted(reader.text)
    PROVE  S!Read.revision \in Int /\ S!Read.heartbeat + 1 \in Nat
<1>1. PICK e \in reader.begun .. exported : Shows(S!Read, log[e], e)
  BY ReadIsExport
<1>2. e \in 1 .. exported /\ log[e] \in S!Game
  BY <1>1 DEF FileType
<1>3. log[e].heartbeat >= -1
  BY <1>2 DEF FileInv, Numbered
<1>. QED
  BY <1>1, <1>2, <1>3 DEF Shows, S!Game

-----------------------------------------------------------------------------
(* The dialog, action by action.                                            *)

\* Nothing the dialog knows changes but the reader, which ends or goes on.
LEMMA SameDialog ==
    ASSUME DialogInv,
           UNCHANGED <<game, queue, client, exported, log, sentAt>>,
           \/ reader' = None
           \/ reader # None /\ reader'.begun = reader.begun
    PROVE  DialogInv'
<1>1. ReadsInWait'
  BY DEF DialogInv, ReadsInWait, S!Polling
<1>2. Known' /\ OnPath' /\ AtRest' /\ Counted'
  BY DEF DialogInv, Known, OnPath, AtRest, Counted
<1>3. \A e \in sentAt .. exported : Answering(log[e])' <=> Answering(log[e])
  BY DEF Answering
<1>4. Pending'
  BY <1>3 DEF DialogInv, Pending, Awaiting, Own, Answering
<1>5. Served'
  BY <1>3 DEF DialogInv, Served, Awaiting, Answering
<1>. QED
  BY <1>1, <1>2, <1>4, <1>5 DEF DialogInv

\* An export makes the log longer, and what it had stays.
LEMMA Longer ==
    ASSUME FileType, exported' = exported + 1, \A e \in 1 .. exported : log'[e] = log[e],
           sentAt >= 1
    PROVE  /\ exported' \in Nat /\ sentAt \in 1 .. exported
           /\ \A e \in sentAt .. exported' : e = exported' \/ e \in sentAt .. exported
           /\ \A e \in sentAt .. exported : log'[e] = log[e] /\ e \in sentAt .. exported'
<1>1. exported \in Nat /\ sentAt \in 1 .. exported
  BY DEF FileType
<1>2. \A e \in sentAt .. exported : e \in 1 .. exported /\ e \in sentAt .. exported'
  BY <1>1
<1>3. \A e \in sentAt .. exported' : e = exported' \/ e \in sentAt .. exported
  BY <1>1
<1>. QED
  BY <1>1, <1>2, <1>3

LEMMA EvaluateDialog ==
    ASSUME Readable, FileType, FileInv, DialogInv, S!Evaluate
    PROVE  DialogInv'
<1>1. /\ queue # <<>> /\ queue \in Seq(Sent) /\ Head(queue) \in Sent
      /\ queue[1] = Head(queue)
  BY DEF S!Evaluate, FileType
<1>2. PICK form, g : form = Head(queue) /\ g = S!AfterForm(form)
  OBVIOUS
<1>3. /\ g \in S!Game /\ g.revision = game.revision /\ g.heartbeat >= -1
      /\ g.answer = "none" => g.session = 0
      /\ form.kind = "hello" => g.session = form.session
      /\ form.kind # "hello" => g.session = game.session
      /\ form.kind = "query" => g.heartbeat = game.heartbeat
  BY <1>1, <1>2, FormEffect
<1>4. /\ S!Export(g) /\ queue' = Tail(queue)
      /\ UNCHANGED <<reloads, client, asked, reader, sentAt>>
  BY <1>2 DEF S!Evaluate
<1>5. /\ exported' = exported + 1 /\ log'[exported'] = game'
      /\ \A e \in 1 .. exported : log'[e] = log[e]
      /\ game' = [g EXCEPT !.revision = @ + 1]
  BY <1>3, <1>4, ExportKeeps
<1>6. /\ game'.session = g.session /\ game'.heartbeat = g.heartbeat
      /\ game'.session \in Int /\ game.session \in Int
  BY <1>3, <1>5 DEF S!Game, FileType
<1>7. /\ Len(queue) \in Nat \ {0} /\ Len(queue') = Len(queue) - 1
      /\ \A i \in 1 .. Len(queue') : queue'[i] = queue[i + 1]
      /\ \A i \in 1 .. Len(queue) : queue[i].session \in Int
  <2>1. \A i \in 1 .. Len(queue) : queue[i] \in Sent
    BY <1>1
  <2>2. \A i \in 1 .. Len(queue) : queue[i].session \in Int
    BY <2>1 DEF Sent
  <2>. QED
    BY <1>1, <1>4, <2>2
<1>8. /\ client.session \in Int /\ sentAt \in Nat /\ exported \in Nat
      /\ 1 \in 1 .. Len(queue)
  BY <1>7 DEF FileType
<1>9. ReadsInWait'
  BY <1>4 DEF DialogInv, ReadsInWait, S!Polling
<1>10. Known'
  <2>1. game'.session <= client.session
    BY <1>1, <1>2, <1>3, <1>6, <1>8 DEF DialogInv, Known
  <2>2. \A i \in 1 .. Len(queue') : queue'[i].session <= client.session
    <3>1. \A i \in 1 .. Len(queue') : i + 1 \in 1 .. Len(queue)
      BY <1>7
    <3>. QED
      BY <1>7, <3>1 DEF DialogInv, Known
  <2>. QED
    BY <1>4, <2>1, <2>2 DEF DialogInv, Known
<1>11. OnPath'
  <2>1. SUFFICES ASSUME client.phase = "path" PROVE OnPath'
    BY <1>4 DEF OnPath
  <2>2. /\ game.session < client.session
        /\ \A i \in 1 .. Len(queue) :
             queue[i].session = client.session => queue[i].kind = "path"
    BY <2>1 DEF DialogInv, OnPath
  <2>3. game'.session < client.session
    <3>1. CASE form.kind = "hello"
      <4>1. form.session # client.session /\ form.session <= client.session
        BY <1>1, <1>2, <1>8, <2>2, <3>1 DEF DialogInv, Known
      <4>. QED
        BY <1>1, <1>2, <1>3, <1>6, <1>7, <1>8, <3>1, <4>1
    <3>2. CASE form.kind # "hello"
      BY <1>3, <1>6, <2>2, <3>2
    <3>. QED
      BY <3>1, <3>2
  <2>4. \A i \in 1 .. Len(queue') : i + 1 \in 1 .. Len(queue)
    BY <1>7
  <2>5. \A i \in 1 .. Len(queue') :
          queue'[i].session = client.session => queue'[i].kind = "path"
    BY <1>7, <2>2, <2>4
  <2>. QED
    BY <1>4, <2>3, <2>5 DEF OnPath
<1>12. client.phase \notin {"idle", "before"}
  BY <1>1 DEF DialogInv, AtRest
<1>13. AtRest'
  BY <1>4, <1>12 DEF AtRest
<1>14. Counted'
  <2>1. SUFFICES ASSUME client.phase = "query", game'.session = client.session
                 PROVE  game'.heartbeat < client.next
    BY <1>4, <1>12 DEF Counted
  <2>2. Len(queue) = 1 /\ Own(queue[Len(queue)])
    BY <1>1, <2>1 DEF DialogInv, Pending, Awaiting
  <2>3. form.kind = "query"
    BY <1>1, <1>2, <2>1, <2>2 DEF Own
  <2>4. game.session = client.session /\ game'.heartbeat = game.heartbeat
    BY <1>3, <1>6, <2>1, <2>3
  <2>. QED
    BY <2>1, <2>4 DEF DialogInv, Counted
<1>15. Awaiting => sentAt >= 1
  BY DEF Awaiting, DialogInv, Known
<1>16. \A h : Answering(h)' <=> Answering(h)
  BY <1>4 DEF Answering
<1>17. Pending'
  <2>1. SUFFICES ASSUME Awaiting, queue' # <<>> PROVE Pending'
    BY <1>4 DEF Pending, Awaiting
  <2>2. Len(queue) >= 2
    BY <1>7, <2>1, <1>1, <1>4
  <2>3. /\ Own(queue[Len(queue)])
        /\ client.phase # "hello" => Len(queue) = 1
        /\ client.phase = "hello" =>
             /\ game.session < client.session
             /\ \A i \in 1 .. Len(queue) - 1 :
                  queue[i].session = client.session => queue[i].kind = "path"
        /\ \A e \in sentAt .. exported : ~Answering(log[e])
    BY <1>1, <2>1 DEF DialogInv, Pending
  <2>4. client.phase = "hello"
    BY <2>2, <2>3
  <2>5. game'.session < client.session
    <3>1. CASE form.kind = "hello"
      <4>1. 1 \in 1 .. Len(queue) - 1
        BY <1>7, <2>2
      <4>2. form.session # client.session /\ form.session <= client.session
        BY <1>1, <1>2, <1>8, <2>3, <2>4, <3>1, <4>1 DEF DialogInv, Known
      <4>. QED
        BY <1>1, <1>2, <1>3, <1>6, <1>7, <1>8, <3>1, <4>2
    <3>2. CASE form.kind # "hello"
      BY <1>3, <1>6, <2>3, <2>4, <3>2
    <3>. QED
      BY <3>1, <3>2
  <2>6. queue'[Len(queue')] = queue[Len(queue)]
    <3>1. Len(queue') \in 1 .. Len(queue') /\ Len(queue') + 1 = Len(queue)
      BY <1>7, <2>2
    <3>. QED
      BY <1>7, <3>1
  <2>7. \A i \in 1 .. Len(queue') - 1 :
          queue'[i].session = client.session => queue'[i].kind = "path"
    <3>1. \A i \in 1 .. Len(queue') - 1 :
            i \in 1 .. Len(queue') /\ i + 1 \in 1 .. Len(queue) - 1
      BY <1>7
    <3>. QED
      BY <1>7, <2>3, <2>4, <3>1
  <2>8. \A e \in sentAt .. exported' : ~Answering(log'[e])
    <3>1. ~Answering(log'[exported'])
      BY <1>5, <1>6, <1>8, <2>4, <2>5 DEF Answering
    <3>. QED
      BY <1>5, <1>15, <2>1, <2>3, <3>1, Longer
  <2>9. Own(queue[Len(queue)])'
    BY <1>4, <2>3, <2>6 DEF Own
  <2>. QED
    BY <1>4, <1>16, <2>4, <2>5, <2>7, <2>8, <2>9 DEF Pending, Awaiting
<1>18. Served'
  <2>1. SUFFICES ASSUME Awaiting PROVE Served'
    BY <1>4 DEF Served, Awaiting
  <2>2. \A e \in sentAt .. exported : ~Answering(log[e])
    BY <1>1, <2>1 DEF DialogInv, Pending
  <2>3. /\ \A e \in sentAt .. exported' : e = exported' \/ e \in sentAt .. exported
        /\ \A e \in sentAt .. exported : log'[e] = log[e]
        /\ sentAt \in sentAt .. exported /\ exported' \in Nat
    BY <1>5, <1>15, <2>1, Longer
  <2>4. ~Answering(log'[sentAt])
    BY <2>2, <2>3
  <2>5. \A e \in sentAt .. exported' : Answering(log'[e]) => e = exported'
    BY <2>2, <2>3
  <2>6. \A f \in exported' + 1 .. exported' : FALSE
    BY <2>3
  <2>. QED
    BY <1>4, <1>16, <2>4, <2>5, <2>6 DEF Served, Awaiting
<1>. QED
  BY <1>9, <1>10, <1>11, <1>13, <1>14, <1>17, <1>18 DEF DialogInv

LEMMA ReloadDialog ==
    ASSUME Readable, FileType, FileInv, DialogInv, S!Reload
    PROVE  DialogInv'
<1>1. /\ S!Export(S!Fresh) /\ reader = None
      /\ UNCHANGED <<queue, client, asked, reader, sentAt>>
  BY DEF S!Reload, Readable
<1>2. /\ S!Fresh \in S!Game /\ S!Fresh.heartbeat >= -1 /\ S!Fresh.session = 0
      /\ S!Fresh.answer = "none"
  BY FreshGame
<1>3. /\ exported' = exported + 1 /\ log'[exported'] = game'
      /\ \A e \in 1 .. exported : log'[e] = log[e]
      /\ game' = [S!Fresh EXCEPT !.revision = @ + 1]
  BY <1>1, <1>2, ExportKeeps
<1>4. game'.session = 0 /\ game'.answer = "none" /\ client.session \in Nat
  BY <1>2, <1>3 DEF S!Game, FileType
<1>5. ReadsInWait'
  BY <1>1 DEF ReadsInWait
<1>6. Known'
  BY <1>1, <1>4 DEF DialogInv, Known
<1>7. client.phase # "closed" => client.session >= 1 /\ sentAt >= 1
  BY DEF DialogInv, Known
<1>8. OnPath'
  BY <1>1, <1>4, <1>7 DEF DialogInv, OnPath
<1>9. AtRest'
  BY <1>1, <1>4 DEF DialogInv, AtRest
<1>10. Counted'
  BY <1>1, <1>4, <1>7 DEF Counted
<1>11. \A h : Answering(h)' <=> Answering(h)
  BY <1>1 DEF Answering
<1>12. SUFFICES ASSUME Awaiting PROVE Pending' /\ Served'
  BY <1>1, <1>5, <1>6, <1>8, <1>9, <1>10 DEF DialogInv, Pending, Served, Awaiting
<1>13. client.session >= 1 /\ sentAt >= 1
  BY <1>7, <1>12 DEF Awaiting
<1>14. /\ \A e \in sentAt .. exported' : e = exported' \/ e \in sentAt .. exported
       /\ \A e \in sentAt .. exported : log'[e] = log[e]
       /\ sentAt \in 1 .. exported /\ exported' \in Nat
  BY <1>3, <1>13, Longer
<1>15. ~Answering(log'[exported'])
  BY <1>3, <1>4, <1>13 DEF Answering
<1>16. Pending'
  <2>1. SUFFICES ASSUME queue # <<>> PROVE Pending'
    BY <1>1 DEF Pending
  <2>2. /\ Own(queue[Len(queue)])
        /\ client.phase # "hello" => Len(queue) = 1
        /\ client.phase = "hello" =>
             \A i \in 1 .. Len(queue) - 1 :
                  queue[i].session = client.session => queue[i].kind = "path"
        /\ \A e \in sentAt .. exported : ~Answering(log[e])
    BY <1>12, <2>1 DEF DialogInv, Pending
  <2>3. \A e \in sentAt .. exported' : ~Answering(log'[e])
    BY <1>14, <1>15, <2>2
  <2>4. game'.session < client.session
    BY <1>4, <1>13
  <2>5. Own(queue[Len(queue)])'
    BY <1>1, <2>2 DEF Own
  <2>. QED
    BY <1>1, <1>11, <2>2, <2>3, <2>4, <2>5 DEF Pending
<1>17. Served'
  <2>1. SUFFICES ASSUME queue = <<>> PROVE Served'
    BY <1>1 DEF Served
  <2>2. /\ ~Answering(log[sentAt])
        /\ \A e \in sentAt .. exported : Answering(log[e]) =>
             \A f \in e + 1 .. exported : log[f].answer = "none"
    BY <1>12, <2>1 DEF DialogInv, Served
  <2>3. ~Answering(log'[sentAt])
    BY <1>3, <1>14, <2>2
  <2>4. ASSUME NEW e \in sentAt .. exported', Answering(log'[e]),
               NEW f \in e + 1 .. exported'
        PROVE  log'[f].answer = "none"
    <3>1. e \in sentAt .. exported /\ Answering(log[e])
      BY <1>14, <1>15, <2>4
    <3>2. CASE f = exported'
      BY <1>3, <1>4, <3>2
    <3>3. CASE f # exported'
      <4>1. f \in e + 1 .. exported /\ f \in 1 .. exported
        BY <1>3, <1>14, <3>1, <3>3
      <4>. QED
        BY <1>3, <2>2, <3>1, <4>1
    <3>. QED
      BY <3>2, <3>3
  <2>. QED
    BY <1>1, <1>11, <2>3, <2>4 DEF Served
<1>. QED
  BY <1>16, <1>17

LEMMA StartReadDialog ==
    ASSUME FileType, DialogInv, S!StartRead
    PROVE  DialogInv'
<1>1. /\ S!Polling /\ reader' = [text |-> <<>>, begun |-> exported]
      /\ UNCHANGED <<file, unwritten, game, exported, log, reloads, queue, client, asked,
                     sentAt>>
  BY DEF S!StartRead, S!gameVars
<1>2. ReadsInWait'
  BY <1>1 DEF ReadsInWait, S!Polling, FileType
<1>3. Known' /\ OnPath' /\ AtRest' /\ Counted'
  BY <1>1 DEF DialogInv, Known, OnPath, AtRest, Counted
<1>4. Pending' /\ Served'
  BY <1>1 DEF DialogInv, Pending, Served, Awaiting, Own, Answering
<1>. QED
  BY <1>2, <1>3, <1>4 DEF DialogInv

\* A form sent when nothing is on its way, to a game that does not answer it yet.
LEMMA SendsAlone ==
    ASSUME FileType, FileInv, NEW kind \in {"ping", "query"}, NEW sequence,
           queue = <<>>, S!Sends(S!Form(kind, sequence)), UNCHANGED <<game, exported, log>>,
           client'.phase = kind, client'.session = client.session,
           kind = "ping" => sequence = client'.next,
           ~Answering(game)'
    PROVE  Pending' /\ Served'
<1>1. /\ queue' = <<S!Form(kind, sequence)>> /\ sentAt' = exported
  BY DEF S!Sends
<1>2. Len(queue') = 1 /\ queue'[1] = S!Form(kind, sequence) /\ queue' # <<>>
  BY <1>1
<1>3. Own(queue[Len(queue)])'
  BY <1>2 DEF Own, S!Form
<1>4. \A e \in exported .. exported : e = exported
  BY DEF FileType
<1>5. \A e \in sentAt' .. exported' : ~Answering(log[e])'
  BY <1>1, <1>4 DEF FileInv, LogCurrent
<1>6. Pending'
  BY <1>2, <1>3, <1>5 DEF Pending
<1>. QED
  BY <1>2, <1>6 DEF Served

LEMMA SendPingKeeps ==
    ASSUME Readable, FileType, FileInv, DialogInv, S!SendPing
    PROVE  FileType' /\ DialogInv'
<1>1. /\ client.phase = "before" /\ reader # None /\ reader' = None
      /\ S!Sends(S!Form("ping", client.next))
      /\ UNCHANGED <<file, unwritten, game, exported, log, reloads, asked>>
  BY DEF S!SendPing, S!gameVars, S!AtEnd
<1>2. PICK previous \in Int : client' = [client EXCEPT !.phase = "ping",
                                                       !.previous = previous]
  <2>1. CASE S!Accepted(reader.text)
    BY <1>1, <2>1, ReadNumbers DEF S!SendPing
  <2>2. CASE ~S!Accepted(reader.text)
    BY <2>2 DEF S!SendPing, FileType
  <2>. QED
    BY <2>1, <2>2
<1>3. client \in [phase: S!Phases, session: 0 .. MaxSessions, next: Nat,
                  previous: Int, last: Int]
  BY DEF FileType
<1>4. /\ client' \in [phase: S!Phases, session: 0 .. MaxSessions, next: Nat,
                      previous: Int, last: Int]
      /\ client'.phase = "ping" /\ client'.session = client.session
      /\ client'.next = client.next
  BY <1>2, <1>3 DEF S!Phases
<1>5. queue' \in Seq(Sent) /\ sentAt' \in 0 .. exported
  BY <1>1, <1>3, FormTyped DEF DialogInv
<1>6. FileType'
  BY <1>1, <1>4, <1>5 DEF FileType
<1>7. queue = <<>> /\ (game.session = client.session => game.heartbeat < client.next)
  BY <1>1 DEF DialogInv, AtRest, Counted
<1>8. ~Answering(game)'
  <2>1. game.heartbeat \in Int /\ client.next \in Int
    BY <1>3 DEF FileType, S!Game
  <2>. QED
    BY <1>1, <1>4, <1>7, <2>1 DEF Answering
<1>9. Pending' /\ Served'
  BY <1>1, <1>4, <1>7, <1>8, SendsAlone
<1>10. ReadsInWait'
  BY <1>1 DEF ReadsInWait
<1>11. Known'
  <2>1. Len(queue') = 1 /\ queue'[1].session = client.session /\ sentAt' = exported
    BY <1>1, <1>7 DEF S!Sends, S!Form
  <2>2. sentAt' >= 1
    BY <2>1 DEF FileType
  <2>3. client.session >= 1 /\ game.session <= client.session
    BY <1>1 DEF DialogInv, Known
  <2>. QED
    BY <1>1, <1>3, <1>4, <2>1, <2>2, <2>3 DEF Known
<1>12. OnPath' /\ AtRest' /\ Counted'
  BY <1>4 DEF OnPath, AtRest, Counted
<1>. QED
  BY <1>6, <1>9, <1>10, <1>11, <1>12 DEF DialogInv

\* The read began after the form was sent, and the wait for an answer has one:
\* the export that was read answers the form, the one at which it was sent did not.
LEMMA FreshRead ==
    ASSUME Readable, FileType, FileInv, DialogInv, reader # None,
           S!Accepted(reader.text), S!Answers(S!Read), Awaiting
    PROVE  /\ queue = <<>>
           /\ \E e \in sentAt + 1 .. exported :
                /\ Shows(S!Read, log[e], e) /\ Answering(log[e])
                /\ \A f \in e + 1 .. exported : log[f].answer = "none"
<1>1. PICK e \in reader.begun .. exported : Shows(S!Read, log[e], e)
  BY ReadIsExport
<1>2. sentAt <= reader.begun /\ reader.begun \in 1 .. exported /\ sentAt \in 0 .. exported
      /\ exported \in Nat
  BY DEF DialogInv, ReadsInWait, FileType
<1>3. e \in sentAt .. exported /\ e \in Int
  BY <1>1, <1>2
<1>4. Answering(log[e])
  <2>1. /\ S!Read.revision = log[e].revision /\ S!Read.heartbeat = log[e].heartbeat
        /\ S!Read.session = log[e].session /\ S!Read.answer = log[e].answer
    BY <1>1 DEF Shows
  <2>2. CASE client.phase = "hello"
    BY <2>1, <2>2 DEF S!Answers, Answering
  <2>3. CASE client.phase = "ping"
    BY <2>1, <2>3 DEF S!Answers, Answering
  <2>4. CASE client.phase = "query"
    BY <2>1, <2>4 DEF S!Answers, Answering
  <2>. QED
    BY <2>2, <2>3, <2>4 DEF Awaiting
<1>5. queue = <<>>
  BY <1>3, <1>4 DEF DialogInv, Pending
<1>6. /\ ~Answering(log[sentAt])
      /\ \A f \in e + 1 .. exported : log[f].answer = "none"
  BY <1>3, <1>4, <1>5 DEF DialogInv, Served
<1>7. e \in sentAt + 1 .. exported
  BY <1>2, <1>3, <1>4, <1>6
<1>. QED
  BY <1>1, <1>4, <1>5, <1>6, <1>7

\* The read comes to nothing, or does not answer what is waited for.
LEMMA PollOn ==
    ASSUME Readable, FileType, FileInv, DialogInv, reader # None, reader' = None,
           NEW latest \in Int, client' = [client EXCEPT !.last = latest],
           client.phase \in {"path", "hello", "ping", "query"},
           UNCHANGED <<queue, sentAt, file, unwritten, game, exported, log, reloads, asked>>
    PROVE  FileType' /\ DialogInv'
<1>1. client \in [phase: S!Phases, session: 0 .. MaxSessions, next: Nat,
                  previous: Int, last: Int]
  BY DEF FileType
<1>2. /\ client' \in [phase: S!Phases, session: 0 .. MaxSessions, next: Nat,
                      previous: Int, last: Int]
      /\ client'.phase = client.phase /\ client'.session = client.session
      /\ client'.next = client.next /\ client'.previous = client.previous
  BY <1>1
<1>3. FileType'
  BY <1>2 DEF FileType
<1>4. ReadsInWait'
  BY DEF ReadsInWait
<1>5. Known' /\ OnPath' /\ AtRest' /\ Counted'
  BY <1>2 DEF DialogInv, Known, OnPath, AtRest, Counted
<1>6. \A g : Answering(g)' <=> Answering(g)
  BY <1>2 DEF Answering
<1>7. Pending' /\ Served'
  BY <1>2, <1>6 DEF DialogInv, Pending, Served, Awaiting, Own
<1>. QED
  BY <1>3, <1>4, <1>5, <1>7 DEF DialogInv

\* The attach goes on with the hello, which the session of the game is below.
LEMMA PollHello ==
    ASSUME Readable, FileType, FileInv, DialogInv, client.phase = "path",
           NEW latest \in Int,
           client' = [client EXCEPT !.phase = "hello", !.last = latest],
           reader' = None, S!Sends(S!Form("hello", 0)),
           UNCHANGED <<file, unwritten, game, exported, log, reloads, asked>>
    PROVE  FileType' /\ DialogInv'
<1>1. client \in [phase: S!Phases, session: 0 .. MaxSessions, next: Nat,
                  previous: Int, last: Int]
  BY DEF FileType
<1>2. /\ client' \in [phase: S!Phases, session: 0 .. MaxSessions, next: Nat,
                      previous: Int, last: Int]
      /\ client'.phase = "hello" /\ client'.session = client.session
  BY <1>1 DEF S!Phases
<1>3. queue' \in Seq(Sent) /\ sentAt' \in 0 .. exported
  BY FormTyped DEF DialogInv
<1>4. FileType'
  BY <1>2, <1>3 DEF FileType
<1>5. /\ game.session < client.session
      /\ \A i \in 1 .. Len(queue) :
           queue[i].session = client.session => queue[i].kind = "path"
  BY DEF DialogInv, OnPath
<1>6. /\ queue \in Seq(Sent) /\ Len(queue) \in Nat
      /\ queue' = Append(queue, S!Form("hello", 0)) /\ sentAt' = exported
  BY DEF FileType, S!Sends
<1>7. /\ Len(queue') = Len(queue) + 1 /\ queue'[Len(queue')] = S!Form("hello", 0)
      /\ \A i \in 1 .. Len(queue) : queue'[i] = queue[i]
      /\ \A i \in 1 .. Len(queue') : i \in 1 .. Len(queue) \/ i = Len(queue')
  BY <1>6
<1>8. /\ S!Form("hello", 0).session = client.session /\ S!Form("hello", 0).kind = "hello"
  BY DEF S!Form
<1>9. Known'
  <2>1. sentAt' >= 1 /\ client.session \in Int
    BY <1>1, <1>6 DEF FileType
  <2>2. /\ game.session <= client.session /\ client.session >= 1
        /\ \A i \in 1 .. Len(queue) : queue[i].session <= client.session
    BY DEF DialogInv, Known
  <2>3. \A i \in 1 .. Len(queue') : queue'[i].session <= client.session
    BY <1>7, <1>8, <2>1, <2>2
  <2>. QED
    BY <1>2, <2>1, <2>2, <2>3 DEF Known
<1>10. ReadsInWait' /\ OnPath' /\ AtRest' /\ Counted'
  BY <1>2 DEF ReadsInWait, OnPath, AtRest, Counted
<1>11. Pending'
  <2>1. Own(queue[Len(queue)])'
    BY <1>2, <1>7, <1>8 DEF Own
  <2>2. \A i \in 1 .. Len(queue') - 1 :
          queue'[i].session = client.session => queue'[i].kind = "path"
    BY <1>5, <1>6, <1>7
  <2>3. \A e \in exported .. exported : e = exported
    BY DEF FileType
  <2>4. ~Answering(game)'
    BY <1>1, <1>2, <1>5 DEF Answering, FileType, S!Game
  <2>5. \A e \in sentAt' .. exported' : ~Answering(log[e])'
    BY <1>6, <2>3, <2>4 DEF FileInv, LogCurrent
  <2>. QED
    BY <1>2, <1>5, <2>1, <2>2, <2>5 DEF Pending
<1>12. Served'
  BY <1>6, <1>7 DEF Served
<1>. QED
  BY <1>4, <1>9, <1>10, <1>11, <1>12 DEF DialogInv

\* The operation ends.
LEMMA PollEnd ==
    ASSUME Readable, FileType, FileInv, DialogInv, Awaiting, reader # None,
           S!Accepted(reader.text), S!Answers(S!Read), reader' = None, S!Advance,
           UNCHANGED <<file, unwritten, game, exported, log, reloads, asked>>
    PROVE  FileType' /\ DialogInv'
<1>1. PICK next : next = CASE client.phase = "hello" -> S!Read.heartbeat + 1
                           [] client.phase = "ping" -> client.next + 1
                           [] OTHER -> client.next
  OBVIOUS
<1>2. /\ client.phase \in {"hello", "ping", "query"} /\ client.phase # "path"
      /\ S!Read.revision \in Int /\ S!Read.heartbeat + 1 \in Nat
  BY ReadNumbers DEF Awaiting
<1>3. client \in [phase: S!Phases, session: 0 .. MaxSessions, next: Nat,
                  previous: Int, last: Int]
  BY DEF FileType
<1>4. next \in Nat
  BY <1>1, <1>2, <1>3
<1>5. /\ client' = [client EXCEPT !.last = S!Read.revision, !.phase = "idle", !.next = next]
      /\ UNCHANGED <<queue, sentAt>>
  BY <1>1, <1>2 DEF S!Advance
<1>6. /\ client' \in [phase: S!Phases, session: 0 .. MaxSessions, next: Nat,
                      previous: Int, last: Int]
      /\ client'.phase = "idle" /\ client'.session = client.session
      /\ client'.next = next /\ client'.last = S!Read.revision
  BY <1>2, <1>3, <1>4, <1>5 DEF S!Phases
<1>7. FileType'
  BY <1>5, <1>6 DEF FileType
<1>8. PICK e \in sentAt + 1 .. exported :
        /\ Shows(S!Read, log[e], e) /\ Answering(log[e])
        /\ \A f \in e + 1 .. exported : log[f].answer = "none"
  BY FreshRead
<1>9. queue = <<>>
  BY FreshRead
<1>10. /\ exported \in Nat \ {0} /\ sentAt \in Nat /\ e \in Nat
       /\ e # exported => exported \in e + 1 .. exported
  BY DEF FileType
<1>11. /\ log[exported] = game
       /\ game.answer = "none" => game.session = 0
  BY <1>10 DEF FileInv, LogCurrent, Unasked
<1>12. client.session >= 1 /\ client.session \in Int
  BY <1>2, <1>3 DEF DialogInv, Known
<1>13. e = exported \/ (game.answer = "none" /\ game.session # client.session)
  <2>1. e # exported => game.answer = "none"
    BY <1>8, <1>10, <1>11
  <2>. QED
    BY <1>11, <1>12, <2>1
<1>14. e = exported => game.revision = S!Read.revision /\ game.heartbeat = S!Read.heartbeat
  BY <1>8, <1>11 DEF Shows
<1>15. AtRest'
  BY <1>5, <1>6, <1>9, <1>13, <1>14 DEF AtRest
<1>16. Counted'
  <2>1. SUFFICES ASSUME game.session = client.session PROVE game.heartbeat < next
    BY <1>6 DEF Counted
  <2>2. e = exported
    BY <1>13, <2>1
  <2>3. game.heartbeat \in Int /\ client.next \in Int
    BY <1>3 DEF FileType, S!Game
  <2>4. CASE client.phase = "hello"
    <3>1. next = S!Read.heartbeat + 1
      BY <1>1, <2>4
    <3>. QED
      BY <1>14, <2>2, <2>3, <3>1
  <2>5. CASE client.phase = "ping"
    <3>1. next = client.next + 1
      BY <1>1, <2>5
    <3>2. game.heartbeat = client.next
      BY <1>8, <1>11, <2>2, <2>5 DEF Answering
    <3>. QED
      BY <2>3, <3>1, <3>2
  <2>6. CASE client.phase = "query"
    <3>1. next = client.next
      BY <1>1, <2>6
    <3>. QED
      BY <2>1, <2>6, <3>1 DEF DialogInv, Counted
  <2>. QED
    BY <1>2, <2>4, <2>5, <2>6
<1>17. Known'
  BY <1>2, <1>5, <1>6 DEF DialogInv, Known
<1>18. ReadsInWait' /\ OnPath' /\ Pending' /\ Served'
  BY <1>6 DEF ReadsInWait, OnPath, Pending, Served, Awaiting
<1>. QED
  BY <1>7, <1>15, <1>16, <1>17, <1>18 DEF DialogInv

LEMMA PollKeeps ==
    ASSUME Readable, FileType, FileInv, DialogInv, S!Poll
    PROVE  FileType' /\ DialogInv'
<1>1. /\ client.phase \in {"path", "hello", "ping", "query"} /\ reader # None
      /\ reader' = None
      /\ UNCHANGED <<file, unwritten, game, exported, log, reloads, asked>>
  BY DEF S!Poll, S!gameVars, S!AtEnd
<1>2. client \in [phase: S!Phases, session: 0 .. MaxSessions, next: Nat,
                  previous: Int, last: Int]
  BY DEF FileType
<1>3. CASE ~S!Accepted(reader.text)
  <2>1. client' = client /\ UNCHANGED <<queue, sentAt>>
    BY <1>3 DEF S!Poll
  <2>2. client' = [client EXCEPT !.last = client.last] /\ client.last \in Int
    BY <1>2, <2>1
  <2>. QED
    BY <1>1, <2>1, <2>2, PollOn
<1>4. CASE S!Accepted(reader.text) /\ ~S!Answers(S!Read)
  <2>1. client' = [client EXCEPT !.last = S!Read.revision] /\ UNCHANGED <<queue, sentAt>>
    BY <1>4 DEF S!Poll
  <2>2. S!Read.revision \in Int
    BY <1>1, <1>4, ReadNumbers
  <2>. QED
    BY <1>1, <2>1, <2>2, PollOn
<1>5. CASE S!Accepted(reader.text) /\ S!Answers(S!Read) /\ client.phase = "path"
  <2>1. S!Advance
    BY <1>5 DEF S!Poll
  <2>2. /\ client' = [client EXCEPT !.last = S!Read.revision, !.phase = "hello",
                                    !.next = client.next]
        /\ S!Sends(S!Form("hello", 0))
    BY <1>5, <2>1 DEF S!Advance
  <2>3. client' = [client EXCEPT !.phase = "hello", !.last = S!Read.revision]
    BY <1>2, <2>2
  <2>4. S!Read.revision \in Int
    BY <1>1, <1>5, ReadNumbers
  <2>. QED
    BY <1>1, <1>5, <2>2, <2>3, <2>4, PollHello
<1>6. CASE S!Accepted(reader.text) /\ S!Answers(S!Read) /\ client.phase # "path"
  <2>1. Awaiting /\ S!Advance
    BY <1>1, <1>6 DEF Awaiting, S!Poll
  <2>. QED
    BY <1>1, <1>6, <2>1, PollEnd
<1>. QED
  BY <1>3, <1>4, <1>5, <1>6

LEMMA AttachDialog ==
    ASSUME Readable, FileType, DialogInv, S!Attach
    PROVE  DialogInv'
<1>1. /\ client.phase = "closed"
      /\ client' = [client EXCEPT !.phase = "path", !.session = @ + 1,
                                  !.next = 0, !.previous = -1, !.last = -1]
      /\ sentAt' = exported
      /\ queue' = Append(queue, [kind |-> "path", session |-> client'.session,
                                 sequence |-> 0])
      /\ UNCHANGED <<game, exported, log, reader>>
  BY DEF S!Attach
<1>2. /\ client \in [phase: S!Phases, session: 0 .. MaxSessions, next: Nat,
                     previous: Int, last: Int]
      /\ queue \in Seq(Sent) /\ Len(queue) \in Nat /\ exported \in Nat \ {0}
      /\ game.session \in Int
  BY DEF FileType, S!Game
<1>3. client'.phase = "path" /\ client'.session = client.session + 1
  BY <1>1, <1>2
<1>4. PICK new : new = [kind |-> "path", session |-> client'.session, sequence |-> 0]
  OBVIOUS
<1>5. /\ Len(queue') = Len(queue) + 1 /\ queue'[Len(queue) + 1] = new
      /\ \A i \in 1 .. Len(queue) : queue'[i] = queue[i]
      /\ \A i \in 1 .. Len(queue') : i \in 1 .. Len(queue) \/ i = Len(queue) + 1
  BY <1>1, <1>2, <1>4
<1>6. new.session = client.session + 1 /\ new.kind = "path"
  BY <1>3, <1>4
<1>7. /\ game.session <= client.session /\ client.session \in Nat
      /\ \A i \in 1 .. Len(queue) : queue[i].session <= client.session
      /\ \A i \in 1 .. Len(queue) : queue[i].session \in Int
  <2>1. \A i \in 1 .. Len(queue) : queue[i] \in Sent
    BY <1>2
  <2>2. \A i \in 1 .. Len(queue) : queue[i].session \in Int
    BY <2>1 DEF Sent
  <2>. QED
    BY <1>2, <2>2 DEF DialogInv, Known
<1>8. reader' = None
  BY <1>1 DEF DialogInv, ReadsInWait, S!Polling
<1>9. \A i \in 1 .. Len(queue') :
        /\ queue'[i].session <= client.session + 1
        /\ queue'[i].session = client.session + 1 => queue'[i].kind = "path"
  <2>1. SUFFICES ASSUME NEW i \in 1 .. Len(queue')
                 PROVE  /\ queue'[i].session <= client.session + 1
                        /\ queue'[i].session = client.session + 1 =>
                             queue'[i].kind = "path"
    OBVIOUS
  <2>2. CASE i \in 1 .. Len(queue)
    <3>1. queue'[i].session <= client.session /\ queue'[i].session \in Int
      BY <1>5, <1>7, <2>2
    <3>. QED
      BY <1>7, <3>1
  <2>3. CASE i = Len(queue) + 1
    BY <1>5, <1>6, <1>7, <2>3
  <2>. QED
    BY <1>5, <2>2, <2>3
<1>10. Known' /\ OnPath'
  BY <1>1, <1>2, <1>3, <1>7, <1>9 DEF Known, OnPath
<1>11. ReadsInWait' /\ AtRest' /\ Counted' /\ Pending' /\ Served'
  BY <1>3, <1>8 DEF ReadsInWait, AtRest, Counted, Pending, Served, Awaiting
<1>. QED
  BY <1>10, <1>11 DEF DialogInv

LEMMA PingKeeps ==
    ASSUME Readable, FileType, DialogInv, S!Ping
    PROVE  FileType' /\ DialogInv'
<1>1. /\ client.phase = "idle" /\ asked < MaxForms /\ asked' = asked + 1
      /\ client' = [client EXCEPT !.phase = "before"]
      /\ UNCHANGED <<file, unwritten, game, exported, log, reloads, queue, reader, sentAt>>
  BY DEF S!Ping, S!gameVars
<1>2. client \in [phase: S!Phases, session: 0 .. MaxSessions, next: Nat,
                  previous: Int, last: Int]
  BY DEF FileType
<1>3. /\ client' \in [phase: S!Phases, session: 0 .. MaxSessions, next: Nat,
                      previous: Int, last: Int]
      /\ client'.phase = "before" /\ client'.session = client.session
      /\ client'.next = client.next /\ client'.last = client.last
  BY <1>1, <1>2 DEF S!Phases
<1>4. asked' \in 0 .. MaxForms
  <2>1. asked \in 0 .. MaxForms /\ MaxForms \in Nat
    BY DEF FileType, Readable, S!BoundAssumption
  <2>2. asked < MaxForms /\ asked' = asked + 1
    BY <1>1
  <2>3. QED
    BY <2>1, <2>2
<1>5. FileType'
  BY <1>1, <1>3, <1>4 DEF FileType
<1>6. reader' = None
  BY <1>1 DEF DialogInv, ReadsInWait, S!Polling
<1>7. Known' /\ AtRest' /\ Counted'
  BY <1>1, <1>3 DEF DialogInv, Known, AtRest, Counted
<1>8. ReadsInWait' /\ OnPath' /\ Pending' /\ Served'
  BY <1>3, <1>6 DEF ReadsInWait, OnPath, Pending, Served, Awaiting
<1>. QED
  BY <1>5, <1>7, <1>8 DEF DialogInv

LEMMA QueryKeeps ==
    ASSUME Readable, FileType, FileInv, DialogInv, S!Query
    PROVE  FileType' /\ DialogInv'
<1>1. /\ client.phase = "idle" /\ asked < MaxForms /\ asked' = asked + 1
      /\ client' = [client EXCEPT !.phase = "query", !.previous = client.last]
      /\ S!Sends(S!Form("query", 0))
      /\ UNCHANGED <<file, unwritten, game, exported, log, reloads, reader>>
  BY DEF S!Query, S!gameVars
<1>2. client \in [phase: S!Phases, session: 0 .. MaxSessions, next: Nat,
                  previous: Int, last: Int]
  BY DEF FileType
<1>3. /\ client' \in [phase: S!Phases, session: 0 .. MaxSessions, next: Nat,
                      previous: Int, last: Int]
      /\ client'.phase = "query" /\ client'.session = client.session
      /\ client'.next = client.next /\ client'.previous = client.last
  BY <1>1, <1>2 DEF S!Phases
<1>4. asked' \in 0 .. MaxForms
  <2>1. asked \in 0 .. MaxForms /\ MaxForms \in Nat
    BY DEF FileType, Readable, S!BoundAssumption
  <2>2. asked < MaxForms /\ asked' = asked + 1
    BY <1>1
  <2>3. QED
    BY <2>1, <2>2
<1>5. queue' \in Seq(Sent) /\ sentAt' \in 0 .. exported
  BY <1>1, FormTyped DEF DialogInv
<1>6. FileType'
  BY <1>1, <1>3, <1>4, <1>5 DEF FileType
<1>7. queue = <<>> /\ (game.answer = "none" \/ game.revision = client.last)
  BY <1>1 DEF DialogInv, AtRest
<1>8. ~Answering(game)'
  <2>1. game.revision \in Int /\ client.last \in Int
    BY <1>2 DEF FileType, S!Game
  <2>. QED
    BY <1>1, <1>3, <1>7, <2>1 DEF Answering
<1>9. Pending' /\ Served'
  BY <1>1, <1>3, <1>7, <1>8, SendsAlone
<1>10. reader' = None
  BY <1>1 DEF DialogInv, ReadsInWait, S!Polling
<1>11. Known'
  <2>1. Len(queue') = 1 /\ queue'[1].session = client.session /\ sentAt' = exported
    BY <1>1, <1>7 DEF S!Sends, S!Form
  <2>2. sentAt' >= 1
    BY <2>1 DEF FileType
  <2>3. client.session >= 1 /\ game.session <= client.session
    BY <1>1 DEF DialogInv, Known
  <2>. QED
    BY <1>1, <1>2, <1>3, <2>1, <2>2, <2>3 DEF Known
<1>12. Counted'
  BY <1>1, <1>3 DEF DialogInv, Counted
<1>13. ReadsInWait' /\ OnPath' /\ AtRest'
  BY <1>3, <1>10 DEF ReadsInWait, OnPath, AtRest
<1>. QED
  BY <1>6, <1>9, <1>11, <1>12, <1>13 DEF DialogInv

LEMMA TimesOutKeeps ==
    ASSUME Readable, FileType, DialogInv, S!TimesOut
    PROVE  FileType' /\ DialogInv'
<1>1. /\ reader = None /\ client' = [client EXCEPT !.phase = "closed"]
      /\ UNCHANGED <<file, unwritten, game, exported, log, reloads, queue, asked, reader,
                     sentAt>>
  BY DEF S!TimesOut, S!gameVars
<1>2. client \in [phase: S!Phases, session: 0 .. MaxSessions, next: Nat,
                  previous: Int, last: Int]
  BY DEF FileType
<1>3. /\ client' \in [phase: S!Phases, session: 0 .. MaxSessions, next: Nat,
                      previous: Int, last: Int]
      /\ client'.phase = "closed" /\ client'.session = client.session
  BY <1>1, <1>2 DEF S!Phases
<1>4. FileType'
  BY <1>1, <1>3 DEF FileType
<1>5. Known'
  BY <1>1, <1>3 DEF DialogInv, Known
<1>6. ReadsInWait' /\ OnPath' /\ AtRest' /\ Counted' /\ Pending' /\ Served'
  BY <1>1, <1>3 DEF ReadsInWait, OnPath, AtRest, Counted, Pending, Served, Awaiting
<1>. QED
  BY <1>4, <1>5, <1>6 DEF DialogInv

-----------------------------------------------------------------------------
(* The invariant.                                                           *)

\* The module has been loaded, and nobody has asked yet.
LEMMA InitHolds ==
    ASSUME Readable, S!Init
    PROVE  SnapshotInv
<1>1. /\ exported = 1 /\ game = [S!Fresh EXCEPT !.revision = 1] /\ log = <<game>>
      /\ file = <<>> /\ unwritten = S!Text(game, 1, 0)
      /\ reloads = 0 /\ queue = <<>> /\ asked = 0
      /\ client = [phase |-> "closed", session |-> 0, next |-> 0,
                   previous |-> -1, last |-> -1]
      /\ reader = None /\ sentAt = 0 /\ observed = None
  BY DEF S!Init
<1>2. /\ MaxSessions \in Nat /\ MaxForms \in Nat /\ MaxReloads \in Nat
      /\ Base \in Nat \ {0, 1}
  BY DEF Readable, S!BoundAssumption
<1>3. /\ game \in S!Game /\ game.revision = 1 /\ game.session = 0
      /\ game.heartbeat = -1 /\ game.answer = "none"
  BY <1>1, FreshGame DEF S!Game
<1>4. /\ log \in Seq(S!Game) /\ Len(log) = 1 /\ log[1] = game
      /\ \A e \in 1 .. 1 : e = 1
  BY <1>1, <1>3
<1>5. unwritten \in Seq(Lines) /\ Len(unwritten) = 6
  <2>1. PICK g, n, r : g = game /\ n = 1 /\ r = 0
    OBVIOUS
  <2>2. g \in S!Game /\ n \in Nat /\ r \in 0 .. 1
    BY <1>3, <2>1
  <2>3. S!Text(g, n, r) \in Seq(Lines) /\ Len(S!Text(g, n, r)) = 6 + r
    BY <1>2, <2>2, TextShape
  <2>. QED
    BY <1>1, <2>1, <2>3
<1>6. FileType
  <2>1. client \in [phase: S!Phases, session: 0 .. MaxSessions, next: Nat,
                    previous: Int, last: Int]
    BY <1>1, <1>2 DEF S!Phases
  <2>2. file \in Seq(Lines) /\ queue \in Seq(Sent)
    BY <1>1
  <2>3. reloads \in 0 .. MaxReloads /\ asked \in 0 .. MaxForms
    BY <1>1, <1>2
  <2>. QED
    BY <1>1, <1>3, <1>4, <1>5, <2>1, <2>2, <2>3 DEF FileType
<1>7. LogCurrent /\ Numbered /\ Unasked /\ Succession
  <2>1. exported = 1 /\ reader = None
    BY <1>1
  <2>2. LogCurrent
    BY <1>4, <2>1 DEF LogCurrent
  <2>3. \A e \in 1 .. exported : log[e] = game
    BY <1>4, <2>1
  <2>. QED
    BY <1>3, <2>1, <2>2, <2>3 DEF Numbered, Unasked, Succession
<1>8. Texts
  <2>1. PICK R : R = [e \in 1 .. exported |-> 0]
    OBVIOUS
  <2>2. R \in [1 .. exported -> 0 .. 1] /\ R[exported] = 0
    BY <1>1, <2>1
  <2>3. Printed(R)
    BY <1>1, <1>5, <2>2 DEF Printed
  <2>4. Collected(R)
    BY <1>1 DEF Collected
  <2>. QED
    BY <2>2, <2>3, <2>4 DEF Texts
<1>9. DialogInv
  BY <1>1, <1>3
  DEF DialogInv, ReadsInWait, Known, OnPath, AtRest, Counted, Pending, Served,
      Awaiting
<1>. QED
  BY <1>1, <1>6, <1>7, <1>8, <1>9 DEF SnapshotInv, FileInv, Whole

\* What was observed stays true as the log grows.
LEMMA WholeKept ==
    ASSUME FileType, Whole, UNCHANGED observed,
           \/ UNCHANGED <<exported, log>>
           \/ /\ exported' = exported + 1
              /\ \A e \in 1 .. exported : log'[e] = log[e]
    PROVE  Whole'
<1>1. \A e \in 1 .. exported : e \in 1 .. exported' /\ log'[e] = log[e]
  BY DEF FileType
<1>2. SUFFICES ASSUME observed # None PROVE Whole'
  BY DEF Whole
<1>3. PICK e \in 1 .. exported : Shows(observed.snapshot, log[e], e)
  BY <1>2 DEF Whole
<1>. QED
  BY <1>1, <1>3 DEF Whole

\* An export is logged.
LEMMA ExportLogs ==
    ASSUME FileType, NEW g, S!Export(g)
    PROVE  exported' = exported + 1 /\ \A e \in 1 .. exported : log'[e] = log[e]
<1>1. exported' = exported + 1 /\ log' = Append(log, game') /\ log \in Seq(S!Game)
      /\ Len(log) = exported
  BY DEF S!Export, FileType
<1>. QED
  BY <1>1

\* A turn of _wait_for observes one export.
LEMMA PollWhole ==
    ASSUME Readable, FileType, FileInv, Whole, S!Poll
    PROVE  Whole'
<1>1. reader # None /\ UNCHANGED <<exported, log>>
  BY DEF S!Poll, S!AtEnd, S!gameVars
<1>2. CASE ~S!Accepted(reader.text)
  <2>1. UNCHANGED observed
    BY <1>2 DEF S!Poll
  <2>. QED
    BY <1>1, <2>1, WholeKept
<1>3. CASE S!Accepted(reader.text)
  <2>1. observed' = [snapshot |-> S!Read, phase |-> client.phase, taken |-> S!Answers(S!Read)]
    BY <1>3 DEF S!Poll, S!Observe
  <2>2. PICK e \in reader.begun .. exported : Shows(S!Read, log[e], e)
    BY <1>1, <1>3, ReadIsExport
  <2>3. e \in 1 .. exported
    BY <1>1, <2>2 DEF FileType
  <2>4. observed'.snapshot = S!Read
    BY <2>1
  <2>. QED
    BY <1>1, <2>2, <2>3, <2>4 DEF Whole
<1>. QED
  BY <1>2, <1>3

\* Every step keeps the invariant.
LEMMA StepHolds ==
    ASSUME Readable, SnapshotInv, [S!Next]_(S!vars)
    PROVE  SnapshotInv'
<1>1. FileType /\ FileInv /\ DialogInv /\ Whole
  BY DEF SnapshotInv
<1>2. CASE S!Write
  <2>1. UNCHANGED <<game, queue, client, reader, exported, log, sentAt, observed>>
    BY <1>2 DEF S!Write
  <2>2. FileType' /\ FileInv'
    BY <1>1, <1>2, WriteKeeps
  <2>3. DialogInv'
    BY <1>1, <2>1, SameDialog
  <2>4. Whole'
    BY <1>1, <2>1, WholeKept
  <2>. QED
    BY <2>2, <2>3, <2>4 DEF SnapshotInv
<1>3. CASE S!Evaluate
  <2>1. FileType' /\ FileInv'
    BY <1>1, <1>3, EvaluateKeeps
  <2>2. DialogInv'
    BY <1>1, <1>3, EvaluateDialog
  <2>3. S!Export(S!AfterForm(Head(queue))) /\ UNCHANGED observed
    BY <1>3 DEF S!Evaluate
  <2>4. exported' = exported + 1 /\ \A e \in 1 .. exported : log'[e] = log[e]
    BY <1>1, <2>3, ExportLogs
  <2>5. Whole'
    BY <1>1, <2>3, <2>4, WholeKept
  <2>. QED
    BY <2>1, <2>2, <2>5 DEF SnapshotInv
<1>4. CASE S!Reload
  <2>1. FileType' /\ FileInv'
    BY <1>1, <1>4, ReloadKeeps
  <2>2. DialogInv'
    BY <1>1, <1>4, ReloadDialog
  <2>3. S!Export(S!Fresh) /\ UNCHANGED observed
    BY <1>4 DEF S!Reload
  <2>4. exported' = exported + 1 /\ \A e \in 1 .. exported : log'[e] = log[e]
    BY <1>1, <2>3, ExportLogs
  <2>5. Whole'
    BY <1>1, <2>3, <2>4, WholeKept
  <2>. QED
    BY <2>1, <2>2, <2>5 DEF SnapshotInv
<1>5. CASE S!StartRead
  <2>1. FileType' /\ FileInv'
    BY <1>1, <1>5, StartReadKeeps
  <2>2. DialogInv'
    BY <1>1, <1>5, StartReadDialog
  <2>3. UNCHANGED <<exported, log, observed>>
    BY <1>5 DEF S!StartRead, S!gameVars
  <2>. QED
    BY <1>1, <2>1, <2>2, <2>3, WholeKept DEF SnapshotInv
<1>6. CASE S!ReadMore
  <2>1. FileType' /\ FileInv'
    BY <1>1, <1>6, ReadMoreKeeps
  <2>2. /\ UNCHANGED <<game, queue, client, exported, log, sentAt, observed>>
        /\ reader # None
        /\ reader' = [reader EXCEPT !.text = @ \o SubSeq(file, Len(@) + 1, Len(file))]
    BY <1>6 DEF S!ReadMore, S!gameVars
  <2>3. PICK more : reader' = [reader EXCEPT !.text = more]
    BY <2>2
  <2>4. reader'.begun = reader.begun
    BY <1>1, <2>2, <2>3 DEF FileType
  <2>5. DialogInv'
    BY <1>1, <2>2, <2>4, SameDialog
  <2>. QED
    BY <1>1, <2>1, <2>2, <2>5, WholeKept DEF SnapshotInv
<1>7. CASE S!SendPing
  <2>1. FileType' /\ DialogInv'
    BY <1>1, <1>7, SendPingKeeps
  <2>2. UNCHANGED S!gameVars /\ reader' = None /\ UNCHANGED observed
    BY <1>7 DEF S!SendPing
  <2>3. FileInv'
    BY <1>1, <2>2, ClientKeepsFile
  <2>. QED
    BY <1>1, <2>1, <2>2, <2>3, WholeKept DEF SnapshotInv, S!gameVars
<1>8. CASE S!Poll
  <2>1. FileType' /\ DialogInv'
    BY <1>1, <1>8, PollKeeps
  <2>2. UNCHANGED S!gameVars /\ reader' = None
    BY <1>8 DEF S!Poll
  <2>3. FileInv'
    BY <1>1, <2>2, ClientKeepsFile
  <2>4. Whole'
    BY <1>1, <1>8, PollWhole
  <2>. QED
    BY <2>1, <2>3, <2>4 DEF SnapshotInv
<1>9. CASE S!Attach
  <2>1. FileType' /\ FileInv'
    BY <1>1, <1>9, AttachKeeps
  <2>2. DialogInv'
    BY <1>1, <1>9, AttachDialog
  <2>3. UNCHANGED <<exported, log, observed>>
    BY <1>9 DEF S!Attach
  <2>. QED
    BY <1>1, <2>1, <2>2, <2>3, WholeKept DEF SnapshotInv
<1>10. CASE S!Ping
  <2>1. FileType' /\ DialogInv'
    BY <1>1, <1>10, PingKeeps
  <2>2. UNCHANGED <<S!gameVars, reader, observed>>
    BY <1>10 DEF S!Ping
  <2>3. FileInv'
    BY <1>1, <2>2, ClientKeepsFile
  <2>. QED
    BY <1>1, <2>1, <2>2, <2>3, WholeKept DEF SnapshotInv, S!gameVars
<1>11. CASE S!Query
  <2>1. FileType' /\ DialogInv'
    BY <1>1, <1>11, QueryKeeps
  <2>2. UNCHANGED <<S!gameVars, reader, observed>>
    BY <1>11 DEF S!Query
  <2>3. FileInv'
    BY <1>1, <2>2, ClientKeepsFile
  <2>. QED
    BY <1>1, <2>1, <2>2, <2>3, WholeKept DEF SnapshotInv, S!gameVars
<1>12. CASE S!TimesOut
  <2>1. FileType' /\ DialogInv'
    BY <1>1, <1>12, TimesOutKeeps
  <2>2. UNCHANGED <<S!gameVars, reader, observed>>
    BY <1>12 DEF S!TimesOut
  <2>3. FileInv'
    BY <1>1, <2>2, ClientKeepsFile
  <2>. QED
    BY <1>1, <2>1, <2>2, <2>3, WholeKept DEF SnapshotInv, S!gameVars
<1>13. CASE UNCHANGED S!vars
  <2>1. UNCHANGED <<file, unwritten, game, exported, log, reloads, queue, client, asked,
                    reader, sentAt, observed>>
    BY <1>13 DEF S!vars, S!gameVars
  <2>2. FileType'
    BY <1>1, <2>1 DEF FileType
  <2>3. FileInv'
    BY <1>1, <2>1, ClientKeepsFile DEF S!gameVars
  <2>4. DialogInv'
    <3>1. reader' = None \/ (reader # None /\ reader'.begun = reader.begun)
      BY <2>1
    <3>. QED
      BY <1>1, <2>1, <3>1, SameDialog
  <2>. QED
    BY <1>1, <2>1, <2>2, <2>3, <2>4, WholeKept DEF SnapshotInv
<1>. QED
  BY <1>2, <1>3, <1>4, <1>5, <1>6, <1>7, <1>8, <1>9, <1>10, <1>11, <1>12, <1>13 DEF S!Next

\* The inductive invariant: every line read stands where an export that began
\* during the read has it, and before its form is evaluated nothing the game
\* exported since it was sent can be taken for its answer.
THEOREM SnapshotInvariant == Readable => (S!Spec => []SnapshotInv)
<1> SUFFICES ASSUME Readable PROVE S!Spec => []SnapshotInv
  OBVIOUS
<1>1. S!Init => SnapshotInv
  BY InitHolds
<1>2. SnapshotInv /\ [S!Next]_(S!vars) => SnapshotInv'
  BY StepHolds
<1>. QED
  BY <1>1, <1>2, PTL DEF S!Spec

\* The lines of the file are of the last export.
LEMMA TypesFollow ==
    ASSUME Readable, SnapshotInv
    PROVE  S!TypeOK
<1>1. FileType /\ FileInv
  BY DEF SnapshotInv
<1>2. PICK R \in [1 .. exported -> 0 .. 1] : Printed(R)
  BY <1>1 DEF FileInv, Texts
<1>3. /\ file \in Seq(Lines) /\ unwritten \in Seq(Lines) /\ exported \in Nat \ {0}
      /\ game \in S!Game /\ R[exported] \in 0 .. 1 /\ Base \in Nat \ {0, 1}
      /\ Len(file) \in Nat /\ Len(unwritten) \in Nat
  BY <1>1, <1>2 DEF FileType, Readable, S!BoundAssumption
<1>4. \A i \in 1 .. 6 + R[exported] : S!Text(game, exported, R[exported])[i].of = exported
  <2>1. PICK g, r, n : g = game /\ r = R[exported] /\ n = exported
    OBVIOUS
  <2>2. g \in S!Game /\ r \in 0 .. 1 /\ n \in Nat /\ Base \in Nat \ {0, 1}
    BY <1>3, <2>1
  <2>3. \A i \in 1 .. 6 + r : S!Text(g, n, r)[i].of = n
    BY <2>2, TextOf
  <2>. QED
    BY <2>1, <2>3
<1>5. ASSUME NEW i \in DOMAIN file PROVE file[i].key \in S!Keys /\ file[i].of \in 1 .. exported
  <2>1. i \in 1 .. Len(file) /\ file[i] \in Lines /\ file # <<>>
    BY <1>3
  <2>2. /\ Len(file) + Len(unwritten) = 6 + R[exported]
        /\ file[i] = S!Text(game, exported, R[exported])[i]
    BY <1>2, <2>1 DEF Printed
  <2>3. i \in 1 .. 6 + R[exported]
    BY <1>3, <2>1, <2>2
  <2>4. file[i].of = exported
    BY <1>4, <2>2, <2>3
  <2>. QED
    BY <1>3, <2>1, <2>4 DEF Lines
<1>6. ASSUME NEW i \in DOMAIN unwritten
      PROVE  unwritten[i].key \in S!Keys /\ unwritten[i].of \in 1 .. exported
  <2>1. i \in 1 .. Len(unwritten) /\ unwritten[i] \in Lines /\ unwritten # <<>>
    BY <1>3
  <2>2. /\ Len(file) + Len(unwritten) = 6 + R[exported]
        /\ unwritten[i] = S!Text(game, exported, R[exported])[Len(file) + i]
    BY <1>2, <2>1 DEF Printed
  <2>3. Len(file) + i \in 1 .. 6 + R[exported]
    BY <1>3, <2>1, <2>2
  <2>4. unwritten[i].of = exported
    BY <1>4, <2>2, <2>3
  <2>. QED
    BY <1>3, <2>1, <2>4 DEF Lines
<1>7. \A i \in DOMAIN queue : queue[i].session \in 1 .. MaxSessions
  <2>1. \A i \in DOMAIN queue : queue[i] \in Sent
    BY <1>1 DEF FileType
  <2>. QED
    BY <2>1 DEF Sent
<1>8. /\ client.phase \in S!Phases /\ client.session \in 0 .. MaxSessions
      /\ client.next \in Nat /\ client.previous \in Int /\ client.last \in Int
  BY <1>1 DEF FileType
<1>9. reader # None => reader.begun \in 0 .. exported
  BY <1>1, <1>3 DEF FileType
<1>10. /\ game \in S!Game /\ reloads \in 0 .. MaxReloads /\ asked \in 0 .. MaxForms
       /\ exported = Len(log) /\ sentAt \in 0 .. exported
  BY <1>1 DEF FileType
<1>. QED
  BY <1>5, <1>6, <1>7, <1>8, <1>9, <1>10 DEF S!TypeOK

\* File, game, forms and client keep their types, and the file shows no line of
\* another export than the last.
THEOREM SnapshotTypes == Readable => (S!Spec => []S!TypeOK)
<1> SUFFICES ASSUME Readable PROVE S!Spec => []S!TypeOK
  OBVIOUS
<1>1. SnapshotInv => S!TypeOK
  BY TypesFollow
<1>. QED
  BY <1>1, SnapshotInvariant, PTL

\* A snapshot the client observes is one export, whole, however the game rewrote
\* the file while it was read, also with the last digit of its end cut off.
THEOREM WholeExport == Readable => (S!Spec => []OneExport)
<1> SUFFICES ASSUME Readable PROVE S!Spec => []OneExport
  OBVIOUS
<1>1. SnapshotInv => OneExport
  BY DEF SnapshotInv, Whole, Shows, OneExport, S!OneExport
<1>. QED
  BY <1>1, SnapshotInvariant, PTL

\* The fields of an observed snapshot are those of one export.
THEOREM ContentOfOne == Readable => (S!Spec => []S!OneContent)
<1> SUFFICES ASSUME Readable PROVE S!Spec => []S!OneContent
  OBVIOUS
<1>1. SnapshotInv => S!OneContent
  BY DEF SnapshotInv, Whole, Shows, S!OneContent
<1>. QED
  BY <1>1, SnapshotInvariant, PTL

\* Only a turn of _wait_for observes, and it takes a fresh read.
LEMMA FreshStep ==
    ASSUME Readable, SnapshotInv, [S!Next]_(S!vars),
           observed' # observed, observed'.taken, observed'.phase # "path"
    PROVE  \A e \in observed'.snapshot.exports : e > sentAt
<1>1. FileType /\ FileInv /\ DialogInv
  BY DEF SnapshotInv
<1>2. S!Poll
  BY DEF S!Next, S!vars, S!Write, S!Evaluate, S!Reload, S!StartRead, S!ReadMore, S!SendPing,
         S!Attach, S!Ping, S!Query, S!TimesOut
<1>3. S!Accepted(reader.text) /\ reader # None
  BY <1>2 DEF S!Poll, S!AtEnd
<1>4. observed' = [snapshot |-> S!Read, phase |-> client.phase, taken |-> S!Answers(S!Read)]
  BY <1>2, <1>3 DEF S!Poll, S!Observe
<1>5. observed'.snapshot = S!Read /\ S!Answers(S!Read) /\ client.phase # "path"
  BY <1>4
<1>6. Awaiting
  BY <1>2, <1>5 DEF S!Poll, Awaiting
<1>7. PICK e \in sentAt + 1 .. exported : Shows(S!Read, log[e], e)
  BY <1>1, <1>3, <1>5, <1>6, FreshRead
<1>8. observed'.snapshot.exports = {e} /\ e > sentAt
  BY <1>1, <1>5, <1>7 DEF Shows, FileType
<1>. QED
  BY <1>8

\* What _ping, _query and the hello of initialize return was exported after they
\* sent their form, also when the answer to an earlier form comes late.
THEOREM FreshAnswer == Readable => (S!Spec => AnswerFresh)
<1> SUFFICES ASSUME Readable PROVE S!Spec => AnswerFresh
  OBVIOUS
<1>1. SnapshotInv /\ [S!Next]_(S!vars) =>
        [observed' # observed /\ observed'.taken /\ observed'.phase # "path" =>
           \A e \in observed'.snapshot.exports : e > sentAt]_(S!vars)
  BY FreshStep
<1>. QED
  BY <1>1, SnapshotInvariant, PTL DEF S!Spec, AnswerFresh, S!AnswerFresh
=============================================================================
