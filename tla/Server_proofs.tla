----------------------------- MODULE Server_proofs -----------------------------
(***************************************************************************)
(* The server around the executions.  For every set of tasks, publishers,  *)
(* callers and hosts, every limit and every answer of DNS and of the       *)
(* endpoints: the config store stays within its limit, the configs and the *)
(* card are served to those who may have them, a guarded sender dials no   *)
(* blocked address, and a failing webhook costs only its own notification. *)
(* For every launch, app name and call: the SLIM plugin reports one line   *)
(* that is true, tells names apart and serves the holder of its token.     *)
(* For every request at the door of a binding: whom the handler is called  *)
(* for, with what, and what goes back.                                     *)
(***************************************************************************)
EXTENDS PushService, ServerEntry, PluginServe, Dispatch_proofs, FunctionTheorems

(***************************************************************************)
(* Push notifications.                                                     *)
(***************************************************************************)

(* What was declared outlives the other builder calls; nothing is answered *)
(* before the handler is built.                                            *)
HandlerInv ==
  /\ handler \in [push : Flags, card : Flags, store : BOOLEAN, resolver : BOOLEAN,
                  required : BOOLEAN,
                  explicit : [push : Flags, card : Flags, required : BOOLEAN],
                  strict : BOOLEAN, guarded : BOOLEAN]
  /\ handler.explicit.push = "false" => handler.push = "false"
  /\ handler.explicit.card = "false" => handler.card = "false"
  /\ stage \in {"build", "serve"}
  /\ stage = "build" => reply = Said("none")

(* An id names one config of a task.                                       *)
Distinct(S) == \A c, d \in S : c.task = d.task /\ c.id = d.id => c = d

StoreInv ==
  /\ configs \subseteq Configs /\ IsFiniteSet(configs) /\ saves \in Nat
  /\ Distinct(configs)
  /\ \A task \in Tasks : Cardinality(Of(task)) <= MaxConfigs

Rest == [phase : {"idle", "next", "aborted"}, left : SUBSET Configs, asked : SUBSET Configs]

Dialing == [phase : {"dial"}, left : SUBSET Configs, asked : SUBSET Configs,
            to : Configs, url : Urls, hops : Nat]

(* A round that is sound: a guarded sender is about to dial a URL that was *)
(* checked, be it the config's or a redirect's; what the round is done     *)
(* with was not refused.                                                   *)
Sound(r) ==
  /\ r \in Rest \union Dialing
  /\ r.left \subseteq r.asked
  /\ r.phase = "dial" /\ handler.guarded => ValidUrl(r.url)
  /\ \A c \in r.asked \ r.left : ~Refused(c)
  /\ r.phase = "aborted" /\ ~handler.strict => \E c \in r.left : Refused(c)

RoundInv ==
  /\ DOMAIN round = Publishers /\ round = [p \in Publishers |-> round[p]]
  /\ \A p \in Publishers : Sound(round[p])
  /\ dialed \cap BlockedIps = {}

PushInv == HandlerInv /\ StoreInv /\ RoundInv

LEMMA InitPushInv == Init => PushInv
<1>. SUFFICES ASSUME Init PROVE PushInv
  OBVIOUS
<1>1. PICK set \in Settings :
         handler = [push |-> Unset, card |-> Unset, store |-> FALSE,
                    resolver |-> FALSE, required |-> FALSE,
                    explicit |-> [push |-> Unset, card |-> Unset, required |-> FALSE],
                    strict |-> set.strict, guarded |-> set.guarded]
  BY Zenon DEF Init
<1>2. /\ stage = "build" /\ configs = {} /\ saves = 0 /\ reply = Said("none")
      /\ round = [p \in Publishers |-> Idle] /\ dialed = {}
  BY DEF Init
<1>3. HandlerInv
  <2>1. set.strict \in BOOLEAN /\ set.guarded \in BOOLEAN
    BY PushInputs
  <2>2. QED
    BY <1>1, <1>2, <2>1 DEF HandlerInv, Flags, Unset
<1>4. StoreInv
  <2>1. IsFiniteSet(configs) /\ \A task \in Tasks : Of(task) = {}
    BY <1>2, FS_EmptySet DEF Of
  <2>2. \A task \in Tasks : Cardinality(Of(task)) <= MaxConfigs
    BY <2>1, FS_EmptySet, PushBounds
  <2>3. QED
    BY <1>2, <2>1, <2>2 DEF StoreInv, Distinct
<1>5. RoundInv
  BY <1>2 DEF RoundInv, Sound, Rest, Idle
<1>6. QED
  BY <1>3, <1>4, <1>5 DEF PushInv

-----------------------------------------------------------------------------
(* The four kinds of step.                                                 *)

Builds ==
  \/ WithPushNotifications \/ WithExtendedAgentCard \/ Serve
  \/ \E caps \in Declarations : WithCapabilities(caps)

Reads(caller) ==
  \/ GetExtendedAgentCard(caller)
  \/ \E task \in Tasks : ListPushConfigs(caller, task)
  \/ \E cfg \in Offered : GetPushConfig(caller, cfg.task, cfg.id)

Writes(caller) ==
  \E cfg \in Offered : \/ DeletePushConfig(caller, cfg.task, cfg.id)
                       \/ CreatePushConfig(caller, cfg)

Delivers(p) ==
  \/ \E task \in Tasks : Publish(p, task)
  \/ Send(p) \/ EndRound(p)
  \/ \E found \in SUBSET Literals : Dial(p, found)

LEMMA KindsOfStep ==
  Next <=> \/ Builds
           \/ \E caller \in Callers : Reads(caller) \/ Writes(caller)
           \/ \E p \in Publishers : Delivers(p)
BY DEF Next, Builds, Reads, Writes, Delivers

(* A call answers: it leaves the handler and the deliveries alone, and a   *)
(* read the configs too.                                                   *)
LEMMA CallFrame ==
  ASSUME NEW caller \in Callers, Reads(caller) \/ Writes(caller)
  PROVE  /\ stage = "serve" /\ UNCHANGED <<handler, stage, round, dialed>>
         /\ Reads(caller) => UNCHANGED <<configs, saves>>
<1>1. CASE GetExtendedAgentCard(caller)
  BY <1>1, Zenon DEF GetExtendedAgentCard, Answer
<1>2. ASSUME NEW task \in Tasks, ListPushConfigs(caller, task)
      PROVE  /\ stage = "serve" /\ UNCHANGED <<handler, stage, round, dialed>>
             /\ UNCHANGED <<configs, saves>>
  BY <1>2, Zenon DEF ListPushConfigs, Answer
<1>3. ASSUME NEW cfg \in Offered, GetPushConfig(caller, cfg.task, cfg.id)
      PROVE  /\ stage = "serve" /\ UNCHANGED <<handler, stage, round, dialed>>
             /\ UNCHANGED <<configs, saves>>
  BY <1>3, Zenon DEF GetPushConfig, Answer
<1>4. ASSUME NEW cfg \in Offered, \/ DeletePushConfig(caller, cfg.task, cfg.id)
                                  \/ CreatePushConfig(caller, cfg)
      PROVE  stage = "serve" /\ UNCHANGED <<handler, stage, round, dialed>>
  BY <1>4, Zenon DEF DeletePushConfig, CreatePushConfig, Save, Answer
<1>5. QED
  BY <1>1, <1>2, <1>3, <1>4 DEF Reads, Writes

(* A delivery touches only its round and the addresses dialed.             *)
LEMMA DeliveryFrame ==
  ASSUME NEW p \in Publishers, Delivers(p)
  PROVE  UNCHANGED <<handler, stage, configs, saves>> /\ reply' = Said("none")
<1>1. ASSUME NEW task \in Tasks, Publish(p, task)
      PROVE  UNCHANGED <<handler, stage, configs, saves>> /\ reply' = Said("none")
  BY <1>1 DEF Publish, Deliver
<1>2. CASE Send(p)
  <2>1. PICK r : Deliver(p, r)
    BY <1>2 DEF Send
  <2>2. QED
    BY <2>1 DEF Deliver
<1>3. CASE EndRound(p)
  BY <1>3 DEF EndRound, Deliver
<1>4. ASSUME NEW found \in SUBSET Literals, Dial(p, found)
      PROVE  UNCHANGED <<handler, stage, configs, saves>> /\ reply' = Said("none")
  <2>1. \E r : Deliver(p, r)
    BY <1>4, Zenon DEF Dial
  <2>2. QED
    BY <2>1 DEF Deliver
<1>5. QED
  BY <1>1, <1>2, <1>3, <1>4 DEF Delivers

-----------------------------------------------------------------------------
(* The builder and the handler it leaves.                                  *)

LEMMA BuildKeepsHandler ==
  ASSUME HandlerInv, Builds
  PROVE  /\ HandlerInv' /\ UNCHANGED <<configs, saves, reply, round, dialed>>
         /\ handler'.strict = handler.strict /\ handler'.guarded = handler.guarded
<1>1. CASE WithPushNotifications
  BY <1>1 DEF WithPushNotifications, HandlerInv, GetOrInsert, Flags, Unset
<1>2. CASE WithExtendedAgentCard
  BY <1>2 DEF WithExtendedAgentCard, HandlerInv, GetOrInsert, Flags, Unset
<1>3. CASE Serve
  BY <1>3 DEF Serve, HandlerInv
<1>4. ASSUME NEW caps \in Declarations, WithCapabilities(caps)
      PROVE  /\ HandlerInv' /\ UNCHANGED <<configs, saves, reply, round, dialed>>
             /\ handler'.strict = handler.strict /\ handler'.guarded = handler.guarded
  <2>1. caps \in [push : Flags, card : Flags, required : BOOLEAN]
    BY PushInputs
  <2>2. handler' = [handler EXCEPT !.push = caps.push, !.card = caps.card,
                                   !.required = caps.required, !.explicit = caps]
        /\ UNCHANGED <<stage, configs, saves, reply, round, dialed>>
    BY <1>4 DEF WithCapabilities
  <2>3. QED
    BY <2>1, <2>2 DEF HandlerInv
<1>5. QED
  BY <1>1, <1>2, <1>3, <1>4 DEF Builds

LEMMA HandlerKeeps == HandlerInv /\ [Next]_vars => HandlerInv'
<1>. SUFFICES ASSUME HandlerInv, [Next]_vars PROVE HandlerInv'
  OBVIOUS
<1>1. CASE Builds
  BY <1>1, BuildKeepsHandler
<1>2. ASSUME NEW caller \in Callers, Reads(caller) \/ Writes(caller) PROVE HandlerInv'
  BY <1>2, CallFrame DEF HandlerInv
<1>3. ASSUME NEW p \in Publishers, Delivers(p) PROVE HandlerInv'
  BY <1>3, DeliveryFrame DEF HandlerInv
<1>4. CASE UNCHANGED vars
  BY <1>4 DEF vars, HandlerInv
<1>5. QED
  BY <1>1, <1>2, <1>3, <1>4, KindsOfStep

-----------------------------------------------------------------------------
(* The config store.                                                       *)

(* Nothing is added when configs are dropped.                              *)
LEMMA FewerConfigs ==
  ASSUME StoreInv, configs' \subseteq configs, saves' \in Nat
  PROVE  StoreInv'
<1>1. configs' \subseteq Configs /\ IsFiniteSet(configs') /\ Distinct(configs')
  BY FS_Subset DEF StoreInv, Distinct
<1>2. ASSUME NEW task \in Tasks PROVE Cardinality(Of(task)') <= MaxConfigs
  <2>1. Of(task) \subseteq configs /\ Of(task)' \in SUBSET Of(task)
    BY DEF Of
  <2>2. IsFiniteSet(Of(task))
    BY <2>1, FS_Subset DEF StoreInv
  <2>3. /\ Cardinality(Of(task)') <= Cardinality(Of(task))
        /\ Cardinality(Of(task)') \in Nat /\ Cardinality(Of(task)) \in Nat
    BY <2>1, <2>2, FS_Subset, FS_CardinalityType
  <2>4. QED
    BY <2>3, PushBounds DEF StoreInv
<1>3. QED
  BY <1>1, <1>2 DEF StoreInv

(* A new config finds room; one that is replaced made it.                  *)
LEMMA SavedConfig ==
  ASSUME StoreInv, NEW cfg \in Offered, NEW id \in Nat, ~Full(cfg.task, id),
         configs' = {c \in configs : c.task # cfg.task \/ c.id # id}
                      \union {[cfg EXCEPT !.id = id]},
         saves' \in Nat
  PROVE  StoreInv'
<1>. DEFINE new == [cfg EXCEPT !.id = id]
            kept == {c \in configs : c.task # cfg.task \/ c.id # id}
<1>1. /\ cfg \in Configs /\ new \in Configs /\ new.id = id /\ new.task = cfg.task
      /\ cfg.task \in Tasks
  BY PushInputs DEF Configs
<1>. HIDE DEF new
<1>2. configs' = kept \union {new}
  BY DEF new
<1>3. kept \subseteq configs /\ kept \subseteq Configs /\ IsFiniteSet(kept)
  BY FS_Subset DEF StoreInv
<1>4. configs' \subseteq Configs /\ IsFiniteSet(configs')
  BY <1>1, <1>2, <1>3, FS_AddElement
<1>5. Distinct(configs')
  BY <1>1, <1>2 DEF StoreInv, Distinct
<1>6. ASSUME NEW task \in Tasks PROVE Cardinality(Of(task)') <= MaxConfigs
  <2>1. IsFiniteSet(Of(task)) /\ Cardinality(Of(task)) \in Nat
        /\ Cardinality(Of(task)) <= MaxConfigs
    BY FS_Subset, FS_CardinalityType DEF StoreInv, Of
  <2>2. CASE task # cfg.task
    <3>1. Of(task)' = Of(task)
      BY <1>1, <1>2, <2>2 DEF Of
    <3>2. QED
      BY <2>1, <3>1
  <2>3. CASE task = cfg.task
    <3>1. Of(task)' = {c \in Of(task) : c.id # id} \union {new}
      BY <1>1, <1>2, <2>3 DEF Of
    <3>2. CASE \E c \in Of(task) : c.id = id
      <4>1. PICK old \in Of(task) : old.id = id
        BY <3>2
      <4>2. {c \in Of(task) : c.id # id} = Of(task) \ {old}
        BY <4>1 DEF StoreInv, Distinct, Of
      <4>3. new \notin Of(task) \ {old}
        BY <1>1, <4>2
      <4>4. /\ IsFiniteSet(Of(task) \ {old})
            /\ Cardinality(Of(task) \ {old}) = Cardinality(Of(task)) - 1
        BY <2>1, <4>1, FS_RemoveElement
      <4>5. Cardinality((Of(task) \ {old}) \union {new}) = Cardinality(Of(task) \ {old}) + 1
        BY <4>3, <4>4, FS_AddElement
      <4>6. Of(task)' = (Of(task) \ {old}) \union {new}
        BY <3>1, <4>2
      <4>7. QED
        BY <2>1, <4>4, <4>5, <4>6
    <3>3. CASE ~\E c \in Of(task) : c.id = id
      <4>1. {c \in Of(task) : c.id # id} = Of(task) /\ new \notin Of(task)
        BY <1>1, <3>3
      <4>2. Cardinality(Of(task)') = Cardinality(Of(task)) + 1
        BY <2>1, <3>1, <4>1, FS_AddElement
      <4>3. ~(Cardinality(Of(task)) >= MaxConfigs)
        BY <2>3, <3>3 DEF Full
      <4>4. QED
        BY <2>1, <4>2, <4>3, PushBounds
    <3>4. QED
      BY <3>2, <3>3
  <2>4. QED
    BY <2>2, <2>3
<1>7. QED
  BY <1>4, <1>5, <1>6 DEF StoreInv

LEMMA StoreKeeps == StoreInv /\ HandlerInv /\ [Next]_vars => StoreInv'
<1>. SUFFICES ASSUME StoreInv, HandlerInv, [Next]_vars PROVE StoreInv'
  OBVIOUS
<1>1. ASSUME UNCHANGED <<configs, saves>> PROVE StoreInv'
  BY <1>1 DEF StoreInv, Of, Distinct
<1>2. ASSUME NEW cfg \in Offered, NEW caller \in Callers, CreatePushConfig(caller, cfg)
      PROVE  StoreInv'
  <2>1. Cardinality(Offered) \in Nat /\ saves \in Nat
    BY PushInputs, FS_CardinalityType DEF StoreInv
  <2>2. CASE Save(cfg)
    <3>. DEFINE id == IF cfg.id = 0 THEN Cardinality(Offered) + saves + 1 ELSE cfg.id
    <3>1. id \in Nat
      BY <2>1, PushInputs DEF Configs
    <3>2. saves' = saves + 1
          /\ IF Full(cfg.task, id)
             THEN UNCHANGED configs
             ELSE configs' = {c \in configs : c.task # cfg.task \/ c.id # id}
                             \union {[cfg EXCEPT !.id = id]}
      BY <2>2 DEF Save
    <3>3. saves' \in Nat
      BY <2>1, <3>2
    <3>. HIDE DEF id
    <3>4. CASE Full(cfg.task, id)
      BY <3>2, <3>3, <3>4, FewerConfigs
    <3>5. CASE ~Full(cfg.task, id)
      BY <3>1, <3>2, <3>3, <3>5, SavedConfig
    <3>6. QED
      BY <3>4, <3>5
  <2>3. QED
    BY <1>1, <1>2, <2>2 DEF CreatePushConfig
<1>3. ASSUME NEW cfg \in Offered, NEW caller \in Callers,
             DeletePushConfig(caller, cfg.task, cfg.id)
      PROVE  StoreInv'
  <2>1. configs' \subseteq configs /\ saves' = saves
    BY <1>3 DEF DeletePushConfig, Without
  <2>2. QED
    BY <2>1, FewerConfigs DEF StoreInv
<1>4. ASSUME NEW caller \in Callers, Reads(caller) PROVE StoreInv'
  BY <1>1, <1>4, CallFrame
<1>5. CASE Builds
  BY <1>1, <1>5, BuildKeepsHandler
<1>6. ASSUME NEW p \in Publishers, Delivers(p) PROVE StoreInv'
  BY <1>1, <1>6, DeliveryFrame
<1>7. CASE UNCHANGED vars
  BY <1>1, <1>7 DEF vars
<1>8. QED
  BY <1>2, <1>3, <1>4, <1>5, <1>6, <1>7, KindsOfStep DEF Writes

-----------------------------------------------------------------------------
(* The deliveries.                                                         *)

(* A step of p puts a sound round in the place of its own.                 *)
LEMMA RoundOfP ==
  ASSUME RoundInv, NEW p \in Publishers, NEW r, Sound(r), Deliver(p, r),
         dialed' \cap BlockedIps = {}
  PROVE  RoundInv'
<1>1. round' = [round EXCEPT ![p] = r] /\ handler' = handler
  BY DEF Deliver
<1>2. ASSUME NEW q \in Publishers PROVE Sound(round[q])'
  <2>1. Sound(round'[q])
    BY <1>1 DEF RoundInv
  <2>2. QED
    BY <1>1, <2>1 DEF Sound, Refused, ValidUrl
<1>3. QED
  BY <1>1, <1>2 DEF RoundInv

LEMMA PublishKeeps ==
  ASSUME StoreInv, RoundInv, NEW p \in Publishers, NEW task \in Tasks, Publish(p, task)
  PROVE  RoundInv'
<1>. DEFINE r == [phase |-> "next", left |-> Of(task), asked |-> Of(task)]
<1>1. Of(task) \subseteq Configs
  BY DEF StoreInv, Of
<1>2. Sound(r)
  BY <1>1 DEF Sound, Rest
<1>3. Deliver(p, r) /\ UNCHANGED dialed
  BY DEF Publish
<1>. HIDE DEF r
<1>4. QED
  BY <1>2, <1>3, RoundOfP DEF RoundInv

(* What a dial, or a config told, leaves for the next one.                 *)
LEMMA SendKeeps ==
  ASSUME RoundInv, NEW p \in Publishers, Send(p)
  PROVE  RoundInv'
<1>. DEFINE r == round[p]
<1>1. r \in Rest /\ r.left \subseteq r.asked /\ \A d \in r.asked \ r.left : ~Refused(d)
  BY DEF Send, RoundInv, Sound, Dialing
<1>2. PICK c \in r.left :
        Deliver(p, IF Refused(c) THEN [r EXCEPT !.phase = "aborted"]
                   ELSE [phase |-> "dial", left |-> r.left \ {c}, asked |-> r.asked,
                         to |-> c, url |-> c.url, hops |-> 0])
  BY DEF Send
<1>. HIDE DEF r
<1>3. c \in Configs /\ c \in r.asked /\ c.url \in Urls
  BY <1>1, <1>2 DEF Rest, Configs
<1>4. dialed' \cap BlockedIps = {}
  BY DEF Send, RoundInv
<1>5. CASE Refused(c)
  <2>. DEFINE q == [r EXCEPT !.phase = "aborted"]
  <2>1. q \in Rest /\ q.left = r.left /\ q.asked = r.asked /\ q.phase = "aborted"
    BY <1>1 DEF Rest
  <2>2. Deliver(p, q)
    BY <1>2, <1>5
  <2>. HIDE DEF q
  <2>3. Sound(q)
    BY <1>1, <1>2, <1>5, <2>1 DEF Sound
  <2>4. QED
    BY <1>4, <2>2, <2>3, RoundOfP
<1>6. CASE ~Refused(c)
  <2>. DEFINE q == [phase |-> "dial", left |-> r.left \ {c}, asked |-> r.asked,
                    to |-> c, url |-> c.url, hops |-> 0]
  <2>1. q \in Dialing
    BY <1>1, <1>3 DEF Rest, Dialing
  <2>2. Deliver(p, q)
    BY <1>2, <1>6
  <2>3. /\ q.phase = "dial" /\ q.left = r.left \ {c} /\ q.asked = r.asked /\ q.url = c.url
        /\ q.left \subseteq q.asked /\ \A d \in q.asked \ q.left : ~Refused(d)
    BY <1>1, <1>6
  <2>4. handler.guarded => ValidUrl(q.url)
    BY <1>6, <2>3 DEF Refused
  <2>5. Sound(q)
    BY <2>1, <2>3, <2>4 DEF Sound
  <2>. HIDE DEF q
  <2>6. QED
    BY <1>4, <2>2, <2>5, RoundOfP
<1>7. QED
  BY <1>5, <1>6

LEMMA EndRoundKeeps ==
  ASSUME RoundInv, NEW p \in Publishers, EndRound(p)
  PROVE  RoundInv'
<1>1. Sound(Idle)
  BY DEF Sound, Idle, Rest
<1>2. Deliver(p, Idle) /\ UNCHANGED dialed
  BY DEF EndRound
<1>3. QED
  BY <1>1, <1>2, RoundOfP DEF RoundInv

(* No address the client may dial for a checked URL is blocked, whatever   *)
(* DNS answers.                                                            *)
LEMMA NothingBlocked ==
  ASSUME handler.guarded, NEW url \in Urls, ValidUrl(url), NEW found \in SUBSET Literals
  PROVE  Connectable(url, found) \cap BlockedIps = {}
BY DEF Connectable, ValidUrl

(* A failed dial aborts the round of a strict sender only.                 *)
LEMMA DialKeeps ==
  ASSUME HandlerInv, RoundInv, NEW p \in Publishers, NEW found \in SUBSET Literals,
         Dial(p, found)
  PROVE  RoundInv'
<1>. DEFINE r    == round[p]
            fail == AfterFailure(r)
            told == [phase |-> "next", left |-> r.left, asked |-> r.asked]
<1>1. /\ r \in Dialing /\ r.left \subseteq r.asked /\ r.url \in Urls /\ r.hops \in Nat
      /\ \A c \in r.asked \ r.left : ~Refused(c)
      /\ handler.guarded => ValidUrl(r.url)
      /\ handler.strict \in BOOLEAN /\ handler.guarded \in BOOLEAN
  BY DEF Dial, RoundInv, Sound, Rest, Dialing, HandlerInv
<1>2. Sound(fail)
  <2>1. CASE handler.strict
    BY <1>1, <2>1 DEF AfterFailure, Sound, Rest, Dialing
  <2>2. CASE ~handler.strict
    BY <1>1, <2>2 DEF AfterFailure, Sound, Rest, Dialing
  <2>3. QED
    BY <2>1, <2>2
<1>3. Sound(told)
  BY <1>1 DEF Sound, Rest, Dialing
<1>4. ASSUME NEW url \in Urls, ~(handler.guarded /\ ~ValidUrl(url))
      PROVE  Sound([r EXCEPT !.url = url, !.hops = r.hops + 1])
  <2>1. r.hops + 1 \in Nat
    BY <1>1
  <2>2. [r EXCEPT !.url = url, !.hops = r.hops + 1] \in Dialing
    BY <1>1, <2>1 DEF Dialing
  <2>3. QED
    BY <1>1, <1>4, <2>2 DEF Sound, Dialing
<1>5. dialed' \cap BlockedIps = {}
  <2>1. \/ UNCHANGED dialed
        \/ \E a \in Connectable(r.url, found) :
             dialed' = IF handler.guarded THEN dialed \union {a} ELSE dialed
    BY DEF Dial
  <2>2. handler.guarded => Connectable(r.url, found) \cap BlockedIps = {}
    BY <1>1, NothingBlocked
  <2>3. QED
    BY <2>1, <2>2 DEF RoundInv
<1>6. \/ Deliver(p, fail) \/ Deliver(p, told)
      \/ \E url \in Urls :
           Deliver(p, IF r.hops >= MaxHops \/ (handler.guarded /\ ~ValidUrl(url))
                      THEN fail ELSE [r EXCEPT !.url = url, !.hops = r.hops + 1])
  BY Zenon DEF Dial
<1>7. ASSUME Deliver(p, fail) PROVE RoundInv'
  BY <1>2, <1>5, <1>7, RoundOfP
<1>8. ASSUME Deliver(p, told) PROVE RoundInv'
  BY <1>3, <1>5, <1>8, RoundOfP
<1>9. ASSUME NEW url \in Urls,
             Deliver(p, IF r.hops >= MaxHops \/ (handler.guarded /\ ~ValidUrl(url))
                        THEN fail ELSE [r EXCEPT !.url = url, !.hops = r.hops + 1])
      PROVE  RoundInv'
  <2>1. CASE r.hops >= MaxHops \/ (handler.guarded /\ ~ValidUrl(url))
    BY <1>7, <1>9, <2>1
  <2>2. CASE ~(r.hops >= MaxHops \/ (handler.guarded /\ ~ValidUrl(url)))
    <3>1. Deliver(p, [r EXCEPT !.url = url, !.hops = r.hops + 1])
      BY <1>9, <2>2
    <3>2. Sound([r EXCEPT !.url = url, !.hops = r.hops + 1])
      BY <1>4, <2>2
    <3>3. QED
      BY <1>5, <3>1, <3>2, RoundOfP
  <2>3. QED
    BY <2>1, <2>2
<1>10. QED
  BY <1>6, <1>7, <1>8, <1>9

LEMMA NextPushInv == PushInv /\ [Next]_vars => PushInv'
<1>. SUFFICES ASSUME PushInv, [Next]_vars PROVE PushInv'
  OBVIOUS
<1>1. HandlerInv' /\ StoreInv'
  BY HandlerKeeps, StoreKeeps DEF PushInv
<1>2. ASSUME /\ UNCHANGED <<round, dialed>>
             /\ handler'.strict = handler.strict /\ handler'.guarded = handler.guarded
      PROVE  RoundInv'
  <2>1. ASSUME NEW p \in Publishers PROVE Sound(round[p])'
    BY <1>2 DEF PushInv, RoundInv, Sound, Refused, ValidUrl
  <2>2. QED
    BY <1>2, <2>1 DEF PushInv, RoundInv
<1>3. ASSUME Builds PROVE RoundInv'
  BY <1>2, <1>3, BuildKeepsHandler DEF PushInv
<1>4. ASSUME NEW caller \in Callers, Reads(caller) \/ Writes(caller) PROVE RoundInv'
  BY <1>2, <1>4, CallFrame
<1>5. ASSUME NEW p \in Publishers, Delivers(p) PROVE RoundInv'
  BY <1>5, PublishKeeps, SendKeeps, EndRoundKeeps, DialKeeps DEF PushInv, Delivers
<1>6. ASSUME UNCHANGED vars PROVE RoundInv'
  BY <1>2, <1>6 DEF vars
<1>7. RoundInv'
  BY <1>3, <1>4, <1>5, <1>6, KindsOfStep DEF PushInv
<1>8. QED
  BY <1>1, <1>7 DEF PushInv

(* The handler, the config store and the rounds keep their types: a task   *)
(* never has more than MaxConfigs configs, nor two of one id.              *)
THEOREM PushTypeCorrect == Spec => []TypeOK
<1>1. PushInv => TypeOK
  <2>. SUFFICES ASSUME PushInv PROVE TypeOK
    OBVIOUS
  <2>1. ASSUME NEW task \in Tasks
        PROVE  Cardinality({c.id : c \in Of(task)}) = Cardinality(Of(task))
    <3>. DEFINE S == Of(task)
                ids == {c.id : c \in S}
                f == [c \in S |-> c.id]
    <3>1. IsFiniteSet(S)
      BY FS_Subset DEF PushInv, StoreInv, Of
    <3>2. \A c, d \in S : c.id = d.id => c = d
      BY DEF PushInv, StoreInv, Distinct, Of
    <3>. HIDE DEF S
    <3>3. f \in Bijection(S, ids)
      <4>1. f \in [S -> ids]
        OBVIOUS
      <4>2. \A a, b \in S : f[a] = f[b] => a = b
        BY <3>2
      <4>3. \A t \in ids : \E c \in S : f[c] = t
        OBVIOUS
      <4>. HIDE DEF f, ids
      <4>4. QED
        BY <4>1, <4>2, <4>3, Fun_IsBij
    <3>4. ExistsBijection(S, ids)
      BY <3>3 DEF ExistsBijection
    <3>5. Cardinality(ids) = Cardinality(S)
      BY <3>1, <3>4, FS_Bijection
    <3>6. QED
      BY <3>5 DEF S
  <2>2. ASSUME NEW p \in Publishers
        PROVE  round[p].phase \in {"idle", "next", "dial", "aborted"}
    BY DEF PushInv, RoundInv, Sound, Rest, Dialing
  <2>3. QED
    BY <2>1, <2>2 DEF PushInv, HandlerInv, StoreInv, TypeOK
<1>2. QED
  BY InitPushInv, NextPushInv, <1>1, PTL DEF Spec

(* validate_urls holds against whatever DNS and the endpoints answer: a    *)
(* guarded sender connects to no blocked address.                          *)
THEOREM NothingBlockedIsDialed == Spec => []NeverDialsBlocked
<1>1. PushInv => NeverDialsBlocked
  BY DEF PushInv, RoundInv, NeverDialsBlocked
<1>2. QED
  BY InitPushInv, NextPushInv, <1>1, PTL DEF Spec

(* For any configs, settings and answers: nothing is requested of a config *)
(* that is refused, and without fail_on_error only a refused config that   *)
(* is still left cuts a round short (send_push, handle_error).             *)
THEOREM FailuresAreIsolated == Spec => []OnlyRefusalsCutShort
<1>1. PushInv => OnlyRefusalsCutShort
  BY DEF PushInv, RoundInv, Sound, OnlyRefusalsCutShort
<1>2. QED
  BY InitPushInv, NextPushInv, <1>1, PTL DEF Spec

-----------------------------------------------------------------------------
(* The pages of list_push_configs.  The configs of a task are sorted by    *)
(* id: each has a place, one more than the configs below it.               *)

Below(S, c) == {d \in S : d.id < c.id}

LEMMA BelowIsFewer ==
  ASSUME NEW S, IsFiniteSet(S), NEW c \in S, c.id \in Nat
  PROVE  /\ Below(S, c) \subseteq S \ {c} /\ IsFiniteSet(Below(S, c))
         /\ Cardinality(Below(S, c)) \in Nat
         /\ Cardinality(Below(S, c)) <= Cardinality(S) - 1
<1>1. Below(S, c) \subseteq S \ {c}
  BY DEF Below
<1>2. IsFiniteSet(S \ {c}) /\ Cardinality(S \ {c}) = Cardinality(S) - 1
  BY FS_RemoveElement
<1>3. IsFiniteSet(Below(S, c)) /\ Cardinality(Below(S, c)) <= Cardinality(S \ {c})
  BY <1>1, <1>2, FS_Subset
<1>4. QED
  BY <1>1, <1>2, <1>3, FS_CardinalityType

LEMMA BelowGrows ==
  ASSUME NEW S, IsFiniteSet(S), \A x \in S : x.id \in Nat,
         NEW c \in S, NEW d \in S, c.id < d.id
  PROVE  Cardinality(Below(S, c)) # Cardinality(Below(S, d))
<1>1. /\ Below(S, c) \subseteq Below(S, d)
      /\ c \in Below(S, d) /\ c \notin Below(S, c)
  BY DEF Below
<1>2. IsFiniteSet(Below(S, d))
  BY BelowIsFewer
<1>3. QED
  BY <1>1, <1>2, FS_Subset

(* Every place is taken.                                                   *)
LEMMA EveryPlaceTaken ==
  ASSUME NEW S, IsFiniteSet(S), \A x \in S : x.id \in Nat,
         \A x, y \in S : x.id = y.id => x = y,
         NEW i \in 1 .. Cardinality(S)
  PROVE  \E c \in S : Cardinality(Below(S, c)) = i - 1
<1>. DEFINE n == Cardinality(S)
            place == [c \in S |-> Cardinality(Below(S, c)) + 1]
<1>1. n \in Nat
  BY FS_CardinalityType
<1>2. ASSUME NEW c \in S PROVE Cardinality(Below(S, c)) + 1 \in 1 .. n
  BY <1>1, BelowIsFewer
<1>3. ASSUME NEW c \in S, NEW d \in S, place[c] = place[d] PROVE c = d
  <2>1. Cardinality(Below(S, c)) = Cardinality(Below(S, d))
    <3>1. /\ Cardinality(Below(S, c)) \in Nat /\ Cardinality(Below(S, d)) \in Nat
      BY BelowIsFewer
    <3>2. QED
      BY <1>3, <3>1
  <2>2. ~(c.id < d.id) /\ ~(d.id < c.id)
    BY <2>1, BelowGrows
  <2>3. QED
    BY <2>2
<1>4. place \in [S -> 1 .. n]
  BY <1>2
<1>5. place \in Injection(S, 1 .. n)
  BY <1>3, <1>4, Fun_IsInj
<1>6. IsFiniteSet(1 .. n) /\ Cardinality(1 .. n) = n
  <2>1. 1 \in Int /\ n \in Int
    BY <1>1
  <2>2. QED
    BY <1>1, <2>1, FS_Interval
<1>7. place \in Surjection(S, 1 .. n)
  BY <1>5, <1>6, FS_Injection
<1>. HIDE DEF place
<1>8. PICK c \in S : place[c] = i
  <2>1. \A t \in 1 .. n : \E c \in S : place[c] = t
    BY <1>7, Fun_SurjectionProperties
  <2>2. i \in 1 .. n
    OBVIOUS
  <2>3. QED
    BY <2>1, <2>2
<1>9. Cardinality(Below(S, c)) \in Nat
  BY BelowIsFewer
<1>10. QED
  BY <1>1, <1>8, <1>9 DEF place

(* Nobody is above the last.                                               *)
LEMMA LastIsGreatest ==
  ASSUME NEW S, IsFiniteSet(S), \A x \in S : x.id \in Nat,
         NEW c \in S, Cardinality(Below(S, c)) = Cardinality(S) - 1
  PROVE  \A d \in S : d.id <= c.id
<1>1. IsFiniteSet(S \ {c}) /\ Cardinality(S \ {c}) = Cardinality(S) - 1
  BY FS_RemoveElement
<1>2. Below(S, c) \in SUBSET (S \ {c})
  BY BelowIsFewer
<1>3. Below(S, c) = S \ {c}
  BY <1>1, <1>2, FS_Subset
<1>4. QED
  BY <1>3 DEF Below

LEMMA SameLength == ASSUME NEW m \in Nat, NEW n \in Nat, 1 .. m = 1 .. n PROVE m = n
<1>1. m \in 1 .. m \/ m = 0
  OBVIOUS
<1>2. n \in 1 .. n \/ n = 0
  OBVIOUS
<1>3. QED
  BY <1>1, <1>2

(* A page shows configs of its task; one that names no next page ends with *)
(* the greatest of them.                                                   *)
LEMMA PageIsOfTask ==
  ASSUME StoreInv, NEW task \in Tasks, NEW start \in Nat, NEW size \in Nat \ {0}
  PROVE  LET r == ConfigPage(task, start, size)
         IN  /\ \A i \in DOMAIN r.page : r.page[i] \in Of(task)
             /\ r.next = 0 /\ r.page # <<>> =>
                  /\ r.page[1] \in Of(task)
                  /\ \A c \in Of(task) : c.id <= r.page[Len(r.page)].id
<1>. DEFINE S      == Of(task)
            n      == Cardinality(S)
            sorted == [i \in 1 .. n |->
                         CHOOSE c \in S : Cardinality({d \in S : d.id < c.id}) = i - 1]
            from   == Least(start, Len(sorted))
            to     == Least(from + size, Len(sorted))
            page   == SubSeq(sorted, from + 1, to)
<1>1. IsFiniteSet(S) /\ (\A x \in S : x.id \in Nat)
      /\ \A x, y \in S : x.id = y.id => x = y
  BY FS_Subset DEF StoreInv, Distinct, Of, Configs
<1>2. n \in Nat
  BY <1>1, FS_CardinalityType
<1>3. ConfigPage(task, start, size) =
        [is |-> "page", page |-> page, next |-> IF to < Len(sorted) THEN to ELSE 0]
  BY DEF ConfigPage
<1>. HIDE DEF S
<1>4. ASSUME NEW i \in 1 .. n
      PROVE  sorted[i] \in S /\ Cardinality(Below(S, sorted[i])) = i - 1
  <2>1. \E c \in S : Cardinality({d \in S : d.id < c.id}) = i - 1
    BY <1>1, EveryPlaceTaken DEF Below
  <2>2. sorted[i] = CHOOSE c \in S : Cardinality({d \in S : d.id < c.id}) = i - 1
    OBVIOUS
  <2>. HIDE DEF sorted
  <2>3. QED
    BY <2>1, <2>2 DEF Below
<1>5. sorted \in Seq(S) /\ Len(sorted) = n
  <2>1. sorted \in [1 .. n -> S]
    BY <1>4
  <2>2. DOMAIN sorted = 1 .. n
    OBVIOUS
  <2>. HIDE DEF sorted, n
  <2>3. sorted \in Seq(S)
    BY <1>2, <2>1, SeqDef
  <2>4. Len(sorted) \in Nat /\ DOMAIN sorted = 1 .. Len(sorted)
    BY <2>3, LenProperties
  <2>5. QED
    BY <1>2, <2>2, <2>3, <2>4, SameLength
<1>. HIDE DEF sorted, n
<1>6. from \in 0 .. n /\ to \in from .. n /\ (n > 0 => to > 0)
  BY <1>2, <1>5 DEF Least
<1>. HIDE DEF from, to
<1>7. /\ \A i \in from + 1 .. to : sorted[i] \in S
      /\ from + 1 \in Int /\ to \in Int
  BY <1>2, <1>4, <1>6
<1>8. /\ page \in Seq(S)
      /\ Len(page) = IF from + 1 <= to THEN to - (from + 1) + 1 ELSE 0
      /\ \A i \in 1 .. to - (from + 1) + 1 : page[i] = sorted[from + 1 + i - 1]
  BY <1>7, SubSeqProperties
<1>. HIDE DEF page
<1>9. \A i \in DOMAIN page : page[i] \in S
  BY <1>8, LenProperties, ElementOfSeq
<1>10. ASSUME ~(to < Len(sorted)) \/ to = 0, page # <<>>
       PROVE  page[1] \in S /\ \A c \in S : c.id <= page[Len(page)].id
  <2>1. Len(page) > 0
    BY <1>8, <1>10, EmptySeq, LenProperties
  <2>2. from + 1 <= to /\ Len(page) = to - from
    BY <1>6, <1>8, <2>1
  <2>3. to = n /\ n \in 1 .. n
    BY <1>2, <1>5, <1>6, <1>10, <2>2
  <2>4. page[Len(page)] = sorted[to]
    <3>1. Len(page) \in 1 .. to - (from + 1) + 1 /\ from + 1 + Len(page) - 1 = to
      BY <1>6, <1>2, <2>2
    <3>2. QED
      BY <1>8, <3>1
  <2>5. sorted[n] \in S /\ Cardinality(Below(S, sorted[n])) = Cardinality(S) - 1
    BY <1>4, <2>3 DEF n
  <2>6. \A c \in S : c.id <= sorted[n].id
    BY <1>1, <2>5, LastIsGreatest
  <2>7. 1 \in DOMAIN page
    BY <1>8, <2>1, LenProperties
  <2>8. QED
    BY <1>9, <2>3, <2>4, <2>6, <2>7
<1>11. QED
  BY <1>3, <1>9, <1>10 DEF S

-----------------------------------------------------------------------------
(* Who may do what.                                                        *)

(* A call that passes the gate may have what it asks for.                  *)
LEMMA GatePasses ==
  ASSUME HandlerInv, NEW caller \in Callers, NEW task \in Tasks, Gate(caller, task) = "ok"
  PROVE  PushServed(caller) /\ task \in caller.may
<1>1. Authorize(caller, task) = "ok" /\ PushStoreChecked = "ok"
  BY DEF Gate
<1>2. ~(handler.required /\ ~caller.ext) /\ task \in caller.may
  BY <1>1 DEF Authorize
<1>3. ~(handler.push = "false" \/ ~handler.store)
  BY <1>1 DEF PushStoreChecked
<1>4. QED
  BY <1>2, <1>3 DEF HandlerInv, PushServed

(* What the gate says is no page and no card.                              *)
LEMMA GateSays ==
  ASSUME NEW caller, NEW task
  PROVE  Gate(caller, task) \notin {"page", "card"}
BY DEF Gate, Authorize, PushStoreChecked

LEMMA ListPermitted ==
  ASSUME PushInv, NEW caller \in Callers, NEW task \in Tasks, ListPushConfigs(caller, task)
  PROVE  ConfigsPermitted /\ PagePermitted /\ CardPermitted
<1>1. UNCHANGED configs
  BY DEF ListPushConfigs
<1>2. ASSUME NEW r, reply' = Said(r), r \notin {"page", "card"}
      PROVE  ConfigsPermitted /\ PagePermitted /\ CardPermitted
  BY <1>1, <1>2 DEF Said, ConfigsPermitted, PagePermitted, CardPermitted
<1>3. CASE Gate(caller, task) # "ok"
  <2>1. reply' = Said(Gate(caller, task))
    BY <1>3 DEF ListPushConfigs, Answer
  <2>2. QED
    BY <1>2, <2>1, GateSays
<1>4. CASE Gate(caller, task) = "ok" /\ reply' = Said("INVALID_PARAMS")
  BY <1>2, <1>4
<1>5. ASSUME Gate(caller, task) = "ok", NEW start \in 0 .. MaxConfigs,
             NEW size \in 1 .. MaxConfigs, reply' = ConfigPage(task, start, size)
      PROVE  ConfigsPermitted /\ PagePermitted /\ CardPermitted
  <2>1. start \in Nat /\ size \in Nat \ {0}
    BY PushBounds
  <2>2. /\ \A i \in DOMAIN reply'.page : reply'.page[i] \in Of(task)
        /\ reply'.next = 0 /\ reply'.page # <<>> =>
             /\ reply'.page[1] \in Of(task)
             /\ \A c \in Of(task) : c.id <= reply'.page[Len(reply'.page)].id
    BY <1>5, <2>1, PageIsOfTask DEF PushInv
  <2>3. PushServed(caller) /\ task \in caller.may
    BY <1>5, GatePasses DEF PushInv
  <2>4. reply'.is = "page"
    BY <1>5 DEF ConfigPage
  <2>5. PagePermitted
    BY <2>2, <2>3 DEF PagePermitted, Of
  <2>6. QED
    BY <1>1, <2>4, <2>5 DEF ConfigsPermitted, CardPermitted
<1>6. \/ Gate(caller, task) # "ok"
      \/ Gate(caller, task) = "ok" /\ reply' = Said("INVALID_PARAMS")
      \/ \E start \in 0 .. MaxConfigs, size \in 1 .. MaxConfigs :
           Gate(caller, task) = "ok" /\ reply' = ConfigPage(task, start, size)
  BY Zenon DEF ListPushConfigs, Answer
<1>7. QED
  BY <1>3, <1>4, <1>5, <1>6

LEMMA CardIsPermitted ==
  ASSUME PushInv, NEW caller \in Callers, GetExtendedAgentCard(caller)
  PROVE  ConfigsPermitted /\ PagePermitted /\ CardPermitted
<1>1. UNCHANGED configs
  BY DEF GetExtendedAgentCard
<1>2. /\ reply'.is # "page"
      /\ reply'.is = "card" => handler.card # "false" /\ handler.resolver
  BY DEF GetExtendedAgentCard, Answer, Said
<1>3. QED
  BY <1>1, <1>2 DEF PushInv, HandlerInv, ConfigsPermitted, PagePermitted, CardPermitted

(* Changes, and answers that are neither a page nor a card.                *)
LEMMA WritePermitted ==
  ASSUME PushInv, NEW caller \in Callers, NEW cfg \in Offered,
         \/ GetPushConfig(caller, cfg.task, cfg.id)
         \/ DeletePushConfig(caller, cfg.task, cfg.id)
         \/ CreatePushConfig(caller, cfg)
  PROVE  ConfigsPermitted /\ PagePermitted /\ CardPermitted
<1>1. cfg.task \in Tasks
  BY PushInputs DEF Configs
<1>2. /\ configs' # configs => Gate(caller, cfg.task) = "ok"
      /\ \A c \in Changed : c.task = cfg.task
  <2>1. CASE GetPushConfig(caller, cfg.task, cfg.id)
    BY <2>1 DEF GetPushConfig, Changed
  <2>2. CASE DeletePushConfig(caller, cfg.task, cfg.id)
    <3>1. /\ Gate(caller, cfg.task) # "ok" => configs' = configs
          /\ configs' = configs \/ configs' = Without(cfg.task, cfg.id)
      BY <2>2 DEF DeletePushConfig
    <3>2. QED
      BY <3>1 DEF Without, Of, Changed
  <2>3. CASE CreatePushConfig(caller, cfg)
    <3>. DEFINE id == IF cfg.id = 0 THEN Cardinality(Offered) + saves + 1 ELSE cfg.id
    <3>1. \/ UNCHANGED configs
          \/ /\ Gate(caller, cfg.task) = "ok"
             /\ configs' = {c \in configs : c.task # cfg.task \/ c.id # id}
                             \union {[cfg EXCEPT !.id = id]}
      BY <2>3 DEF CreatePushConfig, Save
    <3>2. [cfg EXCEPT !.id = id].task = cfg.task
      BY PushInputs DEF Configs
    <3>. HIDE DEF id
    <3>3. QED
      BY <3>1, <3>2 DEF Changed
  <2>4. QED
    BY <2>1, <2>2, <2>3
<1>3. \E r : reply' = Said(r) /\ r \notin {"page", "card"}
  <2>1. CASE GetPushConfig(caller, cfg.task, cfg.id)
    <3>1. Lookup(cfg.task, cfg.id) \notin {"page", "card"}
      BY DEF Lookup
    <3>2. \/ reply' = Said(Gate(caller, cfg.task))
          \/ reply' = Said(Lookup(cfg.task, cfg.id))
      BY <2>1 DEF GetPushConfig, Answer
    <3>3. QED
      BY <3>1, <3>2, GateSays
  <2>2. CASE DeletePushConfig(caller, cfg.task, cfg.id)
    BY <2>2, GateSays DEF DeletePushConfig, Answer
  <2>3. CASE CreatePushConfig(caller, cfg)
    <3>1. \/ reply' = Said("INVALID_PARAMS") \/ reply' = Said("ok")
          \/ reply' = Said(Gate(caller, cfg.task))
      BY <2>3, Zenon DEF CreatePushConfig, Save, Answer
    <3>2. QED
      BY <3>1, GateSays
  <2>4. QED
    BY <2>1, <2>2, <2>3
<1>4. ConfigsPermitted
  <2>1. ASSUME Gate(caller, cfg.task) = "ok" PROVE PushServed(caller) /\ cfg.task \in caller.may
    BY <1>1, <2>1, GatePasses DEF PushInv
  <2>2. QED
    BY <1>2, <2>1 DEF ConfigsPermitted
<1>5. PagePermitted /\ CardPermitted
  BY <1>3 DEF Said, PagePermitted, CardPermitted
<1>6. QED
  BY <1>4, <1>5

(* Configs and card are in the hands of those who may have them, on a      *)
(* handler that offers them; and a last page hides nothing.                *)
THEOREM OnlyThePermitted == Spec => OnlyPermitted
<1>1. PushInv /\ [Next]_vars => [ConfigsPermitted /\ PagePermitted /\ CardPermitted]_vars
  <2>. SUFFICES ASSUME PushInv, Next
                PROVE  ConfigsPermitted /\ PagePermitted /\ CardPermitted
    OBVIOUS
  <2>1. ASSUME UNCHANGED configs, reply' = Said("none")
        PROVE  ConfigsPermitted /\ PagePermitted /\ CardPermitted
    BY <2>1 DEF Said, ConfigsPermitted, PagePermitted, CardPermitted
  <2>2. CASE Builds
    <3>1. stage = "build"
      BY <2>2 DEF Builds, WithPushNotifications, WithExtendedAgentCard, WithCapabilities, Serve
    <3>2. UNCHANGED configs /\ reply' = Said("none")
      BY <2>2, <3>1, BuildKeepsHandler DEF PushInv, HandlerInv
    <3>3. QED
      BY <2>1, <3>2
  <2>3. ASSUME NEW caller \in Callers, Reads(caller) \/ Writes(caller)
        PROVE  ConfigsPermitted /\ PagePermitted /\ CardPermitted
    BY <2>3, ListPermitted, CardIsPermitted, WritePermitted DEF Reads, Writes
  <2>4. ASSUME NEW p \in Publishers, Delivers(p)
        PROVE  ConfigsPermitted /\ PagePermitted /\ CardPermitted
    BY <2>1, <2>4, DeliveryFrame
  <2>5. QED
    BY <2>2, <2>3, <2>4, KindsOfStep
<1>2. QED
  BY InitPushInv, NextPushInv, <1>1, PTL DEF Spec, OnlyPermitted

-----------------------------------------------------------------------------
(***************************************************************************)
(* The plugin.                                                             *)
(***************************************************************************)

(* Flattening.  f is the flattening of every prefix of s.                  *)
Unfolds(f, s, k) ==
  f = [i \in 1 .. k |-> IF i = 1 THEN s[i] ELSE f[i - 1] \o s[i]]

LEMMA ConcatAt ==
  ASSUME NEW S, NEW a \in Seq(S), NEW b \in Seq(S)
  PROVE  /\ \A p \in 1 .. Len(a) : (a \o b)[p] = a[p]
         /\ \A p \in 1 .. Len(b) : (a \o b)[Len(a) + p] = b[p]
OBVIOUS

LEMMA UnfoldingExists ==
  ASSUME NEW S, NEW s \in Seq(Seq(S)), NEW n \in 1 .. Len(s)
  PROVE  \E f \in [1 .. n -> Seq(S)] : Unfolds(f, s, n)
<1> DEFINE Bad == {k \in 1 .. Len(s) : ~\E f \in [1 .. k -> Seq(S)] : Unfolds(f, s, k)}
<1>1. SUFFICES ASSUME Bad # {} PROVE FALSE
  OBVIOUS
<1>2. Bad \in SUBSET Nat
  OBVIOUS
<1>3. PICK k \in Bad : \A j \in Bad : k <= j
  BY <1>1, <1>2, LeastNumber
<1>4. k \in 1 .. Len(s) /\ ~\E f \in [1 .. k -> Seq(S)] : Unfolds(f, s, k)
  BY <1>3
<1>5. CASE k = 1
  <2> DEFINE f == [i \in 1 .. 1 |-> s[1]]
  <2>1. f \in [1 .. 1 -> Seq(S)] /\ Unfolds(f, s, 1)
    BY <1>4 DEF Unfolds
  <2> QED BY <2>1, <1>4, <1>5
<1>6. CASE k # 1
  <2>1. k - 1 \in 1 .. Len(s) /\ k \in Nat /\ ~(k <= k - 1)
    BY <1>4, <1>6
  <2>a. k - 1 \notin Bad
    BY <2>1, <1>3
  <2>2. PICK g \in [1 .. k - 1 -> Seq(S)] : Unfolds(g, s, k - 1)
    BY <2>1, <2>a
  <2> DEFINE f == [i \in 1 .. k |-> IF i = k THEN g[k - 1] \o s[k] ELSE g[i]]
  <2>3. g[k - 1] \in Seq(S) /\ s[k] \in Seq(S)
    BY <1>4, <2>1
  <2>4. g[k - 1] \o s[k] \in Seq(S)
    BY <2>3
  <2>5. f \in [1 .. k -> Seq(S)]
    BY <2>1, <2>4
  <2>6. ASSUME NEW i \in 1 .. k
        PROVE  f[i] = IF i = 1 THEN s[i] ELSE f[i - 1] \o s[i]
    <3>1. CASE i = k
      <4>1. k - 1 \in 1 .. k /\ k - 1 # k
        BY <2>1
      <4>2. f[k] = g[k - 1] \o s[k] /\ f[k - 1] = g[k - 1]
        <5>1. k \in 1 .. k
          BY <2>1, <1>4
        <5> QED BY <4>1, <5>1
      <4> HIDE DEF f
      <4> QED BY <3>1, <1>6, <4>2
    <3>2. CASE i # k
      <4>1. i \in 1 .. k - 1 /\ f[i] = g[i]
        BY <3>2, <2>1
      <4>2. g[i] = IF i = 1 THEN s[i] ELSE g[i - 1] \o s[i]
        BY <2>2, <4>1 DEF Unfolds
      <4>3. i # 1 => i - 1 \in 1 .. k /\ i - 1 # k /\ f[i - 1] = g[i - 1]
        BY <4>1, <2>1
      <4> QED BY <4>1, <4>2, <4>3
    <3> QED BY <3>1, <3>2
  <2>7. f = [i \in 1 .. k |-> IF i = 1 THEN s[i] ELSE f[i - 1] \o s[i]]
    BY <2>6
  <2>8. Unfolds(f, s, k)
    BY <2>7 DEF Unfolds
  <2> QED BY <2>5, <2>8, <1>4
<1> QED BY <1>5, <1>6

(* The elements of s stand in its flattening one after the other: that of  *)
(* the i-th ends at at[i].                                                 *)
Stands(flat, s, at) ==
  /\ at \in [0 .. Len(s) -> Nat] /\ at[0] = 0 /\ at[Len(s)] = Len(flat)
  /\ \A i \in 1 .. Len(s) : at[i] = at[i - 1] + Len(s[i])
  /\ \A i \in 1 .. Len(s) : \A p \in 1 .. Len(s[i]) :
       at[i - 1] + p <= Len(flat) /\ flat[at[i - 1] + p] = s[i][p]

LEMMA Flattened ==
  ASSUME NEW S, NEW s \in Seq(Seq(S))
  PROVE  /\ FlattenSeq(s) \in Seq(S)
         /\ \E at : Stands(FlattenSeq(s), s, at)
<1>1. CASE Len(s) = 0
  <2>1. s = <<>> /\ FlattenSeq(s) = <<>>
    BY <1>1 DEF FlattenSeq
  <2> DEFINE at == [i \in 0 .. 0 |-> 0]
  <2>2. Stands(FlattenSeq(s), s, at)
    BY <2>1 DEF Stands
  <2> QED BY <2>1, <2>2
<1>2. CASE Len(s) # 0
  <2> DEFINE n == Len(s)
             f == CHOOSE f : Unfolds(f, s, n)
             at == [i \in 0 .. n |-> IF i = 0 THEN 0 ELSE Len(f[i])]
  <2>1. n \in Nat /\ n \in 1 .. Len(s)
    BY <1>2
  <2>2. PICK g \in [1 .. n -> Seq(S)] : Unfolds(g, s, n)
    BY <2>1, UnfoldingExists
  <2>3. Unfolds(f, s, n)
    BY <2>2
  <2>4. FlattenSeq(s) = f[n]
    BY <1>2 DEF FlattenSeq, Unfolds
  <2> HIDE DEF f
  <2>5. f = [i \in 1 .. n |-> IF i = 1 THEN s[i] ELSE f[i - 1] \o s[i]]
    BY <2>3 DEF Unfolds
  <2>a. \A i \in 1 .. n : f[i] = IF i = 1 THEN s[i] ELSE f[i - 1] \o s[i]
    BY <2>5
  <2>b. 1 \in 1 .. n /\ \A i \in 2 .. n : i \in 1 .. n /\ i # 1
    BY <2>1
  <2>6. /\ f[1] = s[1]
        /\ \A i \in 2 .. n : f[i] = f[i - 1] \o s[i]
    BY <2>a, <2>b
  <2>7. \A i \in 1 .. n : s[i] \in Seq(S)
    BY <2>1
  <2> DEFINE Good(k) ==
               /\ f[k] \in Seq(S)
               /\ \A i \in 1 .. k : \A p \in 1 .. Len(s[i]) :
                    at[i - 1] + p <= Len(f[k]) /\ f[k][at[i - 1] + p] = s[i][p]
             Bad == {k \in 1 .. n : ~Good(k)}
  <2>8. Bad = {}
    <3> SUFFICES ASSUME Bad # {} PROVE FALSE
      OBVIOUS
    <3>1. Bad \in SUBSET Nat
      OBVIOUS
    <3>2. PICK k \in 1 .. n : ~Good(k) /\ \A j \in 1 .. n : ~Good(j) => k <= j
      <4>1. PICK k \in Bad : \A j \in Bad : k <= j
        BY <3>1, LeastNumber
      <4> HIDE DEF Good
      <4> QED BY <4>1
    <3> HIDE DEF Good, Bad
    <3>3. k \in 1 .. n /\ ~Good(k)
      BY <3>2
    <3>4. CASE k = 1
      <4>1. f[1] = s[1] /\ s[1] \in Seq(S) /\ at[0] = 0
        BY <2>6, <2>7, <2>1
      <4>2. Good(1)
        BY <4>1 DEF Good
      <4> QED BY <4>2, <3>3, <3>4
    <3>5. CASE k # 1
      <4>1. k - 1 \in 1 .. n /\ k \in 2 .. n /\ k \in Nat /\ ~(k <= k - 1)
        BY <3>3, <3>5, <2>1
      <4>3. Good(k - 1)
        BY <3>2, <4>1
      <4>4. f[k - 1] \in Seq(S) /\ s[k] \in Seq(S) /\ f[k] = f[k - 1] \o s[k]
        BY <4>1, <4>3, <2>6, <2>7 DEF Good
      <4> HIDE DEF at
      <4>5. f[k] \in Seq(S) /\ Len(f[k]) = Len(f[k - 1]) + Len(s[k])
        BY <4>4
      <4>6. ASSUME NEW i \in 1 .. k, NEW p \in 1 .. Len(s[i])
            PROVE  at[i - 1] + p <= Len(f[k]) /\ f[k][at[i - 1] + p] = s[i][p]
        <5>1. CASE i = k
          <6>1. at[k - 1] = Len(f[k - 1])
            <7>1. k - 1 \in 0 .. n /\ k - 1 # 0
              BY <4>1
            <7> QED BY <7>1 DEF at
          <6>2. p \in 1 .. Len(s[k])
            BY <4>6, <5>1
          <6>3. f[k][Len(f[k - 1]) + p] = s[k][p]
            <7> DEFINE a == f[k - 1]
                       b == s[k]
            <7>1. a \in Seq(S) /\ b \in Seq(S) /\ p \in 1 .. Len(b) /\ f[k] = a \o b
              BY <4>4, <6>2
            <7> HIDE DEF a, b
            <7>2. (a \o b)[Len(a) + p] = b[p]
              BY <7>1, ConcatAt
            <7>3. f[k][Len(a) + p] = b[p]
              BY <7>1, <7>2
            <7> QED BY <7>3 DEF a, b
          <6>4. Len(f[k - 1]) \in Nat /\ Len(s[k]) \in Nat
            BY <4>4
          <6>5. Len(f[k - 1]) + p <= Len(f[k])
            BY <4>5, <6>2, <6>4
          <6> QED BY <6>1, <6>3, <6>5, <5>1
        <5>2. CASE i # k
          <6>1. i \in 1 .. k - 1 /\ i \in 1 .. n
            BY <5>2, <4>1
          <6>2. at[i - 1] + p <= Len(f[k - 1]) /\ f[k - 1][at[i - 1] + p] = s[i][p]
            BY <4>3, <4>6, <6>1 DEF Good
          <6>3. at[i - 1] \in Nat
            <7>1. i - 1 \in 0 .. n /\ (i - 1 # 0 => i - 1 \in 1 .. k - 1)
              BY <6>1, <4>1
            <7>2. CASE i = 1
              BY <7>1, <7>2 DEF at
            <7>3. CASE i # 1
              <8>1. i - 1 \in 1 .. n /\ ~(k <= i - 1)
                BY <6>1, <7>1, <7>3, <4>1
              <8>2. Good(i - 1)
                BY <8>1, <3>2
              <8>3. f[i - 1] \in Seq(S)
                BY <8>2 DEF Good
              <8> QED BY <7>1, <7>3, <8>3 DEF at
            <7> QED BY <7>2, <7>3
          <6>4. s[i] \in Seq(S) /\ p \in Nat \ {0}
            BY <6>1, <2>7, <4>6
          <6>a. Len(f[k - 1]) \in Nat /\ Len(s[k]) \in Nat
            BY <4>4
          <6>5. at[i - 1] + p \in 1 .. Len(f[k - 1])
            <7> DEFINE q == at[i - 1]
                       a == Len(f[k - 1])
            <7>1. q \in Nat /\ p \in Nat /\ p # 0 /\ a \in Nat /\ q + p <= a
              BY <6>2, <6>3, <6>4, <6>a
            <7> HIDE DEF q, a
            <7>2. q + p \in 1 .. a
              BY <7>1
            <7> QED BY <7>2 DEF q, a
          <6>6. f[k][at[i - 1] + p] = f[k - 1][at[i - 1] + p]
            <7> DEFINE a == f[k - 1]
                       b == s[k]
                       q == at[i - 1] + p
            <7>1. a \in Seq(S) /\ b \in Seq(S) /\ q \in 1 .. Len(a) /\ f[k] = a \o b
              BY <4>4, <6>5
            <7> HIDE DEF a, b, q
            <7>2. (a \o b)[q] = a[q]
              BY <7>1, ConcatAt
            <7>3. f[k][q] = a[q]
              BY <7>1, <7>2
            <7> QED BY <7>3 DEF a, q
          <6>7. at[i - 1] + p <= Len(f[k])
            <7> DEFINE q == at[i - 1] + p
                       a == Len(f[k - 1])
                       b == Len(s[k])
            <7>1. q \in 1 .. a /\ a \in Nat /\ b \in Nat /\ Len(f[k]) = a + b
              BY <6>5, <6>a, <4>5
            <7> HIDE DEF q, a, b
            <7>2. q <= a + b
              BY <7>1
            <7>3. q <= Len(f[k])
              BY <7>1, <7>2
            <7> QED BY <7>3 DEF q
          <6> QED BY <6>2, <6>6, <6>7
        <5> QED BY <5>1, <5>2
      <4>7. Good(k)
        BY <4>5, <4>6 DEF Good
      <4> QED BY <4>7, <3>3
    <3> QED BY <3>4, <3>5
  <2>9. \A k \in 1 .. n : f[k] \in Seq(S)
    BY <2>8
  <2>10. Good(n)
    BY <2>8, <2>1
  <2>11. at \in [0 .. n -> Nat] /\ at[0] = 0 /\ at[n] = Len(f[n])
    BY <2>1, <2>9
  <2>12. ASSUME NEW i \in 1 .. n PROVE at[i] = at[i - 1] + Len(s[i])
    <3>1. CASE i = 1
      <4>1. f[1] = s[1] /\ s[1] \in Seq(S)
        BY <2>6, <2>7, <2>1
      <4> QED BY <3>1, <2>1, <4>1
    <3>2. CASE i # 1
      <4>1. i \in 2 .. n /\ i - 1 \in 1 .. n
        BY <3>2, <2>1
      <4>2. f[i] = f[i - 1] \o s[i] /\ f[i - 1] \in Seq(S) /\ s[i] \in Seq(S)
        BY <4>1, <2>6, <2>7, <2>9
      <4>3. Len(f[i]) = Len(f[i - 1]) + Len(s[i])
        BY <4>2
      <4>4. at[i] = Len(f[i]) /\ at[i - 1] = Len(f[i - 1])
        BY <4>1
      <4> HIDE DEF at
      <4> QED BY <4>3, <4>4
    <3> QED BY <3>1, <3>2
  <2> HIDE DEF at
  <2>13. Stands(f[n], s, at)
    BY <2>10, <2>11, <2>12 DEF Stands
  <2> QED BY <2>4, <2>10, <2>13
<1> QED BY <1>1, <1>2

-----------------------------------------------------------------------------
(* Labels.                                                                 *)

(* What names and labels are written in.                                   *)
Letter == STRING \union {"/", "-", "2", "f", "d"}

Coded(name) == [i \in DOMAIN name |-> Escaped(name[i])]

LEMMA ThreeLetters == \A a, b, c \in Letter : <<a, b, c>> \in Seq(Letter)
<1>1. ASSUME NEW S, NEW a \in S, NEW b \in S, NEW c \in S PROVE <<a, b, c>> \in Seq(S)
  OBVIOUS
<1> QED BY <1>1

LEMMA CodeOf ==
  ASSUME NEW c \in Letter
  PROVE  /\ Escaped(c) \in Seq(Letter) /\ Len(Escaped(c)) \in {1, 3}
         /\ c \notin {"/", "-"} => Len(Escaped(c)) = 1 /\ Escaped(c)[1] = c
         /\ c \in {"/", "-"} => Len(Escaped(c)) = 3 /\ Escaped(c)[1] = "-"
         /\ c = "/" => Escaped(c)[3] = "f"
         /\ c = "-" => Escaped(c)[3] = "d"
<1>1. CASE c = "/"
  <2>1. Escaped(c) = <<"-", "2", "f">>
    BY <1>1 DEF Escaped
  <2>2. /\ Escaped(c) \in Seq(Letter) /\ Len(Escaped(c)) = 3
        /\ Escaped(c)[1] = "-" /\ Escaped(c)[3] = "f"
    <3>1. <<"-", "2", "f">> \in Seq(Letter)
      <4>1. "-" \in Letter /\ "2" \in Letter /\ "f" \in Letter
        BY DEF Letter
      <4> QED BY <4>1, ThreeLetters, Zenon
    <3>2. /\ Len(<<"-", "2", "f">>) = 3
          /\ <<"-", "2", "f">>[1] = "-" /\ <<"-", "2", "f">>[3] = "f"
      OBVIOUS
    <3> QED BY <2>1, <3>1, <3>2
  <2> QED BY <1>1, <2>2
<1>2. CASE c = "-"
  <2>1. Escaped(c) = <<"-", "2", "d">>
    BY <1>2 DEF Escaped
  <2>2. /\ Escaped(c) \in Seq(Letter) /\ Len(Escaped(c)) = 3
        /\ Escaped(c)[1] = "-" /\ Escaped(c)[3] = "d"
    <3>1. <<"-", "2", "d">> \in Seq(Letter)
      <4>1. "-" \in Letter /\ "2" \in Letter /\ "d" \in Letter
        BY DEF Letter
      <4> QED BY <4>1, ThreeLetters, Zenon
    <3>2. /\ Len(<<"-", "2", "d">>) = 3
          /\ <<"-", "2", "d">>[1] = "-" /\ <<"-", "2", "d">>[3] = "d"
      OBVIOUS
    <3> QED BY <2>1, <3>1, <3>2
  <2> QED BY <1>2, <2>2
<1>3. CASE c \notin {"/", "-"}
  <2>1. Escaped(c) = <<c>>
    BY <1>3 DEF Escaped
  <2> QED BY <1>3, <2>1
<1> QED BY <1>1, <1>2, <1>3

LEMMA CodeNotEmpty ==
  ASSUME NEW c \in Letter PROVE 1 \in 1 .. Len(Escaped(c))
<1>1. Len(Escaped(c)) = 1 \/ Len(Escaped(c)) = 3
  BY CodeOf
<1> QED BY <1>1

LEMMA CodedType ==
  ASSUME NEW name \in Seq(Letter)
  PROVE  /\ Coded(name) \in Seq(Seq(Letter)) /\ Len(Coded(name)) = Len(name)
         /\ \A i \in 1 .. Len(name) : name[i] \in Letter /\ Coded(name)[i] = Escaped(name[i])
<1>1. DOMAIN name = 1 .. Len(name) /\ Len(name) \in Nat
  OBVIOUS
<1>2. \A i \in 1 .. Len(name) : name[i] \in Letter
  OBVIOUS
<1>3. \A i \in 1 .. Len(name) : Escaped(name[i]) \in Seq(Letter)
  BY <1>2, CodeOf
<1> QED BY <1>1, <1>2, <1>3 DEF Coded

(* Where two labels agree, so do the names: no code begins another.        *)
LEMMA LabelTells ==
  ASSUME NEW m \in Seq(Letter), NEW n \in Seq(Letter),
         FlattenSeq(Coded(m)) = FlattenSeq(Coded(n)), Len(m) <= Len(n)
  PROVE  m = n
<1> DEFINE flat == FlattenSeq(Coded(m))
<1>1. flat \in Seq(Letter) /\ Len(flat) \in Nat
  <2>1. flat \in Seq(Letter)
    BY CodedType, Flattened
  <2> QED BY <2>1
<1>2. PICK f : Stands(flat, Coded(m), f)
  BY CodedType, Flattened
<1>3. PICK g : Stands(flat, Coded(n), g)
  BY CodedType, Flattened
<1>4. Len(m) \in Nat /\ Len(n) \in Nat
  OBVIOUS
<1> HIDE DEF flat
<1>a. /\ Len(Coded(m)) = Len(m) /\ Len(Coded(n)) = Len(n)
      /\ \A i \in 1 .. Len(m) : Coded(m)[i] = Escaped(m[i])
      /\ \A i \in 1 .. Len(n) : Coded(n)[i] = Escaped(n[i])
  BY CodedType
<1>5. /\ f \in [0 .. Len(m) -> Nat] /\ f[0] = 0 /\ f[Len(m)] = Len(flat)
      /\ \A i \in 1 .. Len(m) : f[i] = f[i - 1] + Len(Escaped(m[i]))
      /\ \A i \in 1 .. Len(m) : \A p \in 1 .. Len(Escaped(m[i])) :
           flat[f[i - 1] + p] = Escaped(m[i])[p]
  <2> DEFINE s == Coded(m)
  <2>1. Stands(flat, s, f) /\ Len(s) = Len(m) /\ \A i \in 1 .. Len(m) : s[i] = Escaped(m[i])
    BY <1>2, <1>a
  <2> HIDE DEF s
  <2>2. /\ f \in [0 .. Len(m) -> Nat] /\ f[0] = 0 /\ f[Len(m)] = Len(flat)
        /\ \A i \in 1 .. Len(m) : f[i] = f[i - 1] + Len(s[i])
        /\ \A i \in 1 .. Len(m) : \A p \in 1 .. Len(s[i]) :
             f[i - 1] + p <= Len(flat) /\ flat[f[i - 1] + p] = s[i][p]
    BY <2>1 DEF Stands
  <2>3. \A i \in 1 .. Len(m) : f[i] = f[i - 1] + Len(Escaped(m[i]))
    BY <2>1, <2>2
  <2>4. ASSUME NEW i \in 1 .. Len(m), NEW p \in 1 .. Len(Escaped(m[i]))
        PROVE  f[i - 1] + p <= Len(flat) /\ flat[f[i - 1] + p] = Escaped(m[i])[p]
    <3>1. s[i] = Escaped(m[i])
      BY <2>1
    <3> QED BY <3>1, <2>2
  <2> QED BY <2>2, <2>3, <2>4
<1>6. /\ g \in [0 .. Len(n) -> Nat] /\ g[0] = 0 /\ g[Len(n)] = Len(flat)
      /\ \A i \in 1 .. Len(n) : g[i] = g[i - 1] + Len(Escaped(n[i]))
      /\ \A i \in 1 .. Len(n) : \A p \in 1 .. Len(Escaped(n[i])) :
           g[i - 1] + p <= Len(flat) /\ flat[g[i - 1] + p] = Escaped(n[i])[p]
  <2> DEFINE s == Coded(n)
  <2>1. Stands(flat, s, g) /\ Len(s) = Len(n) /\ \A i \in 1 .. Len(n) : s[i] = Escaped(n[i])
    BY <1>3, <1>a
  <2> HIDE DEF s
  <2>2. /\ g \in [0 .. Len(n) -> Nat] /\ g[0] = 0 /\ g[Len(n)] = Len(flat)
        /\ \A i \in 1 .. Len(n) : g[i] = g[i - 1] + Len(s[i])
        /\ \A i \in 1 .. Len(n) : \A p \in 1 .. Len(s[i]) :
             g[i - 1] + p <= Len(flat) /\ flat[g[i - 1] + p] = s[i][p]
    BY <2>1 DEF Stands
  <2>3. \A i \in 1 .. Len(n) : g[i] = g[i - 1] + Len(Escaped(n[i]))
    BY <2>1, <2>2
  <2>4. ASSUME NEW i \in 1 .. Len(n), NEW p \in 1 .. Len(Escaped(n[i]))
        PROVE  g[i - 1] + p <= Len(flat) /\ flat[g[i - 1] + p] = Escaped(n[i])[p]
    <3>1. s[i] = Escaped(n[i])
      BY <2>1
    <3> QED BY <3>1, <2>2
  <2> QED BY <2>2, <2>3, <2>4
<1> DEFINE Good(i) == m[i] = n[i] /\ f[i] = g[i]
           Bad == {i \in 1 .. Len(m) : ~Good(i)}
<1>7. Bad = {}
  <2> SUFFICES ASSUME Bad # {} PROVE FALSE
    OBVIOUS
  <2>1. PICK i \in 1 .. Len(m) : ~Good(i) /\ \A j \in 1 .. Len(m) : ~Good(j) => i <= j
    <3>1. Bad \in SUBSET Nat
      OBVIOUS
    <3>2. PICK i \in Bad : \A j \in Bad : i <= j
      BY <3>1, LeastNumber
    <3> HIDE DEF Good
    <3> QED BY <3>2
  <2>2. i \in 1 .. Len(n) /\ i \in Nat /\ i - 1 \in 0 .. Len(m) /\ ~(i <= i - 1)
    BY <1>4
  <2>3. f[i - 1] = g[i - 1] /\ f[i - 1] \in Nat
    <3>1. CASE i = 1
      <4>1. i - 1 = 0
        BY <3>1
      <4>2. f[0] = 0 /\ g[0] = 0
        BY <1>5, <1>6
      <4> QED BY <4>1, <4>2
    <3>2. CASE i # 1
      <4>1. i - 1 \in 1 .. Len(m)
        BY <2>2, <3>2
      <4>2. Good(i - 1)
        <5> HIDE DEF Good
        <5> QED BY <4>1, <2>1, <2>2
      <4>3. f[i - 1] \in Nat
        BY <2>2, <1>5
      <4> QED BY <4>2, <4>3
    <3> QED BY <3>1, <3>2
  <2> DEFINE a == m[i]
             b == n[i]
             z == f[i - 1]
  <2>4. /\ a \in Letter /\ b \in Letter /\ z \in Nat
        /\ f[i] = z + Len(Escaped(a)) /\ g[i] = z + Len(Escaped(b))
        /\ \A p \in 1 .. Len(Escaped(a)) : flat[z + p] = Escaped(a)[p]
        /\ \A p \in 1 .. Len(Escaped(b)) : flat[z + p] = Escaped(b)[p]
    <3>1. a \in Letter /\ b \in Letter
      BY <2>2, CodedType
    <3>2. z \in Nat /\ g[i - 1] = z
      BY <2>3
    <3>3. f[i] = z + Len(Escaped(a)) /\ \A p \in 1 .. Len(Escaped(a)) : flat[z + p] = Escaped(a)[p]
      BY <1>5
    <3>4. g[i] = z + Len(Escaped(b)) /\ \A p \in 1 .. Len(Escaped(b)) : flat[z + p] = Escaped(b)[p]
      BY <1>6, <2>2, <3>2
    <3> QED BY <3>1, <3>2, <3>3, <3>4
  <2> HIDE DEF a, b, z
  <2>5. Escaped(a)[1] = Escaped(b)[1]
    <3>a. \A c \in Letter : 1 \in 1 .. Len(Escaped(c))
      <4>1. ASSUME NEW c \in Letter PROVE 1 \in 1 .. Len(Escaped(c))
        <5>1. Len(Escaped(c)) \in {1, 3}
          BY CodeOf
        <5>2. \A x \in {1, 3} : 1 \in 1 .. x
          OBVIOUS
        <5> QED BY <5>1, <5>2, Zenon
      <4> QED BY <4>1
    <3>1. 1 \in 1 .. Len(Escaped(a)) /\ 1 \in 1 .. Len(Escaped(b))
      BY <2>4, <3>a
    <3>2. flat[z + 1] = Escaped(a)[1] /\ flat[z + 1] = Escaped(b)[1]
      BY <3>1, <2>4
    <3> QED BY <3>2
  <2>6. a = b
    <3>1. CASE a \in {"/", "-"} /\ b \in {"/", "-"}
      <4>1. 3 \in 1 .. Len(Escaped(a)) /\ 3 \in 1 .. Len(Escaped(b))
        BY <3>1, <2>4, CodeOf
      <4>2. flat[z + 3] = Escaped(a)[3] /\ flat[z + 3] = Escaped(b)[3]
        BY <4>1, <2>4
      <4> QED BY <4>2, <3>1, <2>4, CodeOf
    <3>2. CASE a \in {"/", "-"} /\ b \notin {"/", "-"}
      BY <3>2, <2>4, <2>5, CodeOf
    <3>3. CASE a \notin {"/", "-"} /\ b \in {"/", "-"}
      BY <3>3, <2>4, <2>5, CodeOf
    <3>4. CASE a \notin {"/", "-"} /\ b \notin {"/", "-"}
      BY <3>4, <2>4, <2>5, CodeOf
    <3> QED BY <3>1, <3>2, <3>3, <3>4
  <2>7. f[i] = g[i]
    BY <2>4, <2>6
  <2> QED BY <2>1, <2>6, <2>7 DEF a, b
<1>8. \A i \in 1 .. Len(m) : m[i] = n[i] /\ f[i] = g[i]
  BY <1>7
<1>9. Len(m) = Len(n)
  <2> SUFFICES ASSUME Len(m) < Len(n) PROVE FALSE
    BY <1>4
  <2> DEFINE i == Len(m) + 1
  <2>1. i \in 1 .. Len(n) /\ i - 1 = Len(m) /\ Len(m) \in 0 .. Len(n)
    BY <1>4
  <2>2. g[Len(m)] = Len(flat)
    <3>1. CASE Len(m) = 0
      BY <3>1, <1>5, <1>6
    <3>2. CASE Len(m) # 0
      <4>1. Len(m) \in 1 .. Len(m)
        BY <3>2, <1>4
      <4> QED BY <4>1, <1>5, <1>8
    <3> QED BY <3>1, <3>2
  <2>3. 1 \in 1 .. Len(Escaped(n[i]))
    <3>1. n[i] \in Letter
      BY <2>1, CodedType
    <3> HIDE DEF i
    <3> QED BY <3>1, CodeNotEmpty, Zenon
  <2>4. g[i - 1] + 1 <= Len(flat)
    <3> HIDE DEF i
    <3> QED BY <2>1, <2>3, <1>6
  <2> QED BY <2>1, <2>2, <2>4, <1>1
<1>10. m = [i \in 1 .. Len(m) |-> m[i]] /\ n = [i \in 1 .. Len(n) |-> n[i]]
  OBVIOUS
<1> QED BY <1>8, <1>9, <1>10

LEMMA NameIsSequence ==
  ASSUME NEW name \in Seq(STRING)
  PROVE  name \in Seq(Letter)
<1>1. \A i \in 1 .. Len(name) : name[i] \in Letter
  BY DEF Letter
<1> QED BY <1>1

LEMMA LabelsTell ==
  ASSUME NEW m \in Seq(Letter), NEW n \in Seq(Letter),
         FlattenSeq(Coded(m)) = FlattenSeq(Coded(n))
  PROVE  m = n
<1>1. Len(m) <= Len(n) \/ Len(n) <= Len(m)
  OBVIOUS
<1>2. CASE Len(m) <= Len(n)
  BY <1>2, LabelTells
<1>3. CASE Len(n) <= Len(m)
  BY <1>3, LabelTells
<1> QED BY <1>1, <1>2, <1>3

(* A name with three parts, cut at its first two slashes.                  *)
Cut(name, one, two) ==
  /\ {one, two} \subseteq 1 .. Len(name) /\ one < two
  /\ name[one] = "/" /\ name[two] = "/"
  /\ NameParts(name) = <<SubSeq(name, 1, one - 1), SubSeq(name, one + 1, two - 1),
                          SubSeq(name, two + 1, Len(name))>>

LEMMA NameIsCut ==
  ASSUME NEW name \in Seq(Letter), ParsesAsName(name)
  PROVE  \E one, two \in Nat : Cut(name, one, two)
<1>1. ~(Cardinality(Slashes(name)) < 2)
  <2>1. Len(<<>>) # 3
    OBVIOUS
  <2> QED BY <2>1 DEF ParsesAsName, NameParts
<1>2. Slashes(name) \subseteq 1 .. Len(name) /\ Len(name) \in Nat
  BY DEF Slashes
<1>3. IsFiniteSet(Slashes(name)) /\ Cardinality(Slashes(name)) \in Nat
  <2>1. IsFiniteSet(1 .. Len(name))
    BY <1>2, FS_Interval
  <2> QED BY <2>1, <1>2, FS_Subset, FS_CardinalityType
<1> DEFINE S == Slashes(name)
           one == Min(S)
           T == S \ {one}
           two == Min(T)
<1>4. S \in SUBSET Nat /\ S # {}
  <2>1. S # {}
    BY <1>1, FS_EmptySet
  <2> QED BY <2>1, <1>2
<1>5. one \in S /\ \A x \in S : one <= x
  BY <1>4, LeastNumber DEF Min
<1> HIDE DEF one
<1>6. T \in SUBSET Nat /\ T # {}
  <2>1. Cardinality(T) = Cardinality(S) - 1
    BY <1>3, <1>5, FS_RemoveElement
  <2>2. Cardinality(T) # 0
    BY <2>1, <1>1, <1>3
  <2> QED BY <2>2, <1>4, FS_EmptySet
<1>7. two \in T
  <2> HIDE DEF T
  <2>1. \E x \in T : \A y \in T : x <= y
    BY <1>6, LeastNumber
  <2> QED BY <2>1 DEF Min
<1>8. NameParts(name) = <<SubSeq(name, 1, one - 1), SubSeq(name, one + 1, two - 1),
                          SubSeq(name, two + 1, Len(name))>>
  BY <1>1 DEF NameParts, one
<1> HIDE DEF two
<1>9. one \in Nat /\ two \in Nat /\ one < two
  BY <1>4, <1>5, <1>7
<1>10. name[one] = "/" /\ name[two] = "/"
  BY <1>5, <1>7 DEF Slashes
<1> QED BY <1>2, <1>5, <1>7, <1>8, <1>9, <1>10 DEF Cut

LEMMA PartsTell ==
  ASSUME NEW m \in Seq(Letter), NEW n \in Seq(Letter), ParsesAsName(m), ParsesAsName(n),
         NameParts(m) = NameParts(n)
  PROVE  m = n
<1>1. PICK a \in Nat, b \in Nat : Cut(m, a, b)
  BY NameIsCut
<1>2. PICK c \in Nat, d \in Nat : Cut(n, c, d)
  BY NameIsCut
<1>3. /\ SubSeq(m, 1, a - 1) = SubSeq(n, 1, c - 1)
      /\ SubSeq(m, a + 1, b - 1) = SubSeq(n, c + 1, d - 1)
      /\ SubSeq(m, b + 1, Len(m)) = SubSeq(n, d + 1, Len(n))
  <2>1. ASSUME NEW p, NEW q, NEW r, NEW x, NEW y, NEW z, <<p, q, r>> = <<x, y, z>>
        PROVE  p = x /\ q = y /\ r = z
    BY <2>1
  <2>2. <<SubSeq(m, 1, a - 1), SubSeq(m, a + 1, b - 1), SubSeq(m, b + 1, Len(m))>>
          = <<SubSeq(n, 1, c - 1), SubSeq(n, c + 1, d - 1), SubSeq(n, d + 1, Len(n))>>
    BY <1>1, <1>2 DEF Cut
  <2> QED BY <2>1, <2>2, Zenon
<1>4. /\ a \in 1 .. Len(m) /\ b \in 1 .. Len(m) /\ a < b /\ m[a] = "/" /\ m[b] = "/"
      /\ c \in 1 .. Len(n) /\ d \in 1 .. Len(n) /\ c < d /\ n[c] = "/" /\ n[d] = "/"
      /\ Len(m) \in Nat /\ Len(n) \in Nat
  BY <1>1, <1>2 DEF Cut
<1>6. /\ Len(SubSeq(m, 1, a - 1)) = a - 1 /\ Len(SubSeq(n, 1, c - 1)) = c - 1
      /\ \A i \in 1 .. a - 1 : SubSeq(m, 1, a - 1)[i] = m[i]
      /\ \A i \in 1 .. c - 1 : SubSeq(n, 1, c - 1)[i] = n[i]
  BY <1>4
<1>7. a = c /\ \A i \in 1 .. a - 1 : m[i] = n[i]
  BY <1>3, <1>4, <1>6
<1>8. /\ Len(SubSeq(m, a + 1, b - 1)) = b - a - 1 /\ Len(SubSeq(n, a + 1, d - 1)) = d - a - 1
      /\ \A i \in 1 .. b - a - 1 : SubSeq(m, a + 1, b - 1)[i] = m[a + i]
      /\ \A i \in 1 .. d - a - 1 : SubSeq(n, a + 1, d - 1)[i] = n[a + i]
  BY <1>4, <1>7
<1>9. b = d /\ \A i \in 1 .. b - a - 1 : m[a + i] = n[a + i]
  BY <1>3, <1>4, <1>7, <1>8
<1>10. /\ Len(SubSeq(m, b + 1, Len(m))) = Len(m) - b /\ Len(SubSeq(n, b + 1, Len(n))) = Len(n) - b
       /\ \A i \in 1 .. Len(m) - b : SubSeq(m, b + 1, Len(m))[i] = m[b + i]
       /\ \A i \in 1 .. Len(n) - b : SubSeq(n, b + 1, Len(n))[i] = n[b + i]
  BY <1>4, <1>9
<1>11. Len(m) = Len(n) /\ \A i \in 1 .. Len(m) - b : m[b + i] = n[b + i]
  BY <1>3, <1>4, <1>9, <1>10
<1>12. ASSUME NEW i \in 1 .. Len(m) PROVE m[i] = n[i]
  <2>1. CASE i < a
    BY <2>1, <1>4, <1>7
  <2>2. CASE i = a \/ i = b
    BY <2>2, <1>4, <1>7, <1>9
  <2>3. CASE a < i /\ i < b
    <3>1. i - a \in 1 .. b - a - 1 /\ a + (i - a) = i
      BY <2>3, <1>4
    <3> QED BY <3>1, <1>9
  <2>4. CASE b < i
    <3>1. i - b \in 1 .. Len(m) - b /\ b + (i - b) = i
      BY <2>4, <1>4
    <3> QED BY <3>1, <1>11
  <2> QED BY <2>1, <2>2, <2>3, <2>4, <1>4
<1>13. m = [i \in 1 .. Len(m) |-> m[i]] /\ n = [i \in 1 .. Len(n) |-> n[i]]
  OBVIOUS
<1> QED BY <1>11, <1>12, <1>13

LEMMA LabelsAreDistinct == LabelsDistinct
<1> SUFFICES ASSUME NEW m \in AppNames, NEW n \in AppNames,
                    ServiceComponentName(m).kind # "none",
                    ServiceComponentName(m).kind = ServiceComponentName(n).kind,
                    ServiceComponentName(m).of = ServiceComponentName(n).of
             PROVE  m = n
  BY DEF LabelsDistinct
<1>1. m \in Seq(Letter) /\ n \in Seq(Letter)
  BY PluginAssumption, NameIsSequence
<1>2. ASSUME NEW name
      PROVE  LET c == ServiceComponentName(name)
             IN  \/ c.kind = "name" /\ c.of = FlattenSeq(Coded(name))
                 \/ c.kind = "hash" /\ c.of = NameParts(name) /\ ParsesAsName(name)
                 \/ c.kind = "none"
  BY DEF ServiceComponentName, Coded
<1>3. \/ FlattenSeq(Coded(m)) = FlattenSeq(Coded(n))
      \/ ParsesAsName(m) /\ ParsesAsName(n) /\ NameParts(m) = NameParts(n)
  <2>1. ServiceComponentName(m).kind = "name" => FlattenSeq(Coded(m)) = FlattenSeq(Coded(n))
    BY <1>2
  <2>2. ServiceComponentName(m).kind = "hash" =>
          ParsesAsName(m) /\ ParsesAsName(n) /\ NameParts(m) = NameParts(n)
    BY <1>2
  <2> QED BY <1>2, <2>1, <2>2
<1> QED BY <1>1, <1>3, LabelsTell, PartsTell

-----------------------------------------------------------------------------
(* Service parameters: every value that can be read is there.              *)

LEMMA OrderExists ==
  ASSUME NEW N \in Nat, NEW S \in SUBSET (1 .. N)
  PROVE  \E q \in [1 .. Cardinality(S) -> S] : \A j, k \in DOMAIN q : j < k => q[j] < q[k]
<1> DEFINE Ordered(T) ==
             \E q \in [1 .. Cardinality(T) -> T] : \A j, k \in DOMAIN q : j < k => q[j] < q[k]
           Good(k) == \A T \in SUBSET (1 .. k) : Ordered(T)
           Bad == {k \in 0 .. N : ~Good(k)}
<1>1. SUFFICES ASSUME Bad # {} PROVE FALSE
  <2>1. N \in 0 .. N
    OBVIOUS
  <2> QED BY <2>1
<1> HIDE DEF Good
<1>2. PICK k \in 0 .. N : ~Good(k) /\ \A j \in 0 .. N : ~Good(j) => k <= j
  <2>1. Bad \in SUBSET Nat
    OBVIOUS
  <2>2. PICK k \in Bad : \A j \in Bad : k <= j
    BY <1>1, <2>1, LeastNumber
  <2> QED BY <2>2
<1> HIDE DEF Ordered
<1>3. PICK T \in SUBSET (1 .. k) : ~Ordered(T)
  BY <1>2 DEF Good
<1>4. IsFiniteSet(T) /\ Cardinality(T) \in Nat
  <2>1. IsFiniteSet(1 .. k)
    BY FS_Interval
  <2> QED BY <2>1, FS_Subset, FS_CardinalityType
<1>5. CASE T = {}
  <2>1. Cardinality(T) = 0
    BY <1>5, FS_EmptySet
  <2> DEFINE q == [i \in 1 .. 0 |-> 0]
  <2>2. q \in [1 .. 0 -> T] /\ DOMAIN q = {}
    OBVIOUS
  <2> HIDE DEF q
  <2>3. Ordered(T)
    BY <2>1, <2>2 DEF Ordered
  <2> QED BY <2>3, <1>3
<1>6. CASE T # {}
  <2>a. k # 0
    <3>1. 1 .. 0 = {}
      OBVIOUS
    <3> QED BY <3>1, <1>6
  <2>1. k \in Nat /\ k # 0 /\ k - 1 \in 0 .. N /\ ~(k <= k - 1)
    BY <2>a
  <2>2. Good(k - 1)
    BY <2>1, <1>2
  <2>3. k \in T
    <3> SUFFICES ASSUME k \notin T PROVE FALSE
      OBVIOUS
    <3>1. T \in SUBSET (1 .. k - 1)
      BY <2>1
    <3>2. Ordered(T)
      BY <3>1, <2>2 DEF Good
    <3> QED BY <3>2, <1>3
  <2> DEFINE U == T \ {k}
             n == Cardinality(U)
  <2>4. n \in Nat /\ Cardinality(T) = n + 1
    <3>1. IsFiniteSet(U) /\ n = Cardinality(T) - 1
      BY <1>4, <2>3, FS_RemoveElement
    <3>2. n \in Nat
      BY <3>1, FS_CardinalityType
    <3> HIDE DEF n
    <3> QED BY <3>1, <3>2, <1>4
  <2>5. U \in SUBSET (1 .. k - 1)
    BY <2>1
  <2>6. Ordered(U)
    BY <2>5, <2>2 DEF Good
  <2> HIDE DEF n
  <2>7. PICK r \in [1 .. n -> U] : \A i, j \in 1 .. n : i < j => r[i] < r[j]
    BY <2>6 DEF Ordered, n
  <2> DEFINE q == [i \in 1 .. n + 1 |-> IF i = n + 1 THEN k ELSE r[i]]
  <2>8. \A i \in 1 .. n + 1 : i # n + 1 => i \in 1 .. n
    BY <2>4
  <2>9. q \in [1 .. n + 1 -> T]
    BY <2>3, <2>8
  <2>10. ASSUME NEW i \in 1 .. n + 1, NEW j \in 1 .. n + 1, i < j PROVE q[i] < q[j]
    <3>1. i # n + 1 /\ i \in 1 .. n /\ q[i] = r[i]
      BY <2>4, <2>8, <2>10
    <3>2. CASE j = n + 1
      <4>1. r[i] \in U /\ q[j] = k
        BY <3>1, <3>2
      <4>2. r[i] \in 1 .. k - 1
        BY <4>1, <2>5
      <4> HIDE DEF q
      <4> QED BY <4>1, <4>2, <3>1, <2>1
    <3>3. CASE j # n + 1
      <4>1. j \in 1 .. n /\ q[j] = r[j]
        BY <3>3, <2>8
      <4> HIDE DEF q
      <4> QED BY <4>1, <3>1, <2>7, <2>10
    <3> QED BY <3>2, <3>3
  <2> HIDE DEF q
  <2>11. Ordered(T)
    BY <2>4, <2>9, <2>10 DEF Ordered
  <2> QED BY <2>11, <1>3
<1> QED BY <1>5, <1>6

(* A sequence of positions that has each of them.                          *)
LEMMA AllInOrder ==
  ASSUME NEW N \in Nat, NEW S \in SUBSET (1 .. N)
  PROVE  /\ InOrder(S) \in [1 .. Cardinality(S) -> S] /\ Cardinality(S) \in Nat
         /\ \A i \in S : \E k \in 1 .. Cardinality(S) : InOrder(S)[k] = i
<1> DEFINE n == Cardinality(S)
           q == InOrder(S)
<1>1. IsFiniteSet(S) /\ n \in Nat
  <2>1. IsFiniteSet(1 .. N)
    BY FS_Interval
  <2> QED BY <2>1, FS_Subset, FS_CardinalityType
<1>2. q \in [1 .. n -> S] /\ \A j, k \in DOMAIN q : j < k => q[j] < q[k]
  BY OrderExists DEF InOrder
<1> HIDE DEF q, n
<1>3. ASSUME NEW j \in 1 .. n, NEW k \in 1 .. n, q[j] = q[k] PROVE j = k
  <2>1. q[j] \in 1 .. N /\ q[k] \in 1 .. N
    BY <1>2
  <2>2. ~(q[j] < q[k]) /\ ~(q[k] < q[j])
    BY <1>3, <2>1
  <2>3. ~(j < k) /\ ~(k < j)
    BY <1>2, <2>2
  <2> QED BY <2>3, <1>1
<1>4. q \in Injection(1 .. n, S)
  BY <1>2, <1>3 DEF Injection, IsInjective
<1>5. IsFiniteSet(1 .. n) /\ Cardinality(1 .. n) = n
  BY <1>1, FS_Interval
<1>6. q \in Surjection(1 .. n, S)
  BY <1>1, <1>4, <1>5, FS_Injection DEF n
<1>7. \A i \in S : \E k \in 1 .. n : q[k] = i
  BY <1>6 DEF Surjection
<1> QED BY <1>1, <1>2, <1>7 DEF n, q

LEMMA ParamsHaveAll ==
  ASSUME NEW headers \in PluginHeaders
  PROVE  LET ps == ExtractServiceParams(headers)
         IN  /\ \A i \in DOMAIN headers : headers[i].ascii =>
                  headers[i].name \in DOMAIN ps /\ headers[i].value \in Range(ps[headers[i].name])
<1> DEFINE ps == ExtractServiceParams(headers)
           N == Len(headers)
           readable == {i \in DOMAIN headers : headers[i].ascii}
           at(n) == {i \in readable : headers[i].name = n}
<1>1. DOMAIN headers = 1 .. N /\ N \in Nat
  BY PluginAssumption
<1>2. ps = [n \in {headers[i].name : i \in readable} |->
              [k \in DOMAIN InOrder(at(n)) |-> headers[InOrder(at(n))[k]].value]]
  BY DEF ExtractServiceParams
<1> HIDE DEF ps
<1>3. ASSUME NEW i \in DOMAIN headers, headers[i].ascii
      PROVE  headers[i].name \in DOMAIN ps /\ headers[i].value \in Range(ps[headers[i].name])
  <2> DEFINE n == headers[i].name
             q == InOrder(at(n))
  <2>1. n \in {headers[j].name : j \in readable}
    BY <1>3
  <2>2. i \in at(n) /\ at(n) \in SUBSET (1 .. N)
    BY <1>1, <1>3
  <2> HIDE DEF at, N
  <2>3. /\ DOMAIN q = 1 .. Cardinality(at(n))
        /\ \E k \in 1 .. Cardinality(at(n)) : q[k] = i
    BY <1>1, <2>2, AllInOrder
  <2>4. PICK k \in DOMAIN q : q[k] = i
    BY <2>3
  <2>5. ps[n] = [j \in DOMAIN q |-> headers[q[j]].value] /\ n \in DOMAIN ps
    BY <1>2, <2>1
  <2> HIDE DEF q, n
  <2>6. k \in DOMAIN ps[n] /\ ps[n][k] = headers[i].value
    BY <2>4, <2>5
  <2>7. headers[i].value \in Range(ps[n])
    BY <2>6 DEF Range
  <2> QED BY <2>5, <2>7 DEF n
<1> QED BY <1>3 DEF ps

-----------------------------------------------------------------------------
(* The process.  What it wrote so far tells how far it came.               *)

Handshake(success) == [kind |-> "handshake", success |-> success]

Written ==
  IF exit = 1 THEN <<Handshake(FALSE)>>
  ELSE IF step = 13 THEN <<Handshake(TRUE)>>
  ELSE IF exit = 0 THEN <<[kind |-> "info", success |-> TRUE]>> ELSE <<>>

(* The steps taken found what they read in order.                          *)
Came ==
  /\ step > 1 => plaunch.command = "serve" /\ plaunch.env
  /\ step > 2 => plaunch.file = "good"
  /\ step > 3 => plaunch.target
  /\ step > 7 => ParsesAsName(plaunch.name)
  /\ exit = 1 => step # 13 /\ (step = 5 => ~ParsesAsName(plaunch.name))

(* A call was let in by its token and goes on with the rest of its         *)
(* parameters.                                                             *)
LetIn ==
  /\ pcall.headers \in PluginHeaders /\ TokenMatches(pcall.headers)
  /\ pcall.upstream = ForwardParams(ExtractServiceParams(pcall.headers))

ProxyCall ==
  /\ pcall.status \in {"none", "unauthenticated", "refused", "upstream", "answered", "dropped"}
  /\ pcall.status # "none" => step = 13
  /\ pcall.status \in {"upstream", "answered", "dropped"} => LetIn

PluginInv ==
  /\ plaunch \in PluginLaunches /\ stdin \in {"open", "closed"}
  /\ step \in 1 .. 13 /\ exit \in -1 .. 1
  /\ lines = Written /\ Came /\ ProxyCall

LEMMA StepsAre ==
  /\ DOMAIN Steps = 1 .. 12 /\ Len(Steps) = 12
  /\ \A i \in 1 .. 12 : Steps[i] = "handshake" <=> i = 12
  /\ \A i \in 1 .. 12 : Steps[i] = "label" <=> i = 5
<1>1. DOMAIN Steps = 1 .. 12 /\ Len(Steps) = 12
  BY DEF Steps
<1>2. /\ Steps[1] = "env" /\ Steps[2] = "load" /\ Steps[3] = "target" /\ Steps[4] = "auth"
      /\ Steps[5] = "label" /\ Steps[6] = "connect" /\ Steps[7] = "name" /\ Steps[8] = "app"
      /\ Steps[9] = "subscribe" /\ Steps[10] = "tls" /\ Steps[11] = "bind" /\ Steps[12] = "handshake"
  BY DEF Steps
<1>3. \A i \in 1 .. 12 : i \in {1, 2, 3, 4, 5, 6, 7, 8, 9, 10, 11, 12}
  OBVIOUS
<1>4. ASSUME NEW i \in 1 .. 12
      PROVE  (Steps[i] = "handshake" <=> i = 12) /\ (Steps[i] = "label" <=> i = 5)
  BY <1>2, <1>3
<1> QED BY <1>1, <1>4

(* What a step that succeeds, or fails, has found.                         *)
LEMMA StepFinds ==
  ASSUME plaunch \in PluginLaunches
  PROVE  /\ TRUE \in StepOutcomes(Steps[1]) => plaunch.env
         /\ TRUE \in StepOutcomes(Steps[2]) => plaunch.file = "good"
         /\ TRUE \in StepOutcomes(Steps[3]) => plaunch.target
         /\ FALSE \in StepOutcomes(Steps[5]) => ~ParsesAsName(plaunch.name)
         /\ TRUE \in StepOutcomes(Steps[7]) => ParsesAsName(plaunch.name)
         /\ FALSE \notin StepOutcomes(Steps[12])
<1>1. ParsesAsName(plaunch.name) => ServiceComponentName(plaunch.name).kind # "none"
  <2> DEFINE label == FlattenSeq(Coded(plaunch.name))
  <2>1. plaunch.name \in Seq(Letter)
    BY PluginAssumption, NameIsSequence
  <2>2. label \in Seq(Letter)
    BY <2>1, CodedType, Flattened
  <2>3. Len(label) \in Nat
    BY <2>2
  <2>4. PrefixLength + Len(label) <= MaxLabel \/ PrefixLength + Len(label) > MaxLabel
    BY <2>3, PluginAssumption DEF PrefixLength
  <2> QED BY <2>4 DEF ServiceComponentName, Coded
<1>2. /\ Steps[1] = "env" /\ Steps[2] = "load" /\ Steps[3] = "target" /\ Steps[5] = "label"
      /\ Steps[7] = "name" /\ Steps[12] = "handshake"
  BY DEF Steps
<1>3. /\ StepOutcomes("env") = {plaunch.env}
      /\ StepOutcomes("load") = {plaunch.file = "good"}
      /\ StepOutcomes("target") = {plaunch.target}
      /\ StepOutcomes("label") = {ServiceComponentName(plaunch.name).kind # "none"}
      /\ StepOutcomes("name") = {ParsesAsName(plaunch.name)}
      /\ StepOutcomes("handshake") = {TRUE}
  BY DEF StepOutcomes
<1>4. ASSUME NEW x PROVE (TRUE \in {x} => x) /\ (FALSE \in {x} => ~x)
  BY Zenon
<1> QED BY <1>1, <1>2, <1>3, <1>4, Zenon

LEMMA PluginStarts == PluginInit => PluginInv
<1> SUFFICES ASSUME PluginInit PROVE PluginInv
  OBVIOUS
<1>1. step = 1 /\ exit = -1 /\ lines = <<>> /\ pcall.status = "none"
  BY DEF PluginInit, NoPluginCall
<1>2. Written = <<>>
  BY <1>1 DEF Written
<1> QED BY <1>1, <1>2 DEF PluginInit, PluginInv, Came, ProxyCall

LEMMA PluginGoesOn == PluginInv /\ [PluginNext]_pluginVars => PluginInv'
<1> SUFFICES ASSUME PluginInv, [PluginNext]_pluginVars PROVE PluginInv'
  OBVIOUS
<1>0. /\ plaunch \in PluginLaunches /\ stdin \in {"open", "closed"}
      /\ step \in 1 .. 13 /\ exit \in -1 .. 1
      /\ lines = Written /\ Came /\ ProxyCall
  BY DEF PluginInv
<1>1. CASE RunStep
  <2>1. /\ plaunch.command = "serve" /\ exit = -1 /\ step \in 1 .. 12 /\ step' = step + 1
        /\ TRUE \in StepOutcomes(Steps[step])
        /\ lines' = IF step = 12 THEN Append(lines, Handshake(TRUE)) ELSE lines
        /\ UNCHANGED <<plaunch, stdin, exit, pcall>>
    BY <1>1, StepsAre DEF RunStep, WriteHandshake, Handshake
  <2>2. lines = <<>>
    BY <1>0, <2>1 DEF Written
  <2>3. lines' = Written'
    BY <2>1, <2>2 DEF Written
  <2>4. Came'
    <3>1. /\ step = 1 => plaunch.env
          /\ step = 2 => plaunch.file = "good"
          /\ step = 3 => plaunch.target
          /\ step = 7 => ParsesAsName(plaunch.name)
      BY <1>0, <2>1, StepFinds, Zenon
    <3>2. /\ step' > 1 => step = 1 \/ step > 1
          /\ step' > 2 => step = 2 \/ step > 2
          /\ step' > 3 => step = 3 \/ step > 3
          /\ step' > 7 => step = 7 \/ step > 7
          /\ step > 1 \/ step = 1
      BY <2>1
    <3>3. exit' # 1
      BY <2>1
    <3> QED BY <1>0, <2>1, <3>1, <3>2, <3>3, Zenon DEF Came
  <2>5. pcall.status = "none" /\ ProxyCall'
    BY <1>0, <2>1 DEF ProxyCall
  <2>6. step' \in 1 .. 13
    BY <2>1
  <2>7. exit' \in -1 .. 1 /\ stdin' \in {"open", "closed"} /\ plaunch' \in PluginLaunches
    BY <1>0, <2>1
  <2> QED BY <2>3, <2>4, <2>5, <2>6, <2>7, Zenon DEF PluginInv
<1>2. CASE RunFails
  <2>1. /\ exit = -1 /\ step \in 1 .. 12 /\ exit' = 1
        /\ FALSE \in StepOutcomes(Steps[step]) /\ lines' = Append(lines, Handshake(FALSE))
        /\ UNCHANGED <<plaunch, step, stdin, pcall>>
    BY <1>2, StepsAre DEF RunFails, WriteHandshake, Handshake
  <2>2. lines = <<>>
    BY <1>0, <2>1 DEF Written
  <2>3. lines' = Written'
    BY <2>1, <2>2 DEF Written
  <2>4. Came'
    <3>1. step # 12 /\ (step = 5 => ~ParsesAsName(plaunch.name))
      BY <1>0, <2>1, StepFinds, Zenon
    <3>2. step # 13
      BY <2>1
    <3> QED BY <1>0, <2>1, <3>1, <3>2, Zenon DEF Came
  <2>5. ProxyCall'
    BY <1>0, <2>1 DEF ProxyCall, LetIn
  <2>6. exit' \in -1 .. 1
    BY <2>1
  <2>7. step' \in 1 .. 13 /\ stdin' \in {"open", "closed"} /\ plaunch' \in PluginLaunches
    BY <1>0, <2>1
  <2> QED BY <2>3, <2>4, <2>5, <2>6, <2>7, Zenon DEF PluginInv
<1>3. CASE PrintInfo
  <2>1. /\ plaunch.command = "info" /\ exit = -1 /\ exit' = 0
        /\ lines' = Append(lines, [kind |-> "info", success |-> TRUE])
        /\ UNCHANGED <<plaunch, step, stdin, pcall>>
    BY <1>3 DEF PrintInfo
  <2>2. step = 1
    BY <1>0, <2>1 DEF Came
  <2>3. lines = <<>>
    BY <1>0, <2>1, <2>2 DEF Written
  <2>4. lines' = Written'
    <3>1. lines' = <<[kind |-> "info", success |-> TRUE]>>
      BY <2>1, <2>3
    <3>2. exit' # 1 /\ step' # 13 /\ exit' = 0
      BY <2>1, <2>2
    <3> QED BY <3>1, <3>2, Zenon DEF Written
  <2>5. Came' /\ ProxyCall'
    BY <1>0, <2>1, <2>2 DEF Came, ProxyCall, LetIn
  <2> QED BY <1>0, <2>1, <2>4, <2>5 DEF PluginInv
<1>4. CASE StopServing
  <2>1. /\ step = 13 /\ exit = -1 /\ exit' = 0
        /\ pcall' = IF pcall.status = "upstream" THEN [pcall EXCEPT !.status = "dropped"] ELSE pcall
        /\ UNCHANGED <<plaunch, step, stdin, lines>>
    BY <1>4, StepsAre DEF StopServing, Serving
  <2>2. lines' = Written'
    <3>1. lines = <<Handshake(TRUE)>>
      BY <1>0, <2>1 DEF Written
    <3>2. exit' # 1 /\ step' = 13 /\ lines' = lines
      BY <2>1
    <3> QED BY <3>1, <3>2, Zenon DEF Written
  <2>3. Came'
    BY <1>0, <2>1 DEF Came
  <2>4. ProxyCall'
    BY <1>0, <2>1 DEF ProxyCall, LetIn
  <2> QED BY <1>0, <2>1, <2>2, <2>3, <2>4 DEF PluginInv
<1>5. CASE CloseStdin
  BY <1>0, <1>5 DEF CloseStdin, PluginInv, Written, Came, ProxyCall, LetIn
<1>6. ASSUME NEW headers \in PluginHeaders, CallProxy(headers) PROVE PluginInv'
  <2>1. step = 13 /\ exit = -1 /\ UNCHANGED <<plaunch, step, stdin, lines, exit>>
    BY <1>6, StepsAre DEF CallProxy, Serving
  <2>2. ProxyCall'
    <3>1. \/ pcall'.status \in {"unauthenticated", "refused"}
          \/ /\ TokenMatches(headers)
             /\ pcall' = [headers |-> headers, status |-> "upstream",
                          upstream |-> ForwardParams(ExtractServiceParams(headers))]
      BY <1>6 DEF CallProxy
    <3> QED BY <2>1, <3>1 DEF ProxyCall, LetIn
  <2> QED BY <1>0, <2>1, <2>2 DEF PluginInv, Written, Came
<1>7. CASE AgentAnswersProxy
  <2>1. /\ step = 13 /\ pcall.status = "upstream" /\ pcall' = [pcall EXCEPT !.status = "answered"]
        /\ UNCHANGED <<plaunch, step, stdin, lines, exit>>
    BY <1>7, StepsAre DEF AgentAnswersProxy, Serving
  <2>2. ProxyCall'
    BY <1>0, <2>1 DEF ProxyCall, LetIn
  <2> QED BY <1>0, <2>1, <2>2 DEF PluginInv, Written, Came
<1>8. CASE UNCHANGED pluginVars
  BY <1>0, <1>8 DEF pluginVars, PluginInv, Written, Came, ProxyCall, LetIn
<1> QED
  BY <1>1, <1>2, <1>3, <1>4, <1>5, <1>6, <1>7, <1>8 DEF PluginNext, StdinClosed, ServeFails

(* What the token and the parameters of a call that was let in are.        *)
LEMMA LetInByToken ==
  ASSUME LetIn
  PROVE  /\ {i \in DOMAIN pcall.headers : pcall.headers[i].name = TokenHeader} # {}
         /\ \A i \in DOMAIN pcall.headers :
              LET h == pcall.headers[i]
              IN  IF h.name = TokenHeader THEN h.value = "token"
                  ELSE h.ascii => h.value \in Range(pcall.upstream[h.name])
         /\ TokenHeader \notin DOMAIN pcall.upstream
<1> DEFINE headers == pcall.headers
           ps == ExtractServiceParams(headers)
<1>1. headers \in PluginHeaders /\ TokenMatches(headers)
      /\ pcall.upstream = [k \in DOMAIN ps \ {TokenHeader} |-> ps[k]]
  BY DEF LetIn, ForwardParams
<1> HIDE DEF headers, ps
<1>2. PICK i \in DOMAIN headers :
        /\ {j \in DOMAIN headers : headers[j].name = TokenHeader} = {i}
        /\ headers[i].value = "token"
  BY <1>1 DEF TokenMatches
<1>3. ASSUME NEW j \in DOMAIN headers
      PROVE  IF headers[j].name = TokenHeader THEN headers[j].value = "token"
             ELSE headers[j].ascii => headers[j].value \in Range(pcall.upstream[headers[j].name])
  <2>1. CASE headers[j].name = TokenHeader
    <3>1. j = i
      BY <1>2, <2>1
    <3> QED BY <1>2, <2>1, <3>1
  <2>2. CASE headers[j].name # TokenHeader /\ headers[j].ascii
    <3>1. headers[j].name \in DOMAIN ps /\ headers[j].value \in Range(ps[headers[j].name])
      BY <1>1, <2>2, ParamsHaveAll DEF ps
    <3>2. pcall.upstream[headers[j].name] = ps[headers[j].name]
      BY <1>1, <2>2, <3>1
    <3> QED BY <2>2, <3>1, <3>2
  <2>3. CASE headers[j].name # TokenHeader /\ ~headers[j].ascii
    BY <2>3
  <2> QED BY <2>1, <2>2, <2>3
<1>4. {j \in DOMAIN headers : headers[j].name = TokenHeader} # {}
  BY <1>2
<1>5. TokenHeader \notin DOMAIN pcall.upstream
  BY <1>1
<1> QED BY <1>3, <1>4, <1>5 DEF headers

LEMMA PluginInvSound == PluginInv => PluginSound
<1> SUFFICES ASSUME PluginInv PROVE PluginSound
  OBVIOUS
<1>0. /\ step \in 1 .. 13 /\ exit \in -1 .. 1
      /\ lines = Written /\ Came /\ ProxyCall
  BY DEF PluginInv
<1>1. CASE exit = 1
  <2>1. lines = <<Handshake(FALSE)>>
    BY <1>0, <1>1 DEF Written
  <2>2. step \in 1 .. 12 /\ (Steps[step] = "label" => ~ParsesAsName(plaunch.name))
    BY <1>0, <1>1, StepsAre DEF Came
  <2>3. /\ Len(lines) = 1 /\ ~lines[1].success
    BY <2>1 DEF Handshake
  <2>4. pcall.status = "none"
    BY <1>0, <2>2 DEF ProxyCall
  <2> QED BY <1>1, <2>2, <2>3, <2>4, LabelsAreDistinct DEF PluginSound
<1>2. CASE exit # 1 /\ step = 13
  <2>1. lines = <<Handshake(TRUE)>>
    BY <1>0, <1>2 DEF Written
  <2>2. Len(lines) = 1 /\ lines[1].success = TRUE /\ lines # <<>>
    BY <2>1 DEF Handshake
  <2>3. plaunch.env /\ plaunch.file = "good" /\ plaunch.target /\ ParsesAsName(plaunch.name)
    BY <1>0, <1>2 DEF Came
  <2>4. pcall.status \in {"upstream", "answered", "dropped"} =>
          /\ {i \in DOMAIN pcall.headers : pcall.headers[i].name = TokenHeader} # {}
          /\ \A i \in DOMAIN pcall.headers :
               LET h == pcall.headers[i]
               IN  IF h.name = TokenHeader THEN h.value = "token"
                   ELSE h.ascii => h.value \in Range(pcall.upstream[h.name])
          /\ TokenHeader \notin DOMAIN pcall.upstream
    BY <1>0, LetInByToken DEF ProxyCall
  <2>5. exit \in {-1, 0}
    BY <1>0, <1>2
  <2> QED BY <1>2, <2>2, <2>3, <2>4, <2>5, LabelsAreDistinct DEF PluginSound
<1>3. CASE exit = 0 /\ step # 13
  <2>1. lines = <<[kind |-> "info", success |-> TRUE]>>
    <3>1. exit # 1
      BY <1>3
    <3> QED BY <1>0, <1>3, <3>1, Zenon DEF Written
  <2>2. Len(lines) = 1 /\ lines[1].success = TRUE /\ lines[1].kind = "info"
    BY <2>1
  <2>3. pcall.status = "none"
    BY <1>0, <1>3 DEF ProxyCall
  <2> QED BY <1>3, <2>2, <2>3, LabelsAreDistinct DEF PluginSound
<1>4. CASE exit = -1 /\ step # 13
  <2>1. lines = <<>>
    BY <1>0, <1>4 DEF Written
  <2>2. pcall.status = "none"
    BY <1>0, <1>4 DEF ProxyCall
  <2> QED BY <1>4, <2>1, <2>2, LabelsAreDistinct DEF PluginSound
<1> QED BY <1>0, <1>1, <1>2, <1>3, <1>4

(* The contract of the transport plugin (a2acli-transport-slimrpc), for    *)
(* every launch, every set of names and every call: one line that is true, *)
(* a label for each name, and no call without the token.                   *)
THEOREM PluginsAreSound == PluginSpec => []PluginSound
<1>1. PluginInv => PluginSound
  BY PluginInvSound
<1> QED BY <1>1, PluginStarts, PluginGoesOn, PTL DEF PluginSpec

(***************************************************************************)
(* The door: one request of any shape at each binding.                     *)
(***************************************************************************)

(* What checks make of what comes after them.                              *)
LEMMA CheckedOne ==
  ASSUME NEW one, NEW next
  PROVE  (Checked(<<one>>, next) = next /\ one = {}) \/ Checked(<<one>>, next) \in one
<1>1. DOMAIN <<one>> = 1 .. 1 /\ <<one>>[1] = one /\ 1 \in Nat /\ 1 \in 1 .. 1 /\ \A i \in 1 .. 1 : i = 1
  OBVIOUS
<1>2. \/ Checked(<<one>>, next) = next /\ \A i \in 1 .. 1 : <<one>>[i] = {}
      \/ \E i \in 1 .. 1 : Checked(<<one>>, next) \in <<one>>[i]
  BY <1>1, CheckedGives
<1> QED BY <1>1, <1>2

LEMMA CheckedTwo ==
  ASSUME NEW one, NEW two, NEW next
  PROVE  \/ Checked(<<one, two>>, next) = next /\ one = {} /\ two = {}
         \/ Checked(<<one, two>>, next) \in one
         \/ Checked(<<one, two>>, next) \in two
<1>1. DOMAIN <<one, two>> = 1 .. 2 /\ <<one, two>>[1] = one /\ <<one, two>>[2] = two
      /\ 2 \in Nat /\ 1 \in 1 .. 2 /\ 2 \in 1 .. 2 /\ \A i \in 1 .. 2 : i = 1 \/ i = 2
  OBVIOUS
<1>2. \/ Checked(<<one, two>>, next) = next /\ \A i \in 1 .. 2 : <<one, two>>[i] = {}
      \/ \E i \in 1 .. 2 : Checked(<<one, two>>, next) \in <<one, two>>[i]
  BY <1>1, CheckedGives
<1> QED BY <1>1, <1>2

(* A request is answered by the router, refused for its version, or by the *)
(* handler of a route its path matches, of a tenant's only if no other.    *)
RoutedTo(w, r) ==
  /\ r \in RestRouter /\ r.path \in Matching(w.path) /\ r.verb = w.verb
  /\ r.path[1] = TenantSeg => OnlyTenants(w.path)

LEMMA RestOutcomes ==
  ASSUME NEW w
  PROVE  \/ HandleRest(w) \in {Plainly(404), Plainly(405)} \/ Unversioned(w)
         \/ /\ HttpVersionSupported(w)
            /\ \E r \in RestRouter : RoutedTo(w, r) /\ HandleRest(w) = Handled(w, r)
<1>1. CASE Matching(w.path) = {}
  BY <1>1, Zenon DEF HandleRest
<1>2. CASE Matching(w.path) # {}
  <2> DEFINE route == RouteOf(w.path)
             a == Param(route, w.path, TenantSeg)
             h == CHOOSE h \in Handlers(route, w.verb) : TRUE
             one == Check(~HttpVersionSupported(w), Refuse(UnsupportedVersion))
             two == Check(Handlers(route, w.verb) = {}, Plainly(405))
             next == CallRoute(w, h, IF a = <<>> THEN NoTenant ELSE a[1][1],
                               Param(route, w.path, IdSeg), Param(route, w.path, ConfigIdSeg))
  <2>1. HandleRest(w) = Checked(<<one, two>>, next)
    BY <1>2, Zenon DEF HandleRest
  <2>2. PICK t \in Matching(w.path) : t[1] = TenantSeg => OnlyTenants(w.path)
    BY <1>2 DEF OnlyTenants
  <2>3. route = t
    BY <2>2, RouteIs DEF OnlyTenants
  <2>4. ASSUME two = {} PROVE \E r \in RestRouter : RoutedTo(w, r) /\ next = Handled(w, r)
    <3>1. Handlers(route, w.verb) # {}
      BY <2>4, Zenon DEF Check
    <3>2. h \in Handlers(route, w.verb)
      BY <3>1
    <3>3. PICK r \in RestRouter : r.path = route /\ r.verb = w.verb /\ r.handler = h
      BY <3>2, Zenon DEF Handlers
    <3>4. next = Handled(w, r)
      BY <3>3, Zenon DEF Handled
    <3>5. RoutedTo(w, r)
      BY <2>2, <2>3, <3>3, Zenon DEF RoutedTo
    <3> QED BY <3>4, <3>5
  <2>5. /\ \A x \in two : x = Plainly(405)
        /\ one = IF HttpVersionSupported(w) THEN {} ELSE {Refuse(UnsupportedVersion)}
    BY Zenon DEF Check
  <2> HIDE DEF one, two, next
  <2>6. \/ Checked(<<one, two>>, next) = next /\ one = {} /\ two = {}
        \/ Checked(<<one, two>>, next) \in one \/ Checked(<<one, two>>, next) \in two
    BY CheckedTwo
  <2> QED BY <2>1, <2>4, <2>5, <2>6 DEF Unversioned
<1> QED BY <1>1, <1>2

-----------------------------------------------------------------------------
(* What the handlers of the routes may answer.                             *)

Refuses(a) == \E e : a = Refuse(e) /\ e.code \in {"INVALID_PARAMS", "INVALID_REQUEST"}

TooLarge(w, a) == a = Plainly(413) /\ w.body = "large"

(* Operations that are given what a body said.                             *)
Bodied == {"SendMessage", "SendStreamingMessage", "CancelTask", "CreatePushConfig"}

(* Handlers of verbs that have no body.                                    *)
Reading == {"task", "list", "listConfigs", "getConfig", "deleteConfig", "card"}

GivenTo(w, h, t, m, tenant) ==
  /\ m \in DOMAIN RpcName
  /\ w.body \in {"bad", "large"} => h \in Reading \/ m = "SubscribeToTask"
  /\ t # NoTenant => tenant = t
  /\ tenant \in {t, w.tenant}
  /\ w.tenant # NoTenant /\ m \in Bodied => tenant = w.tenant

Answers(w, h, t, a) ==
  TooLarge(w, a) \/ Refuses(a) \/ \E m, ids, tenant : a = Give(m, ids, tenant) /\ GivenTo(w, h, t, m, tenant)

LEMMA InvalidBodyRefuses ==
  /\ Refuses(InvalidBody)
  /\ Refuses(Refuse(Error("INVALID_PARAMS", {}, FALSE)))
  /\ Refuses(Refuse(Error("INVALID_REQUEST", {}, FALSE)))
<1>1. Refuses(InvalidBody)
  BY DEF Refuses, InvalidBody, Error
<1>2. Refuses(Refuse(Error("INVALID_PARAMS", {}, FALSE)))
  BY DEF Refuses, Error
<1>3. Refuses(Refuse(Error("INVALID_REQUEST", {}, FALSE)))
  BY DEF Refuses, Error
<1> QED BY <1>1, <1>2, <1>3

LEMMA ReconciledAnswers ==
  ASSUME NEW w, NEW h, NEW t, NEW m \in DOMAIN RpcName, NEW ids, w.body \notin {"bad", "large"}
  PROVE  Answers(w, h, t, GiveReconciled(w, m, ids, t))
<1> DEFINE s == ReconcileTenant(t, w.tenant)
<1>1. CASE s = <<>>
  BY <1>1, InvalidBodyRefuses, Zenon DEF GiveReconciled, Answers
<1>2. CASE s # <<>>
  <2>1. GiveReconciled(w, m, ids, t) = Give(m, ids, s[1])
    BY <1>2, Zenon DEF GiveReconciled
  <2>2. \/ s = <<t>> /\ t # NoTenant /\ w.tenant \in {NoTenant, t}
        \/ s = <<w.tenant>> /\ t = NoTenant
    BY <1>2 DEF ReconcileTenant
  <2>3. \A x : <<x>>[1] = x
    OBVIOUS
  <2>4. GivenTo(w, h, t, m, s[1])
    <3> HIDE DEF s
    <3> QED BY <2>2, <2>3 DEF GivenTo
  <2> QED BY <2>1, <2>4, Zenon DEF Answers
<1> QED BY <1>1, <1>2

LEMMA LargeAnswers ==
  ASSUME NEW w
  PROVE  /\ \A x : x \in Check(w.body = "large", Plainly(413)) => TooLarge(w, x)
         /\ Check(w.body = "large", Plainly(413)) = {} => w.body # "large"
BY Zenon DEF Check, TooLarge

LEMMA BodyAnswers ==
  ASSUME NEW w, NEW h, NEW t, NEW next, w.body = "good" => Answers(w, h, t, next)
  PROVE  Answers(w, h, t, JsonBody(w, next))
<1> DEFINE one == Check(w.body = "large", Plainly(413))
           two == Check(w.body # "good", InvalidBody)
<1>1. JsonBody(w, next) = Checked(<<one, two>>, next)
  BY Zenon DEF JsonBody
<1>2. \A x : x \in one => TooLarge(w, x)
  BY LargeAnswers
<1>3. /\ \A x : x \in two => x = InvalidBody
      /\ two = {} => w.body = "good"
  BY Zenon DEF Check
<1> HIDE DEF one, two
<1>4. \/ JsonBody(w, next) = next /\ two = {}
      \/ JsonBody(w, next) \in one \/ JsonBody(w, next) \in two
  BY <1>1, CheckedTwo
<1> QED BY <1>2, <1>3, <1>4, InvalidBodyRefuses DEF Answers

LEMMA CancelAnswers ==
  ASSUME NEW w, NEW h, NEW t, NEW id
  PROVE  Answers(w, h, t, CancelTaskInner(w, id, t))
<1> DEFINE one == Check(w.body = "large", Plainly(413))
           two == Check(w.body = "bad", InvalidBody)
           next == GiveReconciled(w, "CancelTask", <<id>>, t)
           a == CancelTaskInner(w, id, t)
<1>1. a = Checked(<<one, two>>, next)
  BY Zenon DEF CancelTaskInner
<1>2. /\ \A x : x \in one => TooLarge(w, x)
      /\ one = {} => w.body # "large"
  BY LargeAnswers
<1>3. /\ \A x : x \in two => x = InvalidBody
      /\ two = {} => w.body # "bad"
  BY Zenon DEF Check
<1>4. "CancelTask" \in DOMAIN RpcName
  BY DEF RpcName
<1>5. w.body \notin {"bad", "large"} => Answers(w, h, t, next)
  BY <1>4, ReconciledAnswers
<1> HIDE DEF one, two, next
<1>6. \/ a = next /\ one = {} /\ two = {}
      \/ a \in one \/ a \in two
  BY <1>1, CheckedTwo
<1> HIDE DEF a
<1>7. Answers(w, h, t, a)
  BY <1>2, <1>3, <1>5, <1>6, InvalidBodyRefuses DEF Answers
<1> QED BY <1>7 DEF a

LEMMA GivesAnswers ==
  ASSUME NEW w, NEW h, NEW t, NEW m \in DOMAIN RpcName, NEW ids, m \notin Bodied,
         h \in Reading \/ m = "SubscribeToTask"
  PROVE  Answers(w, h, t, Give(m, ids, t))
<1>1. GivenTo(w, h, t, m, t)
  BY DEF GivenTo
<1> QED BY <1>1, Zenon DEF Answers

LEMMA QueryAnswers ==
  ASSUME NEW w, NEW h, NEW t, NEW next, Answers(w, h, t, next)
  PROVE  Answers(w, h, t, QueryOk(w, next))
BY InvalidBodyRefuses DEF QueryOk, Answers

(* The older routes have no tenant.                                        *)
LEMMA RouteAnswers ==
  ASSUME NEW w, NEW h \in HandlerNames, NEW t, NEW id, NEW config,
         h \in {"cancel", "subscribe"} => t = NoTenant
  PROVE  Answers(w, h, t, CallRoute(w, h, t, id, config))
<1> DEFINE Fine(a) == Answers(w, h, t, a)
           large == Check(w.body = "large", Plainly(413))
<1>0. /\ DOMAIN RpcName =
           {"SendMessage", "SendStreamingMessage", "GetTask", "ListTasks", "CancelTask",
            "SubscribeToTask", "CreatePushConfig", "GetPushConfig", "ListPushConfigs",
            "DeletePushConfig", "GetExtendedAgentCard"}
  BY DEF RpcName
<1>1. \A m \in DOMAIN RpcName : Fine(SendTo(w, m, t))
  <2>1. ASSUME NEW m \in DOMAIN RpcName PROVE Fine(SendTo(w, m, t))
    <3>1. w.body = "good" => Fine(GiveReconciled(w, m, <<>>, t))
      BY ReconciledAnswers
    <3> QED BY <3>1, BodyAnswers DEF SendTo
  <2> QED BY <2>1
<1>2. Fine(CreateConfig(w, id[1], t))
  <2> DEFINE next == GiveReconciled(w, "CreatePushConfig", <<id[1]>>, t)
  <2>1. w.body = "good" => Fine(next)
    BY <1>0, ReconciledAnswers
  <2> HIDE DEF next
  <2>2. w.body = "good" => Fine(IF w.task \notin {<<>>, id[1]} THEN InvalidBody ELSE next)
    BY <2>1, InvalidBodyRefuses DEF Answers
  <2>3. CreateConfig(w, id[1], t) = JsonBody(w, IF w.task \notin {<<>>, id[1]} THEN InvalidBody ELSE next)
    BY Zenon DEF CreateConfig, ParseCreatePushConfigRequest, next
  <2> QED BY <2>2, <2>3, BodyAnswers
<1>3. \A x : Fine(CancelTaskInner(w, x, t))
  BY CancelAnswers
<1>4. \A x : h \in Reading =>
        Fine(Give("GetTask", x, t)) /\ Fine(Give("ListTasks", x, t)) /\ Fine(Give("GetPushConfig", x, t))
        /\ Fine(Give("ListPushConfigs", x, t)) /\ Fine(Give("DeletePushConfig", x, t))
        /\ Fine(Give("GetExtendedAgentCard", x, t))
  BY <1>0, GivesAnswers DEF Bodied
<1>5. \A x : Fine(Give("SubscribeToTask", x, t))
  BY <1>0, GivesAnswers DEF Bodied
<1>6. /\ Fine(Refuse(Error("INVALID_PARAMS", {}, FALSE)))
      /\ Fine(Refuse(Error("INVALID_REQUEST", {}, FALSE)))
  BY InvalidBodyRefuses, Zenon DEF Answers
<1>7. \A next : Fine(next) => Fine(Checked(<<large>>, next))
  <2>1. ASSUME NEW next, Fine(next) PROVE Fine(Checked(<<large>>, next))
    <3>1. Checked(<<large>>, next) = next \/ Checked(<<large>>, next) \in large
      BY CheckedOne
    <3> QED BY <2>1, <3>1, LargeAnswers DEF Answers
  <2> QED BY <2>1
<1>8. \A next : Fine(next) => Fine(QueryOk(w, next))
  BY QueryAnswers
<1>9. PostTaskAction(w, id[1], t) =
        CASE StripSuffix(id[1], ":cancel") -> CancelTaskInner(w, Front(id[1]), t)
          [] StripSuffix(id[1], ":subscribe") ->
               Checked(<<large>>, Give("SubscribeToTask", <<Front(id[1])>>, t))
          [] OTHER -> Checked(<<large>>, Refuse(Error("INVALID_REQUEST", {}, FALSE)))
  BY DEF PostTaskAction
<1> HIDE DEF Fine, large
<1>11. Fine(PostTaskAction(w, id[1], t))
  BY <1>3, <1>5, <1>6, <1>7, <1>9
<1>12. h = "task" => Fine(GetTaskOrSubscribe(w, id[1], t))
  BY <1>4, <1>5, <1>8 DEF GetTaskOrSubscribe, Reading
<1> DEFINE a == CallRoute(w, h, t, id, config)
<1>13. \/ a = SendTo(w, "SendMessage", t) \/ a = SendTo(w, "SendStreamingMessage", t)
       \/ h = "task" /\ a = GetTaskOrSubscribe(w, id[1], t)
       \/ a = PostTaskAction(w, id[1], t)
       \/ h = "cancel" /\ a = CancelTaskInner(w, id[1], NoTenant)
       \/ h = "subscribe" /\ a = Give("SubscribeToTask", id, NoTenant)
       \/ a = CreateConfig(w, id[1], t)
       \/ h = "list" /\ a = QueryOk(w, IF w.query = "status"
                                       THEN Refuse(Error("INVALID_PARAMS", {}, FALSE))
                                       ELSE Give("ListTasks", <<>>, t))
       \/ h = "listConfigs" /\ a = QueryOk(w, Give("ListPushConfigs", id, t))
       \/ h = "getConfig" /\ a = Give("GetPushConfig", id \o config, t)
       \/ h = "deleteConfig" /\ a = Give("DeletePushConfig", id \o config, t)
       \/ h = "card" /\ a = Give("GetExtendedAgentCard", <<>>, t)
  <2>1. CASE h \in {"send", "stream"}
    BY <2>1 DEF CallRoute
  <2>2. CASE h \in {"task", "action"}
    BY <2>2 DEF CallRoute
  <2>3. CASE h \in {"cancel", "subscribe", "createConfig"}
    BY <2>3 DEF CallRoute
  <2>4. CASE h = "list"
    BY <2>4, Zenon DEF CallRoute
  <2>5. CASE h \in {"listConfigs", "getConfig"}
    BY <2>5 DEF CallRoute
  <2>6. CASE h \in {"deleteConfig", "card"}
    BY <2>6 DEF CallRoute
  <2> QED BY <2>1, <2>2, <2>3, <2>4, <2>5, <2>6 DEF HandlerNames
<1> HIDE DEF a
<1>14. h = "list" =>
         Fine(QueryOk(w, IF w.query = "status" THEN Refuse(Error("INVALID_PARAMS", {}, FALSE))
                         ELSE Give("ListTasks", <<>>, t)))
  <2>1. h = "list" => Fine(Give("ListTasks", <<>>, t))
    BY <1>4 DEF Reading
  <2>2. h = "list" => Fine(IF w.query = "status" THEN Refuse(Error("INVALID_PARAMS", {}, FALSE))
                           ELSE Give("ListTasks", <<>>, t))
    BY <1>6, <2>1
  <2> QED BY <1>8, <2>2, Zenon
<1>15. h = "listConfigs" => Fine(QueryOk(w, Give("ListPushConfigs", id, t)))
  BY <1>4, <1>8 DEF Reading
<1>16. /\ h = "getConfig" => Fine(Give("GetPushConfig", id \o config, t))
       /\ h = "deleteConfig" => Fine(Give("DeletePushConfig", id \o config, t))
       /\ h = "card" => Fine(Give("GetExtendedAgentCard", <<>>, t))
  BY <1>4 DEF Reading
<1>17. Fine(SendTo(w, "SendMessage", t)) /\ Fine(SendTo(w, "SendStreamingMessage", t))
  BY <1>0, <1>1
<1>18. h \in {"cancel", "subscribe"} =>
         Fine(CancelTaskInner(w, id[1], NoTenant)) /\ Fine(Give("SubscribeToTask", id, NoTenant))
  BY <1>3, <1>5
<1>19. Fine(a)
  BY <1>2, <1>11, <1>12, <1>13, <1>14, <1>15, <1>16, <1>17, <1>18, Zenon
<1> QED BY <1>19 DEF Fine, a

-----------------------------------------------------------------------------
(* The tenant a path names.                                                *)

PathTenant(w, r) ==
  IF Param(r.path, w.path, TenantSeg) = <<>> THEN NoTenant ELSE Param(r.path, w.path, TenantSeg)[1][1]

LEMMA LiteralHeads == \A t \in Plain7 \union Legacy7 : t[1] \in Resources /\ t[1] # TenantSeg
<1> DEFINE Fine(t) == t[1] \in Resources /\ t[1] # TenantSeg
<1>1. {SendSeg, StreamSeg, CardSeg, TasksSeg, <<"message">>, <<"agent-card">>} \subseteq Resources
  BY DEF Resources, SendSeg, StreamSeg, CardSeg, TasksSeg
<1>2. {SendSeg, StreamSeg, CardSeg, TasksSeg, <<"message">>, <<"agent-card">>} \subseteq Literal
  BY DEF Literal
<1>3. \A a \in {SendSeg, StreamSeg, CardSeg, TasksSeg, <<"message">>, <<"agent-card">>} :
        /\ Fine(<<a>>)
        /\ \A b : Fine(<<a, b>>) /\ \A c : Fine(<<a, b, c>>) /\ \A d : Fine(<<a, b, c, d>>)
  BY <1>1, <1>2, LiteralsAreFixed
<1> HIDE DEF Fine
<1>4. \A t \in Plain7 : Fine(t)
  BY <1>3 DEF Plain7
<1>5. \A t \in Legacy7 : Fine(t)
  BY <1>3 DEF Legacy7
<1> QED BY <1>4, <1>5 DEF Fine

LEMMA LiteralsOnce ==
  \A t \in Plain7 \union Legacy7 : \A i \in DOMAIN t : t[i] # TenantSeg
<1> DEFINE Fine(t) == \A i \in DOMAIN t : t[i] # TenantSeg
<1>1. IdSeg # TenantSeg /\ ConfigIdSeg # TenantSeg /\ \A x \in Literal : x # TenantSeg
  BY Parameters, LiteralsAreFixed
<1>2. \A a, b, c, d :
        /\ a # TenantSeg => Fine(<<a>>)
        /\ a # TenantSeg /\ b # TenantSeg => Fine(<<a, b>>)
        /\ a # TenantSeg /\ b # TenantSeg /\ c # TenantSeg => Fine(<<a, b, c>>)
        /\ a # TenantSeg /\ b # TenantSeg /\ c # TenantSeg /\ d # TenantSeg => Fine(<<a, b, c, d>>)
  OBVIOUS
<1> HIDE DEF Fine
<1>3. \A t \in Plain7 : Fine(t)
  BY <1>1, <1>2 DEF Plain7, Literal
<1>4. \A t \in Legacy7 : Fine(t)
  BY <1>1, <1>2 DEF Legacy7, Literal
<1> QED BY <1>3, <1>4 DEF Fine

LEMMA TenantedOnce ==
  \A t \in Tenanted : 1 \in DOMAIN t /\ t[1] = TenantSeg /\ \A i \in DOMAIN t : t[i] = TenantSeg => i = 1
<1> DEFINE Fine(t) == 1 \in DOMAIN t /\ t[1] = TenantSeg /\ \A i \in DOMAIN t : t[i] = TenantSeg => i = 1
<1>1. IdSeg # TenantSeg /\ ConfigIdSeg # TenantSeg /\ \A x \in Literal : x # TenantSeg
  BY Parameters, LiteralsAreFixed
<1>2. \A b, c, d, e :
        b # TenantSeg =>
          /\ Fine(<<TenantSeg, b>>)
          /\ c # TenantSeg =>
               /\ Fine(<<TenantSeg, b, c>>)
               /\ d # TenantSeg => Fine(<<TenantSeg, b, c, d>>)
               /\ d # TenantSeg /\ e # TenantSeg => Fine(<<TenantSeg, b, c, d, e>>)
  OBVIOUS
<1> HIDE DEF Fine
<1>3. \A t \in Tenanted : Fine(t)
  BY <1>1, <1>2 DEF Tenanted, Literal
<1> QED BY <1>3 DEF Fine

LEMMA PathTenants ==
  ASSUME NEW w, NEW r \in RestRouter, r.path \in Matching(w.path)
  PROVE  /\ r.path[1] = TenantSeg => PathTenant(w, r) = w.path[1][1] /\ 1 \in 1 .. Len(w.path)
         /\ r.path[1] # TenantSeg => PathTenant(w, r) = NoTenant /\ w.path[1] \in Resources
<1>1. r.path \in Plain7 \union Legacy7 \union Tenanted /\ Len(r.path) = Len(w.path)
  BY PathsOfRoutes, MatchingShape
<1>2. CASE r.path \in Tenanted
  <2>1. Param(r.path, w.path, TenantSeg) = <<w.path[1]>>
    BY <1>2, TenantedOnce, ParamAt
  <2>2. <<w.path[1]>> # <<>> /\ <<w.path[1]>>[1] = w.path[1]
    OBVIOUS
  <2>3. r.path[1] = TenantSeg /\ Len(r.path) > 0 /\ r.path \in Seq(Segments)
    BY <1>2, TenantedOnce, MatchingShape
  <2>4. 1 \in 1 .. Len(w.path)
    BY <1>1, <2>3
  <2>5. PathTenant(w, r) = w.path[1][1]
    BY <2>1, <2>2, Zenon DEF PathTenant
  <2> QED BY <2>3, <2>4, <2>5
<1>3. CASE r.path \in Plain7 \union Legacy7
  <2>1. Param(r.path, w.path, TenantSeg) = <<>>
    BY <1>3, LiteralsOnce, ParamMissing
  <2>2. r.path[1] # TenantSeg /\ r.path[1] \in Resources
    BY <1>3, LiteralHeads
  <2>3. r.path[1] = w.path[1]
    BY <2>2, MatchingShape
  <2> QED BY <2>1, <2>2, <2>3 DEF PathTenant
<1> QED BY <1>1, <1>2, <1>3

(* What is served under a tenant, and the verbs of what has no body.       *)
LEMMA RouteKinds ==
  \A r \in RestRouter :
    /\ r.handler \in {"cancel", "subscribe"} => r.path[1] # TenantSeg
    /\ r.handler \in Reading => r.verb \in {"GET", "DELETE"}
<1> DEFINE Fine(r) == /\ r.handler \in {"cancel", "subscribe"} => r.path[1] # TenantSeg
                      /\ r.handler \in Reading => r.verb \in {"GET", "DELETE"}
<1>1. \A r \in Bindings(<<>>) : Fine(r)
  BY PlainBindings, RouteParts DEF Reading
<1>2. \A r \in Bindings(<<TenantSeg>>) : Fine(r)
  BY TenantBindings, RouteParts DEF Reading
<1>3. \A p \in Legacy7 : p[1] # TenantSeg
  BY LiteralHeads
<1>4. \A r \in LegacyBindings : r.path \in Legacy7 /\ (r.handler \in Reading => r.verb \in {"GET", "DELETE"})
  BY RouteParts DEF LegacyBindings, Legacy7, SubscribeSeg, Reading
<1> QED BY <1>1, <1>2, <1>3, <1>4 DEF RestRouter

-----------------------------------------------------------------------------
(* An older path.                                                          *)

Alike(v, w) ==
  /\ v.verb = w.verb /\ v.headers = w.headers /\ v.queryVersion = w.queryVersion
  /\ v.query = w.query /\ v.body = w.body /\ v.tenant = w.tenant /\ v.task = w.task

LEMMA AlikeBodies ==
  ASSUME NEW v, NEW w, v.body = w.body, NEW next
  PROVE  JsonBody(v, next) = JsonBody(w, next)
<1> DEFINE one(x) == Check(x.body = "large", Plainly(413))
           two(x) == Check(x.body # "good", InvalidBody)
<1>1. one(v) = one(w) /\ two(v) = two(w)
  BY Zenon DEF Check
<1>2. \A x : JsonBody(x, next) = Checked(<<one(x), two(x)>>, next)
  BY Zenon DEF JsonBody
<1> HIDE DEF one, two
<1> QED BY <1>1, <1>2

LEMMA AlikeCalls ==
  ASSUME NEW v, NEW w, Alike(v, w), NEW h \in HandlerNames, NEW t, NEW id, NEW config
  PROVE  CallRoute(v, h, t, id, config) = CallRoute(w, h, t, id, config)
<1>1. /\ v.query = w.query /\ v.body = w.body /\ v.tenant = w.tenant /\ v.task = w.task
  BY DEF Alike
<1>2. \A next : JsonBody(v, next) = JsonBody(w, next)
  BY <1>1, AlikeBodies, Zenon
<1>3. \A m, ids : GiveReconciled(v, m, ids, t) = GiveReconciled(w, m, ids, t)
  BY <1>1, Zenon DEF GiveReconciled
<1>4. \A m, ids : GiveReconciled(v, m, ids, NoTenant) = GiveReconciled(w, m, ids, NoTenant)
  BY <1>1, Zenon DEF GiveReconciled
<1>5. \A next : QueryOk(v, next) = QueryOk(w, next)
  BY <1>1, Zenon DEF QueryOk
<1>6. \A x : CancelTaskInner(v, x, t) = CancelTaskInner(w, x, t)
             /\ CancelTaskInner(v, x, NoTenant) = CancelTaskInner(w, x, NoTenant)
  BY <1>1, <1>3, <1>4, Zenon DEF CancelTaskInner
<1>7. \A m : SendTo(v, m, t) = SendTo(w, m, t)
  BY <1>2, <1>3, Zenon DEF SendTo
<1>8. CreateConfig(v, id[1], t) = CreateConfig(w, id[1], t)
  BY <1>1, <1>2, <1>3, Zenon DEF CreateConfig, ParseCreatePushConfigRequest
<1>9. GetTaskOrSubscribe(v, id[1], t) = GetTaskOrSubscribe(w, id[1], t)
  BY <1>1 DEF GetTaskOrSubscribe, QueryOk
<1>10. PostTaskAction(v, id[1], t) = PostTaskAction(w, id[1], t)
  BY <1>1, <1>6 DEF PostTaskAction
<1>11. CASE h = "list"
  BY <1>1, <1>11 DEF CallRoute, QueryOk
<1>12. CASE h \in {"send", "stream", "task", "action", "cancel", "createConfig"}
  BY <1>6, <1>7, <1>8, <1>9, <1>10, <1>12 DEF CallRoute
<1>13. CASE h \in {"subscribe", "listConfigs", "getConfig", "deleteConfig", "card"}
  BY <1>1, <1>13 DEF CallRoute, QueryOk
<1> QED BY <1>11, <1>12, <1>13 DEF HandlerNames

LEMMA AlikeVersions ==
  ASSUME NEW v, NEW w, Alike(v, w)
  PROVE  HttpVersionSupported(v) = HttpVersionSupported(w)
BY Zenon DEF Alike, HttpVersionSupported

LEMMA PathParams ==
  ASSUME NEW p
  PROVE  /\ Param(<<TasksSeg, IdSeg>>, p, IdSeg) = <<p[2]>>
         /\ \A a \in Literal : Param(<<TasksSeg, IdSeg, a>>, p, IdSeg) = <<p[2]>>
         /\ \A a \in Literal :
              /\ Param(<<TasksSeg, IdSeg, a, ConfigIdSeg>>, p, IdSeg) = <<p[2]>>
              /\ Param(<<TasksSeg, IdSeg, a, ConfigIdSeg>>, p, ConfigIdSeg) = <<p[4]>>
<1>1. /\ TasksSeg \in Literal /\ \A a \in Literal : a # IdSeg /\ a # ConfigIdSeg
      /\ IdSeg # ConfigIdSeg
  <2>1. IdSeg # ConfigIdSeg
    BY DEF IdSeg, ConfigIdSeg
  <2>2. TasksSeg \in Literal
    BY DEF Literal
  <2>3. \A a \in Literal : a # IdSeg /\ a # ConfigIdSeg
    BY LiteralsAreFixed, Parameters
  <2> QED BY <2>1, <2>2, <2>3
<1>2. Param(<<TasksSeg, IdSeg>>, p, IdSeg) = <<p[2]>>
  <2> DEFINE t == <<TasksSeg, IdSeg>>
  <2>1. 2 \in DOMAIN t /\ t[2] = IdSeg /\ \A j \in DOMAIN t : t[j] = IdSeg => j = 2
    BY <1>1
  <2> HIDE DEF t
  <2> QED BY <2>1, ParamAt DEF t
<1>3. ASSUME NEW a \in Literal PROVE Param(<<TasksSeg, IdSeg, a>>, p, IdSeg) = <<p[2]>>
  <2> DEFINE t == <<TasksSeg, IdSeg, a>>
  <2>1. 2 \in DOMAIN t /\ t[2] = IdSeg /\ \A j \in DOMAIN t : t[j] = IdSeg => j = 2
    BY <1>1
  <2> HIDE DEF t
  <2>2. Param(t, p, IdSeg) = <<p[2]>>
    BY <2>1, ParamAt
  <2> QED BY <2>2 DEF t
<1>4. ASSUME NEW a \in Literal
      PROVE  /\ Param(<<TasksSeg, IdSeg, a, ConfigIdSeg>>, p, IdSeg) = <<p[2]>>
             /\ Param(<<TasksSeg, IdSeg, a, ConfigIdSeg>>, p, ConfigIdSeg) = <<p[4]>>
  <2> DEFINE t == <<TasksSeg, IdSeg, a, ConfigIdSeg>>
  <2>1. /\ 2 \in DOMAIN t /\ t[2] = IdSeg /\ \A j \in DOMAIN t : t[j] = IdSeg => j = 2
        /\ 4 \in DOMAIN t /\ t[4] = ConfigIdSeg /\ \A j \in DOMAIN t : t[j] = ConfigIdSeg => j = 4
    BY <1>1
  <2> HIDE DEF t
  <2>2. Param(t, p, IdSeg) = <<p[2]>> /\ Param(t, p, ConfigIdSeg) = <<p[4]>>
    BY <2>1, ParamAt
  <2> QED BY <2>2 DEF t
<1> QED BY <1>2, <1>3, <1>4

LEMMA OlderAreLegacy == \A r \in RestRouter : r.path \in Legacy7 => r \in LegacyBindings
<1>1. /\ SendSeg # <<"send">> /\ ConfigsSeg # OldConfigsSeg /\ ConfigsSeg # <<"cancel">>
      /\ ConfigsSeg # SubscribeSeg /\ TasksSeg # <<"message">> /\ TasksSeg # <<"agent-card">>
  BY DEF SendSeg, ConfigsSeg, OldConfigsSeg, SubscribeSeg, TasksSeg
<1>2. \A r \in Bindings(<<>>) : r.path \in Plain7
  BY PlainBindings, RouteParts DEF Plain7
<1>3. \A r \in Bindings(<<TenantSeg>>) : r.path \in Tenanted
  BY TenantBindings, RouteParts DEF Tenanted
<1>4. \A t \in Plain7 : t \notin Legacy7
  BY <1>1 DEF Plain7, Legacy7
<1>5. \A t \in Tenanted : t \notin Legacy7
  BY LiteralHeads, TenantedOnce
<1> QED BY <1>2, <1>3, <1>4, <1>5 DEF RestRouter

(* A request its path leads to an older route, and one to the other route. *)
LEMMA OlderIs ==
  ASSUME NEW w, NEW r \in RestRouter, RoutedTo(w, r), NEW t \in Legacy7, Fits(t, w.path),
         NEW q \in RestRouter, q.path = t
  PROVE  r.path = t /\ r \in LegacyBindings
<1>1. t \in Matching(w.path)
  BY DEF Matching
<1>2. t[1] # TenantSeg
  BY LiteralHeads
<1>3. r.path \in Matching(w.path) /\ r.path[1] # TenantSeg
  BY <1>1, <1>2 DEF RoutedTo, OnlyTenants
<1>4. r.path = LiteralRoute(w.path) /\ t = LiteralRoute(w.path)
  BY <1>1, <1>2, <1>3, MatchingShape
<1> QED BY <1>4, OlderAreLegacy

LEMMA TwinAnswers ==
  ASSUME NEW w, NEW v, Alike(v, w), NEW r \in LegacyBindings, RoutedTo(w, r), HttpVersionSupported(w),
         HandleRest(w) = Handled(w, r), NEW h, NEW t \in Plain7,
         Route(t, w.verb, h) \in Bindings(<<>>), Fits(t, v.path)
  PROVE  /\ HandleRest(w) = CallRoute(w, r.handler, NoTenant, Param(r.path, w.path, IdSeg),
                                      Param(r.path, w.path, ConfigIdSeg))
         /\ HandleRest(v) = CallRoute(w, h, NoTenant, Param(t, v.path, IdSeg),
                                      Param(t, v.path, ConfigIdSeg))
<1> DEFINE s == Route(t, w.verb, h)
<1>1. s \in RestRouter /\ s.path = t /\ s.verb = v.verb /\ s.handler = h /\ t[1] # TenantSeg
  <2>1. s \in RestRouter
    BY Zenon DEF RestRouter
  <2>2. s.path = t /\ s.verb = w.verb /\ s.handler = h
    BY RouteParts
  <2>3. t[1] # TenantSeg
    BY LiteralHeads
  <2> QED BY <2>1, <2>2, <2>3 DEF Alike
<1> HIDE DEF s
<1>2. HttpVersionSupported(v)
  BY AlikeVersions
<1>3. HandleRest(v) = Handled(v, s)
  BY <1>1, <1>2, OneHandler, RestAnswers
<1>4. PathTenant(v, s) = NoTenant
  <2>1. s.path \in Matching(v.path)
    BY <1>1 DEF Matching
  <2> QED BY <1>1, <2>1, PathTenants
<1>5. PathTenant(w, r) = NoTenant
  <2>1. r.path \in Legacy7
    BY RouteParts DEF LegacyBindings, Legacy7, SubscribeSeg
  <2>2. r.path[1] # TenantSeg /\ r \in RestRouter
    BY <2>1, LiteralHeads DEF RoutedTo
  <2> QED BY <2>2, PathTenants DEF RoutedTo
<1>6. h \in HandlerNames
  BY <1>1, HandlerIsNamed
<1>7. HandleRest(v) = CallRoute(v, h, NoTenant, Param(t, v.path, IdSeg), Param(t, v.path, ConfigIdSeg))
  BY <1>1, <1>3, <1>4, Zenon DEF Handled, PathTenant
<1>8. HandleRest(w) = CallRoute(w, r.handler, NoTenant, Param(r.path, w.path, IdSeg),
                                Param(r.path, w.path, ConfigIdSeg))
  BY <1>5, Zenon DEF Handled, PathTenant
<1> QED BY <1>6, <1>7, <1>8, AlikeCalls

LEMMA LegacyHandlers ==
  \A r \in LegacyBindings :
    /\ r.path = <<<<"message">>, <<"send">>>> => r.verb = "POST" /\ r.handler = "send"
    /\ r.path = <<<<"message">>, <<"stream">>>> => r.verb = "POST" /\ r.handler = "stream"
    /\ r.path = <<TasksSeg, IdSeg, <<"cancel">>>> => r.verb = "POST" /\ r.handler = "cancel"
    /\ r.path = <<TasksSeg, IdSeg, SubscribeSeg>> =>
         r.verb \in {"GET", "POST"} /\ r.handler = "subscribe"
    /\ r.path = <<TasksSeg, IdSeg, OldConfigsSeg>> =>
         \/ r.verb = "POST" /\ r.handler = "createConfig"
         \/ r.verb = "GET" /\ r.handler = "listConfigs"
    /\ r.path = <<TasksSeg, IdSeg, OldConfigsSeg, ConfigIdSeg>> =>
         \/ r.verb = "GET" /\ r.handler = "getConfig"
         \/ r.verb = "DELETE" /\ r.handler = "deleteConfig"
    /\ r.path = <<<<"agent-card">>, <<"extended">>>> => r.verb = "GET" /\ r.handler = "card"
<1>1. /\ <<"message">> # <<"agent-card">> /\ <<"send">> # <<"stream">>
      /\ <<"cancel">> # SubscribeSeg /\ <<"cancel">> # OldConfigsSeg /\ SubscribeSeg # OldConfigsSeg
  BY DEF SubscribeSeg, OldConfigsSeg
<1> QED BY <1>1, RouteParts DEF LegacyBindings, SubscribeSeg

LEMMA LegacyFits ==
  ASSUME NEW p
  PROVE  /\ Fits(<<<<"message">>, <<"send">>>>, <<<<"message">>, <<"send">>>>)
         /\ Fits(<<<<"message">>, <<"stream">>>>, <<<<"message">>, <<"stream">>>>)
         /\ Fits(<<<<"agent-card">>, <<"extended">>>>, <<<<"agent-card">>, <<"extended">>>>)
         /\ \A a \in Literal : Len(p) = 3 /\ p[1] = TasksSeg /\ p[2] # <<>> /\ p[3] = a =>
              Fits(<<TasksSeg, IdSeg, a>>, p)
         /\ \A a \in Literal :
              Len(p) = 4 /\ p[1] = TasksSeg /\ p[2] # <<>> /\ p[3] = a /\ p[4] # <<>> =>
                Fits(<<TasksSeg, IdSeg, a, ConfigIdSeg>>, p)
<1>1. {<<"message">>, <<"send">>, <<"stream">>, <<"agent-card">>, <<"extended">>, TasksSeg} \subseteq Literal
  BY DEF Literal
<1>2. \A a, b \in Literal : Fits(<<a, b>>, <<a, b>>)
  <2>1. ASSUME NEW a \in Literal, NEW b \in Literal PROVE Fits(<<a, b>>, <<a, b>>)
    <3>1. Len(<<a, b>>) = 2 /\ <<a, b>>[1] = a /\ <<a, b>>[2] = b
      OBVIOUS
    <3> QED BY <3>1, FitsEach, AtEach
  <2> QED BY <2>1
<1>3. \A a \in Literal : Len(p) = 3 /\ p[1] = TasksSeg /\ p[2] # <<>> /\ p[3] = a =>
        Fits(<<TasksSeg, IdSeg, a>>, p)
  BY <1>1, FitsEach, AtEach
<1>4. \A a \in Literal :
        Len(p) = 4 /\ p[1] = TasksSeg /\ p[2] # <<>> /\ p[3] = a /\ p[4] # <<>> =>
          Fits(<<TasksSeg, IdSeg, a, ConfigIdSeg>>, p)
  BY <1>1, FitsEach, AtEach
<1> QED BY <1>1, <1>2, <1>3, <1>4

LEMMA LegacyExist ==
  \A t \in Legacy7 : \E q \in RestRouter : q.path = t
<1>1. \A p, v, h : Route(p, v, h) \in LegacyBindings => \E q \in RestRouter : q.path = p
  BY RouteParts DEF RestRouter
<1>2. /\ Route(<<<<"message">>, <<"send">>>>, "POST", "send") \in LegacyBindings
      /\ Route(<<<<"message">>, <<"stream">>>>, "POST", "stream") \in LegacyBindings
      /\ Route(<<TasksSeg, IdSeg, <<"cancel">>>>, "POST", "cancel") \in LegacyBindings
      /\ Route(<<TasksSeg, IdSeg, SubscribeSeg>>, "GET", "subscribe") \in LegacyBindings
      /\ Route(<<TasksSeg, IdSeg, OldConfigsSeg>>, "POST", "createConfig") \in LegacyBindings
      /\ Route(<<TasksSeg, IdSeg, OldConfigsSeg, ConfigIdSeg>>, "GET", "getConfig") \in LegacyBindings
      /\ Route(<<<<"agent-card">>, <<"extended">>>>, "GET", "card") \in LegacyBindings
  BY Zenon DEF LegacyBindings, SubscribeSeg
<1> QED BY <1>1, <1>2, Zenon DEF Legacy7

(* What Canonical does to a request.                                       *)
LEMMA CanonicalIs ==
  ASSUME NEW w \in RestWires
  PROVE  LET p == w.path
             v == Canonical(w)
         IN  /\ Alike(v, w)
             /\ \/ p = <<<<"message">>, <<"send">>>> /\ v.path = <<SendSeg>>
                \/ p = <<<<"message">>, <<"stream">>>> /\ v.path = <<StreamSeg>>
                \/ /\ Len(p) = 3 /\ p[1] = TasksSeg /\ p[3] = <<"cancel">>
                   /\ v.path = <<p[1], Append(p[2], ":cancel")>>
                \/ /\ Len(p) = 3 /\ p[1] = TasksSeg /\ p[3] = SubscribeSeg
                   /\ v.path = <<p[1], Append(p[2], ":subscribe")>>
                \/ /\ Len(p) \in {3, 4} /\ p[1] = TasksSeg /\ p[3] = OldConfigsSeg
                   /\ v.path = [p EXCEPT ![3] = ConfigsSeg]
                \/ p = <<<<"agent-card">>, <<"extended">>>> /\ v.path = <<CardSeg>>
                \/ v = w
<1> DEFINE p == w.path
           v == Canonical(w)
           path == CASE p = <<<<"message">>, <<"send">>>>   -> <<<<"message:send">>>>
                     [] p = <<<<"message">>, <<"stream">>>> -> <<<<"message:stream">>>>
                     [] Len(p) = 3 /\ p[1] = TasksSeg /\ p[3] = <<"cancel">> ->
                          <<p[1], Append(p[2], ":cancel")>>
                     [] Len(p) = 3 /\ p[1] = TasksSeg /\ p[3] = <<"subscribe">> ->
                          <<p[1], Append(p[2], ":subscribe")>>
                     [] Len(p) \in {3, 4} /\ p[1] = TasksSeg /\ p[3] = OldConfigsSeg ->
                          [p EXCEPT ![3] = ConfigsSeg]
                     [] p = <<<<"agent-card">>, <<"extended">>>> -> <<<<"extendedAgentCard">>>>
                     [] OTHER -> p
<1>1. v = [w EXCEPT !.path = path]
  BY DEF Canonical
<1> HIDE DEF v
<1>2. \/ p = <<<<"message">>, <<"send">>>> /\ path = <<SendSeg>>
      \/ p = <<<<"message">>, <<"stream">>>> /\ path = <<StreamSeg>>
      \/ /\ Len(p) = 3 /\ p[1] = TasksSeg /\ p[3] = <<"cancel">>
         /\ path = <<p[1], Append(p[2], ":cancel")>>
      \/ /\ Len(p) = 3 /\ p[1] = TasksSeg /\ p[3] = SubscribeSeg
         /\ path = <<p[1], Append(p[2], ":subscribe")>>
      \/ /\ Len(p) \in {3, 4} /\ p[1] = TasksSeg /\ p[3] = OldConfigsSeg
         /\ path = [p EXCEPT ![3] = ConfigsSeg]
      \/ p = <<<<"agent-card">>, <<"extended">>>> /\ path = <<CardSeg>>
      \/ path = p
  <2> DEFINE a == p = <<<<"message">>, <<"send">>>>
             b == p = <<<<"message">>, <<"stream">>>>
             c == Len(p) = 3 /\ p[1] = TasksSeg /\ p[3] = <<"cancel">>
             d == Len(p) = 3 /\ p[1] = TasksSeg /\ p[3] = SubscribeSeg
             e == Len(p) \in {3, 4} /\ p[1] = TasksSeg /\ p[3] = OldConfigsSeg
             f == p = <<<<"agent-card">>, <<"extended">>>>
             cancel == <<p[1], Append(p[2], ":cancel")>>
             subscribe == <<p[1], Append(p[2], ":subscribe")>>
             renamed == [p EXCEPT ![3] = ConfigsSeg]
  <2>1. path = CASE a -> <<SendSeg>> [] b -> <<StreamSeg>> [] c -> cancel [] d -> subscribe
                 [] e -> renamed [] f -> <<CardSeg>> [] OTHER -> p
    BY Zenon DEF SendSeg, StreamSeg, CardSeg, SubscribeSeg
  <2> HIDE DEF a, b, c, d, e, f, cancel, subscribe, renamed, path
  <2>2. \/ a /\ path = <<SendSeg>>
        \/ b /\ path = <<StreamSeg>>
        \/ c /\ path = cancel
        \/ d /\ path = subscribe
        \/ e /\ path = renamed
        \/ f /\ path = <<CardSeg>>
        \/ path = p
    BY <2>1
  <2> QED BY <2>2 DEF a, b, c, d, e, f, cancel, subscribe, renamed
<1> HIDE DEF path
<1>3. w \in [path : Seq(Seq(Text)), verb : STRING, query : STRING, body : STRING, tenant : STRING,
             headers : Seq([name : STRING, value : Seq(Int), ascii : BOOLEAN]),
             queryVersion : Seq(Seq(Int)), task : Seq(STRING)]
  BY EntryAssumption
<1>4. v.path = path /\ Alike(v, w) /\ (path = p => v = w)
  BY <1>1, <1>3 DEF Alike
<1> QED BY <1>2, <1>4 DEF v

(* An older path means what the path it stands for means.                  *)
LEMMA OlderMeans ==
  ASSUME NEW w \in RestWires, HandleRest(w).kind = "give", HandleRest(Canonical(w)).kind = "give"
  PROVE  HandleRest(Canonical(w)) = HandleRest(w)
<1> DEFINE v == Canonical(w)
           p == w.path
<1>1. PICK r \in RestRouter : RoutedTo(w, r) /\ HandleRest(w) = Handled(w, r) /\ HttpVersionSupported(w)
  <2>1. \A s : Plainly(s).kind # "give"
    BY PlainlyKind
  <2>2. \A e : Refuse(e).kind # "give"
    BY DEF Refuse
  <2> QED BY <2>1, <2>2, RestOutcomes DEF Unversioned
<1>2. Alike(v, w)
  BY CanonicalIs
<1>3. p \in Seq(Seq(Text)) /\ \A i \in 1 .. Len(p) : p[i] # <<>>
  <2>1. w.path \in Seq(Seq(Text))
    BY EntryAssumption
  <2> QED BY <1>1, <2>1, MatchingShape DEF RoutedTo
<1> HIDE DEF v, p
<1>4. /\ w.verb = r.verb /\ p = w.path
  BY <1>1 DEF RoutedTo, p
<1>5. \A t \in Legacy7 : Fits(t, p) => r.path = t /\ r \in LegacyBindings
  BY <1>1, <1>4, LegacyExist, OlderIs
<1>6. {<<"cancel">>, SubscribeSeg, OldConfigsSeg, ConfigsSeg, TasksSeg} \subseteq Literal
  BY DEF Literal
<1>7. ASSUME NEW t \in Plain7, NEW h, Route(t, w.verb, h) \in Bindings(<<>>), Fits(t, v.path),
             r \in LegacyBindings
      PROVE  /\ HandleRest(w) = CallRoute(w, r.handler, NoTenant, Param(r.path, p, IdSeg),
                                          Param(r.path, p, ConfigIdSeg))
             /\ HandleRest(v) = CallRoute(w, h, NoTenant, Param(t, v.path, IdSeg),
                                          Param(t, v.path, ConfigIdSeg))
  <2>1. Alike(v, w) /\ RoutedTo(w, r) /\ HttpVersionSupported(w) /\ HandleRest(w) = Handled(w, r)
    BY <1>1, <1>2
  <2>2. /\ HandleRest(w) = CallRoute(w, r.handler, NoTenant, Param(r.path, w.path, IdSeg),
                                      Param(r.path, w.path, ConfigIdSeg))
        /\ HandleRest(v) = CallRoute(w, h, NoTenant, Param(t, v.path, IdSeg),
                                      Param(t, v.path, ConfigIdSeg))
    BY <1>7, <2>1, TwinAnswers
  <2> QED BY <1>4, <2>2, Zenon
<1>8. ASSUME NEW a \in {SendSeg, StreamSeg, CardSeg}, NEW t \in Legacy7, p = t, Fits(t, t),
             v.path = <<a>>, NEW h \in {"send", "stream", "card"}, r.handler = h,
             Route(<<a>>, w.verb, h) \in Bindings(<<>>)
      PROVE  HandleRest(v) = HandleRest(w)
  <2>1. r.path = t /\ r \in LegacyBindings
    BY <1>5, <1>8
  <2>2. <<a>> \in Plain7
    BY <1>8 DEF Plain7
  <2>3. Fits(<<a>>, v.path)
    <3>1. Len(<<a>>) = 1 /\ <<a>>[1] = a /\ a \in Literal
      BY <1>8 DEF Literal
    <3> QED BY <1>8, <3>1, FitsEach, AtEach
  <2>4. /\ HandleRest(w) = CallRoute(w, h, NoTenant, Param(r.path, p, IdSeg),
                                     Param(r.path, p, ConfigIdSeg))
        /\ HandleRest(v) = CallRoute(w, h, NoTenant, Param(<<a>>, v.path, IdSeg),
                                     Param(<<a>>, v.path, ConfigIdSeg))
    BY <1>7, <1>8, <2>1, <2>2, <2>3
  <2>5. \A id, config, id1, config1 :
          CallRoute(w, h, NoTenant, id, config) = CallRoute(w, h, NoTenant, id1, config1)
    BY <1>8 DEF CallRoute
  <2> QED BY <2>4, <2>5
<1>9. CASE p = <<<<"message">>, <<"send">>>> /\ v.path = <<SendSeg>>
  <2>1. p \in Legacy7 /\ Fits(p, p)
    BY <1>9, LegacyFits DEF Legacy7
  <2>2. r.verb = "POST" /\ r.handler = "send"
    BY <1>5, <1>9, <2>1, LegacyHandlers
  <2>3. Route(<<SendSeg>>, "POST", "send") \in Bindings(<<>>)
    BY PlainBindings
  <2> QED BY <1>4, <1>8, <1>9, <2>1, <2>2, <2>3 DEF v
<1>10. CASE p = <<<<"message">>, <<"stream">>>> /\ v.path = <<StreamSeg>>
  <2>1. p \in Legacy7 /\ Fits(p, p)
    BY <1>10, LegacyFits DEF Legacy7
  <2>2. r.verb = "POST" /\ r.handler = "stream"
    BY <1>5, <1>10, <2>1, LegacyHandlers
  <2>3. Route(<<StreamSeg>>, "POST", "stream") \in Bindings(<<>>)
    BY PlainBindings
  <2> QED BY <1>4, <1>8, <1>10, <2>1, <2>2, <2>3 DEF v
<1>11. CASE p = <<<<"agent-card">>, <<"extended">>>> /\ v.path = <<CardSeg>>
  <2>1. p \in Legacy7 /\ Fits(p, p)
    BY <1>11, LegacyFits DEF Legacy7
  <2>2. r.verb = "GET" /\ r.handler = "card"
    BY <1>5, <1>11, <2>1, LegacyHandlers
  <2>3. Route(<<CardSeg>>, "GET", "card") \in Bindings(<<>>)
    BY PlainBindings
  <2> QED BY <1>4, <1>8, <1>11, <2>1, <2>2, <2>3 DEF v
(* A suffix in place of a segment.                                         *)
<1>12. ASSUME NEW a \in {<<"cancel">>, SubscribeSeg}, Len(p) = 3, p[1] = TasksSeg, p[3] = a,
              NEW x, v.path = <<p[1], Append(p[2], x)>>, NEW h,
              Route(<<TasksSeg, IdSeg>>, w.verb, h) \in Bindings(<<>>)
       PROVE  /\ HandleRest(w) = CallRoute(w, r.handler, NoTenant, <<p[2]>>, Param(r.path, p, ConfigIdSeg))
              /\ HandleRest(v) = CallRoute(w, h, NoTenant, <<Append(p[2], x)>>,
                                           Param(<<TasksSeg, IdSeg>>, v.path, ConfigIdSeg))
              /\ StripSuffix(Append(p[2], x), x) /\ Front(Append(p[2], x)) = p[2]
  <2>1. p[2] \in Seq(Text) /\ p[2] # <<>>
    <3>1. 2 \in 1 .. Len(p)
      BY <1>12
    <3> QED BY <1>3, <3>1
  <2>2. Append(p[2], x) # <<>> /\ Last(Append(p[2], x)) = x /\ Front(Append(p[2], x)) = p[2]
    BY <2>1, Suffixed, Zenon
  <2> DEFINE t == <<TasksSeg, IdSeg, a>>
             s == <<TasksSeg, IdSeg>>
  <2>3. t \in Legacy7 /\ s \in Plain7 /\ a \in Literal
    BY <1>6, <1>12 DEF Legacy7, Plain7
  <2>4. Fits(t, p)
    BY <1>12, <2>1, <2>3, LegacyFits
  <2>5. v.path[1] = TasksSeg /\ v.path[2] = Append(p[2], x) /\ Len(v.path) = 2
    BY <1>12
  <2>6. Fits(s, v.path)
    BY <1>6, <2>2, <2>5, FitsEach, AtEach
  <2>7. Param(t, p, IdSeg) = <<p[2]>> /\ Param(s, v.path, IdSeg) = <<v.path[2]>>
    BY <2>3, PathParams
  <2> HIDE DEF t
  <2>8. r.path = t /\ r \in LegacyBindings
    BY <1>5, <2>3, <2>4
  <2>9. Route(s, w.verb, h) \in Bindings(<<>>)
    BY <1>12
  <2> HIDE DEF s
  <2>10. /\ HandleRest(w) = CallRoute(w, r.handler, NoTenant, <<p[2]>>, Param(r.path, p, ConfigIdSeg))
         /\ HandleRest(v) = CallRoute(w, h, NoTenant, <<Append(p[2], x)>>, Param(s, v.path, ConfigIdSeg))
    BY <1>7, <2>3, <2>5, <2>6, <2>7, <2>8, <2>9
  <2> QED BY <2>2, <2>10 DEF StripSuffix, s
<1>13. ASSUME NEW a \in {<<"cancel">>, SubscribeSeg}, Len(p) = 3, p[1] = TasksSeg, p[3] = a
       PROVE  r.path = <<TasksSeg, IdSeg, a>> /\ r \in LegacyBindings
  <2>1. <<TasksSeg, IdSeg, a>> \in Legacy7 /\ a \in Literal /\ p[2] # <<>>
    BY <1>3, <1>6, <1>13 DEF Legacy7
  <2> QED BY <1>5, <1>13, <2>1, LegacyFits
<1>14. /\ Route(<<TasksSeg, IdSeg>>, "GET", "task") \in Bindings(<<>>)
       /\ Route(<<TasksSeg, IdSeg>>, "POST", "action") \in Bindings(<<>>)
  BY PlainBindings
<1>16. CASE /\ Len(p) = 3 /\ p[1] = TasksSeg /\ p[3] = <<"cancel">>
            /\ v.path = <<p[1], Append(p[2], ":cancel")>>
  <2>1. r.verb = "POST" /\ r.handler = "cancel"
    BY <1>13, <1>16, LegacyHandlers
  <2> DEFINE id == Append(p[2], ":cancel")
  <2>2. /\ HandleRest(w) = CallRoute(w, "cancel", NoTenant, <<p[2]>>, Param(r.path, p, ConfigIdSeg))
        /\ HandleRest(v) = CallRoute(w, "action", NoTenant, <<id>>,
                                     Param(<<TasksSeg, IdSeg>>, v.path, ConfigIdSeg))
        /\ StripSuffix(id, ":cancel") /\ Front(id) = p[2]
    BY <1>4, <1>12, <1>14, <1>16, <2>1
  <2> HIDE DEF id
  <2>3. HandleRest(w) = CancelTaskInner(w, p[2], NoTenant)
    BY <2>2 DEF CallRoute
  <2>4. HandleRest(v) = PostTaskAction(w, id, NoTenant)
    BY <2>2 DEF CallRoute
  <2>5. ~StripSuffix(id, ":subscribe")
    BY <2>2 DEF StripSuffix
  <2>6. PostTaskAction(w, id, NoTenant) = CancelTaskInner(w, p[2], NoTenant)
    BY <2>2, <2>5 DEF PostTaskAction
  <2> QED BY <2>3, <2>4, <2>6 DEF v
<1>17. CASE /\ Len(p) = 3 /\ p[1] = TasksSeg /\ p[3] = SubscribeSeg
            /\ v.path = <<p[1], Append(p[2], ":subscribe")>>
  <2>1. r.verb \in {"GET", "POST"} /\ r.handler = "subscribe"
    BY <1>13, <1>17, LegacyHandlers
  <2> DEFINE id == Append(p[2], ":subscribe")
             g == Give("SubscribeToTask", <<p[2]>>, NoTenant)
             h == IF r.verb = "GET" THEN "task" ELSE "action"
  <2>2. /\ HandleRest(w) = CallRoute(w, "subscribe", NoTenant, <<p[2]>>, Param(r.path, p, ConfigIdSeg))
        /\ HandleRest(v) = CallRoute(w, h, NoTenant, <<id>>,
                                     Param(<<TasksSeg, IdSeg>>, v.path, ConfigIdSeg))
        /\ StripSuffix(id, ":subscribe") /\ Front(id) = p[2]
    BY <1>4, <1>12, <1>14, <1>17, <2>1
  <2> HIDE DEF id
  <2>3. HandleRest(w) = g
    BY <2>2 DEF CallRoute
  <2>4. \/ HandleRest(v) = GetTaskOrSubscribe(w, id, NoTenant)
        \/ HandleRest(v) = PostTaskAction(w, id, NoTenant)
    BY <2>1, <2>2 DEF CallRoute
  <2>5. ~StripSuffix(id, ":cancel")
    BY <2>2 DEF StripSuffix
  <2> DEFINE large == Check(w.body = "large", Plainly(413))
  <2>6. PostTaskAction(w, id, NoTenant) = Checked(<<large>>, g)
    BY <2>2, <2>5, Zenon DEF PostTaskAction
  <2>7. PostTaskAction(w, id, NoTenant) = g \/ PostTaskAction(w, id, NoTenant) \in large
    BY <2>6, CheckedOne
  <2>8. GetTaskOrSubscribe(w, id, NoTenant) = g \/ GetTaskOrSubscribe(w, id, NoTenant) = InvalidBody
    BY <2>2 DEF GetTaskOrSubscribe, QueryOk
  <2>9. InvalidBody.kind # "give" /\ Plainly(413).kind # "give" /\ HandleRest(v).kind = "give"
    BY DEF InvalidBody, Refuse, Plainly, v
  <2>10. \A x \in large : x = Plainly(413)
    BY Zenon DEF Check
  <2> HIDE DEF large, g
  <2> QED BY <2>3, <2>4, <2>7, <2>8, <2>9, <2>10 DEF v
<1>18. CASE /\ Len(p) \in {3, 4} /\ p[1] = TasksSeg /\ p[3] = OldConfigsSeg
            /\ v.path = [p EXCEPT ![3] = ConfigsSeg]
  <2>1. /\ v.path[1] = TasksSeg /\ v.path[2] = p[2] /\ v.path[3] = ConfigsSeg
        /\ Len(v.path) = Len(p) /\ (Len(p) = 4 => v.path[4] = p[4])
    BY <1>3, <1>18
  <2>2. p[2] # <<>> /\ (Len(p) = 4 => p[4] # <<>>)
    BY <1>3, <1>18
  <2> DEFINE t3 == <<TasksSeg, IdSeg, OldConfigsSeg>>
             t4 == <<TasksSeg, IdSeg, OldConfigsSeg, ConfigIdSeg>>
             s3 == <<TasksSeg, IdSeg, ConfigsSeg>>
             s4 == <<TasksSeg, IdSeg, ConfigsSeg, ConfigIdSeg>>
  <2>3. t3 \in Legacy7 /\ t4 \in Legacy7 /\ s3 \in Plain7 /\ s4 \in Plain7
    BY DEF Legacy7, Plain7
  <2>4. /\ Len(p) = 3 => Fits(t3, p) /\ Fits(s3, v.path)
        /\ Len(p) = 4 => Fits(t4, p) /\ Fits(s4, v.path)
    <3>1. OldConfigsSeg \in Literal /\ ConfigsSeg \in Literal
      BY <1>6
    <3>2. /\ Len(p) = 3 => Fits(t3, p)
          /\ Len(p) = 4 => Fits(t4, p)
      BY <1>18, <2>2, <3>1, LegacyFits
    <3>3. /\ Len(p) = 3 => Fits(s3, v.path)
          /\ Len(p) = 4 => Fits(s4, v.path)
      BY <2>1, <2>2, <3>1, LegacyFits
    <3> QED BY <3>2, <3>3
  <2>5. /\ Param(t3, p, IdSeg) = <<p[2]>> /\ Param(s3, v.path, IdSeg) = <<p[2]>>
        /\ Param(t4, p, IdSeg) = <<p[2]>> /\ Param(s4, v.path, IdSeg) = <<p[2]>>
        /\ Param(t4, p, ConfigIdSeg) = <<p[4]>> /\ Param(s4, v.path, ConfigIdSeg) = <<v.path[4]>>
    <3>1. OldConfigsSeg \in Literal /\ ConfigsSeg \in Literal
      BY <1>6
    <3>2. /\ Param(t3, p, IdSeg) = <<p[2]>> /\ Param(t4, p, IdSeg) = <<p[2]>>
          /\ Param(t4, p, ConfigIdSeg) = <<p[4]>>
      BY <3>1, PathParams, Zenon
    <3>3. /\ Param(s3, v.path, IdSeg) = <<v.path[2]>> /\ Param(s4, v.path, IdSeg) = <<v.path[2]>>
          /\ Param(s4, v.path, ConfigIdSeg) = <<v.path[4]>>
      BY <3>1, PathParams, Zenon
    <3> QED BY <2>1, <3>2, <3>3, Zenon
  <2>6. /\ Route(s3, "POST", "createConfig") \in Bindings(<<>>)
        /\ Route(s3, "GET", "listConfigs") \in Bindings(<<>>)
        /\ Route(s4, "GET", "getConfig") \in Bindings(<<>>)
        /\ Route(s4, "DELETE", "deleteConfig") \in Bindings(<<>>)
    BY PlainBindings
  <2>7. /\ r \in LegacyBindings
        /\ Len(p) = 3 => r.path = t3
        /\ Len(p) = 4 => r.path = t4
    BY <1>5, <1>18, <2>3, <2>4
  <2>8. /\ Len(p) = 3 => \/ r.verb = "POST" /\ r.handler = "createConfig"
                         \/ r.verb = "GET" /\ r.handler = "listConfigs"
        /\ Len(p) = 4 => \/ r.verb = "GET" /\ r.handler = "getConfig"
                         \/ r.verb = "DELETE" /\ r.handler = "deleteConfig"
    BY <2>7, LegacyHandlers
  <2> HIDE DEF t3, t4, s3, s4
  <2>9. CASE Len(p) = 3
    <3>1. /\ HandleRest(w) = CallRoute(w, r.handler, NoTenant, <<p[2]>>, Param(t3, p, ConfigIdSeg))
          /\ HandleRest(v) = CallRoute(w, r.handler, NoTenant, <<p[2]>>, Param(s3, v.path, ConfigIdSeg))
      BY <1>4, <1>7, <2>3, <2>4, <2>5, <2>6, <2>7, <2>8, <2>9
    <3>2. \A id, config, other :
            CallRoute(w, r.handler, NoTenant, id, config) = CallRoute(w, r.handler, NoTenant, id, other)
      BY <2>8, <2>9 DEF CallRoute
    <3> QED BY <3>1, <3>2 DEF v
  <2>10. CASE Len(p) = 4
    <3>1. /\ HandleRest(w) = CallRoute(w, r.handler, NoTenant, <<p[2]>>, <<p[4]>>)
          /\ HandleRest(v) = CallRoute(w, r.handler, NoTenant, <<p[2]>>, <<p[4]>>)
      BY <1>4, <1>7, <2>1, <2>3, <2>4, <2>5, <2>6, <2>7, <2>8, <2>10
    <3> QED BY <3>1 DEF v
  <2> QED BY <1>18, <2>9, <2>10
<1>19. CASE v = w
  BY <1>19 DEF v
<1> QED BY <1>9, <1>10, <1>11, <1>16, <1>17, <1>18, <1>19, CanonicalIs DEF v, p

-----------------------------------------------------------------------------
(* What the bindings answer.                                               *)

Given(d) == \E m, ids, tenant : d = Give(m, ids, tenant) /\ m \in DOMAIN RpcName

RefusedWith(d) == \E e : d = Refuse(e) /\ e.code \in Codes

Plain(d) == \E s : d = Plainly(s)

LEMMA Refusals ==
  /\ RefusedWith(Refuse(UnsupportedVersion)) /\ RefusedWith(InvalidRequest)
  /\ RefusedWith(Refuse(Error("PARSE_ERROR", {}, FALSE)))
  /\ RefusedWith(Refuse(Error("METHOD_NOT_FOUND", {}, TRUE)))
  /\ RefusedWith(Refuse(Error("INVALID_PARAMS", {}, FALSE)))
  /\ \A d : Refuses(d) => RefusedWith(d)
<1>1. \A code, details, missing : code \in Codes => RefusedWith(Refuse(Error(code, details, missing)))
  BY DEF RefusedWith, Error
<1>2. {"VERSION_NOT_SUPPORTED", "INVALID_REQUEST", "PARSE_ERROR", "METHOD_NOT_FOUND", "INVALID_PARAMS"}
        \subseteq Codes
  BY DEF Codes
<1>3. \A d : Refuses(d) => RefusedWith(d)
  BY <1>2 DEF Refuses, RefusedWith
<1> QED BY <1>1, <1>2, <1>3 DEF UnsupportedVersion, InvalidRequest

LEMMA ServedIs ==
  ASSUME NEW w, IsRegistered(w) PROVE Served(w.name) \in DOMAIN RpcName
<1>1. PICK m \in DOMAIN RpcName : RpcName[m] = w.name
  BY DEF IsRegistered
<1> QED BY <1>1, NamesAreServed

LEMMA JsonRpcOutcomes ==
  ASSUME NEW w \in JsonRpcWires
  PROVE  LET d == HandleJsonRpc(w)
         IN  \/ Given(d) /\ HttpVersionSupported(w) /\ w.body = "good"
             \/ RefusedWith(d)
             \/ Plain(d)
<1> DEFINE v == HttpVersionSupported(w)
           next == Give(Served(w.name), w.ids, w.tenant)
           one == Check(w.body = "large", Plainly(413))
           two == Check(w.body = "syntax", Refuse(Error("PARSE_ERROR", {}, FALSE)))
           three == Check(w.body = "scalar" \/ ~ValidId(w.id) \/ w.name = "missing", InvalidRequest)
           four == Check(w.rpc # "2.0", InvalidRequest)
           five == Check(~v, Refuse(UnsupportedVersion))
           six == Check(w.name = "", InvalidRequest)
           seven == Check(~IsRegistered(w), Refuse(Error("METHOD_NOT_FOUND", {}, TRUE)))
           eight == Check(w.params = "bad", Refuse(Error("INVALID_PARAMS", {}, FALSE)))
           checks == <<one, two, three, four, five, six, seven, eight>>
           Otherwise(d) == RefusedWith(d) \/ Plain(d)
<1>1. HandleJsonRpc(w) = Checked(checks, next)
  BY Zenon DEF HandleJsonRpc
<1> DEFINE Fine(checked) == \A x \in checked : Otherwise(x)
<1>2. /\ \A x \in one : x = Plainly(413)
      /\ \A x \in two : x = Refuse(Error("PARSE_ERROR", {}, FALSE))
      /\ \A x \in three : x = InvalidRequest
      /\ \A x \in four : x = InvalidRequest
      /\ \A x \in five : x = Refuse(UnsupportedVersion)
      /\ \A x \in six : x = InvalidRequest
      /\ \A x \in seven : x = Refuse(Error("METHOD_NOT_FOUND", {}, TRUE))
      /\ \A x \in eight : x = Refuse(Error("INVALID_PARAMS", {}, FALSE))
  BY Zenon DEF Check
<1>3. /\ Fine(one) /\ Fine(two) /\ Fine(three) /\ Fine(four)
      /\ Fine(five) /\ Fine(six) /\ Fine(seven) /\ Fine(eight)
  <2>1. /\ Otherwise(Plainly(413)) /\ Otherwise(InvalidRequest)
        /\ Otherwise(Refuse(UnsupportedVersion))
        /\ Otherwise(Refuse(Error("PARSE_ERROR", {}, FALSE)))
        /\ Otherwise(Refuse(Error("METHOD_NOT_FOUND", {}, TRUE)))
        /\ Otherwise(Refuse(Error("INVALID_PARAMS", {}, FALSE)))
    BY Refusals DEF Plain
  <2> HIDE DEF Otherwise, one, two, three, four, five, six, seven, eight
  <2> QED BY <1>2, <2>1
<1>4. /\ one = {} => w.body # "large"
      /\ two = {} => w.body # "syntax"
      /\ three = {} => w.body # "scalar"
      /\ five = {} => v
      /\ seven = {} => IsRegistered(w)
  BY Zenon DEF Check
<1>5. w.body \in {"good", "large", "syntax", "scalar"}
  BY EntryAssumption
<1>6. IsRegistered(w) => Given(next)
  BY ServedIs DEF Given
<1> HIDE DEF one, two, three, four, five, six, seven, eight, v, next, Otherwise
<1>7. \/ Checked(checks, next) = next /\ one = {} /\ two = {} /\ three = {} /\ five = {} /\ seven = {}
      \/ Otherwise(Checked(checks, next))
  <2>1. /\ DOMAIN checks = 1 .. 8 /\ 8 \in Nat
        /\ checks[1] = one /\ checks[2] = two /\ checks[3] = three /\ checks[4] = four
        /\ checks[5] = five /\ checks[6] = six /\ checks[7] = seven /\ checks[8] = eight
    OBVIOUS
  <2>2. /\ \A i \in 1 .. 8 : i = 1 \/ i = 2 \/ i = 3 \/ i = 4 \/ i = 5 \/ i = 6 \/ i = 7 \/ i = 8
        /\ 1 \in 1 .. 8 /\ 2 \in 1 .. 8 /\ 3 \in 1 .. 8 /\ 5 \in 1 .. 8 /\ 7 \in 1 .. 8
    OBVIOUS
  <2> HIDE DEF checks
  <2>3. \/ Checked(checks, next) = next /\ \A i \in 1 .. 8 : checks[i] = {}
        \/ \E i \in 1 .. 8 : Checked(checks, next) \in checks[i]
    BY <2>1, CheckedGives
  <2>4. \A i \in 1 .. 8 : \A x \in checks[i] : Otherwise(x)
    BY <1>3, <2>1, <2>2
  <2> QED BY <2>1, <2>2, <2>3, <2>4
<1> QED BY <1>1, <1>4, <1>5, <1>6, <1>7 DEF Otherwise, v

LEMMA GrpcOutcomes ==
  ASSUME NEW w \in GrpcWires
  PROVE  LET d == HandleGrpc(w)
         IN  \/ /\ Given(d) /\ VersionSupported(ExtractServiceParams(w.headers))
                /\ w.body = "good"
             \/ RefusedWith(d)
             \/ Plain(d)
<1> DEFINE v == VersionSupported(ExtractServiceParams(w.headers))
           next == Give(Served(w.name), w.ids, w.tenant)
           one == Check(~IsRegistered(w), Plainly("Unimplemented"))
           two == Check(w.body = "bad", Plainly("Internal"))
           three == Check(~v, Refuse(UnsupportedVersion))
           checks == <<one, two, three>>
<1>1. HandleGrpc(w) = Checked(checks, next)
  BY Zenon DEF HandleGrpc
<1>2. /\ one = {} => IsRegistered(w)
      /\ two = {} => w.body # "bad"
      /\ three = {} => v
      /\ \A x \in one : x = Plainly("Unimplemented")
      /\ \A x \in two : x = Plainly("Internal")
      /\ \A x \in three : x = Refuse(UnsupportedVersion)
  BY Zenon DEF Check
<1>3. w.body \in {"good", "bad"}
  BY EntryAssumption
<1>4. IsRegistered(w) => Given(next)
  BY ServedIs DEF Given
<1>5. Plain(Plainly("Unimplemented")) /\ Plain(Plainly("Internal"))
  BY DEF Plain
<1> HIDE DEF one, two, three, v, next
<1>6. \/ Checked(checks, next) = next /\ one = {} /\ two = {} /\ three = {}
      \/ Checked(checks, next) \in one \/ Checked(checks, next) \in two
      \/ Checked(checks, next) \in three
  <2>1. /\ DOMAIN checks = 1 .. 3 /\ checks[1] = one /\ checks[2] = two /\ checks[3] = three
        /\ 3 \in Nat /\ 1 \in 1 .. 3 /\ 2 \in 1 .. 3 /\ 3 \in 1 .. 3
        /\ \A i \in 1 .. 3 : i = 1 \/ i = 2 \/ i = 3
    OBVIOUS
  <2> HIDE DEF checks
  <2>2. \/ Checked(checks, next) = next /\ \A i \in 1 .. 3 : checks[i] = {}
        \/ \E i \in 1 .. 3 : Checked(checks, next) \in checks[i]
    BY <2>1, CheckedGives
  <2> QED BY <2>1, <2>2
<1> QED BY <1>1, <1>2, <1>3, <1>4, <1>5, <1>6, Refusals DEF v

LEMMA SlimOutcomes ==
  ASSUME NEW w
  PROVE  Given(HandleSlim(w)) \/ Plain(HandleSlim(w))
<1> DEFINE next == Give(Served(w.name), w.ids, w.tenant)
           one == Check(~IsRegistered(w), Plainly("Unimplemented"))
           two == Check(w.body = "bad", Plainly("InvalidArgument"))
<1>1. HandleSlim(w) = Checked(<<one, two>>, next)
  BY Zenon DEF HandleSlim
<1>2. /\ one = {} => IsRegistered(w)
      /\ \A x \in one : x = Plainly("Unimplemented")
      /\ \A x \in two : x = Plainly("InvalidArgument")
  BY Zenon DEF Check
<1>3. IsRegistered(w) => Given(next)
  BY ServedIs DEF Given
<1>4. Plain(Plainly("Unimplemented")) /\ Plain(Plainly("InvalidArgument"))
  BY DEF Plain
<1> HIDE DEF one, two, next
<1>5. \/ Checked(<<one, two>>, next) = next /\ one = {} /\ two = {}
      \/ Checked(<<one, two>>, next) \in one
      \/ Checked(<<one, two>>, next) \in two
  BY CheckedTwo
<1> QED BY <1>1, <1>2, <1>3, <1>4, <1>5

(* Over SLIM, an identity the handler is shown is the session's.           *)
LEMMA IdentityIsTheSessions ==
  ASSUME NEW w, NEW k \in DOMAIN ToServiceParams(w.metadata, w.session),
         LowerCase(k) \in ReservedIdentityKeys
  PROVE  k \in DOMAIN w.session /\ ToServiceParams(w.metadata, w.session)[k] = <<w.session[k]>>
<1> DEFINE known == FromContext(w.session)
           kept == {j \in DOMAIN w.metadata : ~IsInternalMetadataKey(j) /\ ~IsReservedIdentityKey(j)}
<1>1. ToServiceParams(w.metadata, w.session) =
        [j \in DOMAIN known \union kept |-> IF j \in DOMAIN known THEN known[j] ELSE <<w.metadata[j]>>]
  BY Zenon DEF ToServiceParams
<1>2. k \notin kept
  BY DEF IsReservedIdentityKey
<1>3. /\ DOMAIN known = {key \in DOMAIN w.session : w.session[key] # "none"}
      /\ \A key \in DOMAIN known : known[key] = <<w.session[key]>>
  BY DEF FromContext
<1> HIDE DEF known, kept
<1> QED BY <1>1, <1>2, <1>3

(* Over REST.                                                              *)
RestGiven(w, m, tenant) ==
  /\ HttpVersionSupported(w)
  /\ w.body \in {"bad", "large"} => w.verb = "GET" \/ m = "SubscribeToTask" \/ w.verb = "DELETE"
  /\ w.tenant # NoTenant /\ m \in Bodied => tenant = w.tenant
  /\ tenant # NoTenant => tenant \in {w.tenant} \union {w.path[1][1]}
  /\ w.path[1] \notin Resources => tenant = w.path[1][1]

LEMMA RestGives ==
  ASSUME NEW w \in RestWires
  PROVE  LET d == HandleRest(w)
         IN  \/ \E m, ids, tenant : d = Give(m, ids, tenant) /\ m \in DOMAIN RpcName
                                    /\ RestGiven(w, m, tenant)
             \/ RefusedWith(d)
             \/ \E s : d = Plainly(s) /\ (s \in {404, 405} \/ w.body = "large")
<1>1. CASE HandleRest(w) \in {Plainly(404), Plainly(405)}
  BY <1>1
<1>2. CASE Unversioned(w)
  BY <1>2, Refusals, Zenon DEF Unversioned
<1>3. ASSUME HttpVersionSupported(w), NEW r \in RestRouter, RoutedTo(w, r),
             HandleRest(w) = Handled(w, r)
      PROVE  \/ \E m, ids, tenant : HandleRest(w) = Give(m, ids, tenant) /\ m \in DOMAIN RpcName
                                    /\ RestGiven(w, m, tenant)
             \/ RefusedWith(HandleRest(w))
             \/ \E s : HandleRest(w) = Plainly(s) /\ (s \in {404, 405} \/ w.body = "large")
  <2> DEFINE t == PathTenant(w, r)
             h == r.handler
  <2>1. HandleRest(w) = CallRoute(w, h, t, Param(r.path, w.path, IdSeg), Param(r.path, w.path, ConfigIdSeg))
    BY <1>3, Zenon DEF Handled, PathTenant
  <2>2. r.path \in Matching(w.path) /\ r.verb = w.verb
    BY <1>3 DEF RoutedTo
  <2>3. /\ r.path[1] = TenantSeg => t = w.path[1][1] /\ 1 \in 1 .. Len(w.path)
        /\ r.path[1] # TenantSeg => t = NoTenant /\ w.path[1] \in Resources
    BY <2>2, PathTenants
  <2>4. h \in HandlerNames
    BY HandlerIsNamed
  <2>5. h \in {"cancel", "subscribe"} => t = NoTenant
    BY <2>3, RouteKinds
  <2>6. h \in Reading => w.verb \in {"GET", "DELETE"}
    BY <2>2, RouteKinds
  <2>7. r.path[1] = TenantSeg => t # NoTenant
    <3>1. w.path \in Seq(Seq(Text))
      BY EntryAssumption
    <3>2. \A i \in 1 .. Len(w.path) : w.path[i] # <<>>
      BY <2>2, MatchingShape
    <3>3. ASSUME 1 \in 1 .. Len(w.path) PROVE w.path[1][1] \in Text
      <4>1. w.path[1] \in Seq(Text) /\ w.path[1] # <<>>
        BY <3>1, <3>2, <3>3
      <4> QED BY <4>1
    <3> QED BY <2>3, <3>3 DEF Text
  <2> HIDE DEF t, h
  <2>8. Answers(w, h, t, HandleRest(w))
    BY <2>1, <2>4, <2>5, RouteAnswers
  <2>9. CASE TooLarge(w, HandleRest(w))
    BY <2>9 DEF TooLarge
  <2>10. CASE Refuses(HandleRest(w))
    BY <2>10, Refusals
  <2>11. CASE \E m, ids, tenant : HandleRest(w) = Give(m, ids, tenant) /\ GivenTo(w, h, t, m, tenant)
    <3>1. PICK m, ids, tenant : HandleRest(w) = Give(m, ids, tenant) /\ GivenTo(w, h, t, m, tenant)
      BY <2>11
    <3>2. RestGiven(w, m, tenant)
      BY <1>3, <2>3, <2>6, <2>7, <3>1 DEF RestGiven, GivenTo
    <3> QED BY <3>1, <3>2, Zenon DEF GivenTo
  <2> QED BY <2>8, <2>9, <2>10, <2>11, Zenon DEF Answers
<1> QED BY <1>1, <1>2, <1>3, RestOutcomes, Zenon

-----------------------------------------------------------------------------
(* The door.                                                               *)

WiresOf(b) ==
  CASE b = "JSONRPC" -> JsonRpcWires
    [] b = "HTTP+JSON" -> RestWires
    [] b = "GRPC" -> GrpcWires
    [] b = "SLIMRPC" -> SlimWires

Doors == {"JSONRPC", "HTTP+JSON", "GRPC", "SLIMRPC"}

(* What the handler is called with is what dispatching gave.               *)
GivenFrom(b, w, g) ==
  \E m, ids, tenant :
    /\ Dispatching(b, w) = Give(m, ids, tenant)
    /\ g = [called |-> TRUE, method |-> m, ids |-> ids, tenant |-> tenant,
            params |-> GivenParams(b, w)]

RepliedFrom(b, w, r) ==
  \/ r \in {NoReply, Events}
  \/ \E code \in Codes \union {OtherCode, "none"} : r = ReplyTo(b, w, code)
  \/ \E s : r = [kind |-> "plain", status |-> s] /\ Dispatching(b, w) = Plainly(s)

EntryInv ==
  \/ door = "closed" /\ given = NotGiven /\ response = NoReply
  \/ /\ door \in Doors /\ wire \in WiresOf(door)
     /\ given = NotGiven \/ GivenFrom(door, wire, given)
     /\ RepliedFrom(door, wire, response)

LEMMA Outcomes ==
  ASSUME NEW b \in Doors, NEW w \in WiresOf(b)
  PROVE  LET d == Dispatching(b, w) IN Given(d) \/ RefusedWith(d) \/ Plain(d)
<1>1. CASE b = "JSONRPC"
  <2>1. w \in JsonRpcWires /\ Dispatching(b, w) = HandleJsonRpc(w)
    BY <1>1 DEF WiresOf, Dispatching
  <2> QED BY <2>1, JsonRpcOutcomes
<1>2. CASE b = "HTTP+JSON"
  <2>1. w \in RestWires /\ Dispatching(b, w) = HandleRest(w)
    BY <1>2 DEF WiresOf, Dispatching
  <2> QED BY <2>1, RestGives DEF Given, Plain
<1>3. CASE b = "GRPC"
  <2>1. w \in GrpcWires /\ Dispatching(b, w) = HandleGrpc(w)
    BY <1>3 DEF WiresOf, Dispatching
  <2> QED BY <2>1, GrpcOutcomes
<1>4. CASE b = "SLIMRPC"
  <2>1. Dispatching(b, w) = HandleSlim(w)
    BY <1>4 DEF Dispatching
  <2> QED BY <2>1, SlimOutcomes
<1> QED BY <1>1, <1>2, <1>3, <1>4 DEF Doors

LEMMA Arrival ==
  ASSUME EntryInv, door = "closed", NEW b \in Doors, NEW w \in WiresOf(b), Arrive(b, w)
  PROVE  EntryInv'
<1> DEFINE d == Dispatching(b, w)
<1>1. given = NotGiven /\ response = NoReply
  BY DEF EntryInv, Doors
<1>2. door' = b /\ wire' = w
  BY Zenon DEF Arrive
<1>3. /\ CASE d.kind = "give" ->
                /\ given' = [called |-> TRUE, method |-> d.method, ids |-> d.ids,
                             tenant |-> d.tenant, params |-> GivenParams(b, w)]
                /\ UNCHANGED response
           [] d.kind = "refuse" -> UNCHANGED given /\ response' = ReplyTo(b, w, d.error.code)
           [] d.kind = "http"   -> UNCHANGED given /\ response' = [kind |-> "plain", status |-> d.status]
  BY Zenon DEF Arrive
<1>4. (given' = NotGiven \/ GivenFrom(b, w, given')) /\ RepliedFrom(b, w, response')
  <2>1. CASE Given(d)
    <3>1. PICK m, ids, tenant : d = Give(m, ids, tenant)
      BY <2>1 DEF Given
    <3>2. d.kind = "give" /\ d.method = m /\ d.ids = ids /\ d.tenant = tenant
      BY <3>1 DEF Give
    <3>3. /\ given' = [called |-> TRUE, method |-> m, ids |-> ids, tenant |-> tenant,
                       params |-> GivenParams(b, w)]
          /\ response' = response
      BY <1>3, <3>2
    <3> HIDE DEF d
    <3>4. GivenFrom(b, w, given')
      BY <3>1, <3>3 DEF GivenFrom, d
    <3> QED BY <1>1, <3>3, <3>4 DEF RepliedFrom
  <2>2. CASE RefusedWith(d)
    <3>1. PICK e : d = Refuse(e) /\ e.code \in Codes
      BY <2>2 DEF RefusedWith
    <3>2. d.kind = "refuse" /\ d.error = e
      BY <3>1 DEF Refuse
    <3>3. given' = given /\ response' = ReplyTo(b, w, e.code)
      BY <1>3, <3>2
    <3> QED BY <1>1, <3>1, <3>3 DEF RepliedFrom
  <2>3. CASE Plain(d)
    <3>1. PICK s : d = Plainly(s)
      BY <2>3 DEF Plain
    <3>2. d.kind = "http" /\ d.status = s
      BY <3>1 DEF Plainly
    <3>3. given' = given /\ response' = [kind |-> "plain", status |-> s]
      BY <1>3, <3>2
    <3> QED BY <1>1, <3>1, <3>3 DEF RepliedFrom
  <2> QED BY <2>1, <2>2, <2>3, Outcomes
<1> QED BY <1>2, <1>4 DEF EntryInv

LEMMA EntryInvSteps ==
  ASSUME EntryInv, [EntryNext]_entryVars
  PROVE  EntryInv'
<1>1. CASE ArriveJsonRpc
  <2>1. PICK w \in JsonRpcWires : Arrive("JSONRPC", w)
    BY <1>1 DEF ArriveJsonRpc
  <2>2. "JSONRPC" \in Doors /\ w \in WiresOf("JSONRPC") /\ door = "closed"
    BY <1>1 DEF ArriveJsonRpc, Doors, WiresOf
  <2> QED BY <2>1, <2>2, Arrival
<1>2. CASE ArriveRest
  <2>1. PICK w \in RestWires : Arrive("HTTP+JSON", w)
    BY <1>2 DEF ArriveRest
  <2>2. "HTTP+JSON" \in Doors /\ w \in WiresOf("HTTP+JSON") /\ door = "closed"
    BY <1>2 DEF ArriveRest, Doors, WiresOf
  <2> QED BY <2>1, <2>2, Arrival
<1>3. CASE ArriveGrpc
  <2>1. PICK w \in GrpcWires : Arrive("GRPC", w)
    BY <1>3 DEF ArriveGrpc
  <2>2. "GRPC" \in Doors /\ w \in WiresOf("GRPC") /\ door = "closed"
    BY <1>3 DEF ArriveGrpc, Doors, WiresOf
  <2> QED BY <2>1, <2>2, Arrival
<1>4. CASE ArriveSlim
  <2>1. PICK w \in SlimWires : Arrive("SLIMRPC", w)
    BY <1>4 DEF ArriveSlim
  <2>2. "SLIMRPC" \in Doors /\ w \in WiresOf("SLIMRPC") /\ door = "closed"
    BY <1>4 DEF ArriveSlim, Doors, WiresOf
  <2> QED BY <2>1, <2>2, Arrival
<1>5. CASE HandlerAnswers
  <2>1. /\ given.called /\ response = NoReply /\ door' = door /\ wire' = wire /\ given' = given
    BY <1>5 DEF HandlerAnswers
  <2>2. response' = Events
        \/ \E code \in Codes \union {OtherCode, "none"} : response' = ReplyTo(door, wire, code)
    BY <1>5, Zenon DEF HandlerAnswers
  <2>3. RepliedFrom(door, wire, response')
    BY <2>2, Zenon DEF RepliedFrom
  <2>4. given # NotGiven
    BY <2>1 DEF NotGiven
  <2> QED BY <2>1, <2>3, <2>4 DEF EntryInv
<1>6. CASE UNCHANGED entryVars
  BY <1>6 DEF entryVars, EntryInv
<1> QED BY <1>1, <1>2, <1>3, <1>4, <1>5, <1>6 DEF EntryNext

(* What the handler is called with.                                        *)
LEMMA CalledIs ==
  ASSUME EntryInv, given.called
  PROVE  /\ door \in Doors /\ wire \in WiresOf(door)
         /\ Dispatching(door, wire) = Give(given.method, given.ids, given.tenant)
         /\ given.params = GivenParams(door, wire)
         /\ ~RefusedWith(Dispatching(door, wire)) /\ ~Plain(Dispatching(door, wire))
<1>1. given # NotGiven
  BY DEF NotGiven
<1>2. door \in Doors /\ wire \in WiresOf(door) /\ GivenFrom(door, wire, given)
  BY <1>1 DEF EntryInv
<1>3. PICK m, ids, tenant :
        /\ Dispatching(door, wire) = Give(m, ids, tenant)
        /\ given = [called |-> TRUE, method |-> m, ids |-> ids, tenant |-> tenant,
                    params |-> GivenParams(door, wire)]
  BY <1>2 DEF GivenFrom
<1>4. given.method = m /\ given.ids = ids /\ given.tenant = tenant /\ given.params = GivenParams(door, wire)
  BY <1>3
<1>5. ~RefusedWith(Give(m, ids, tenant)) /\ ~Plain(Give(m, ids, tenant))
  BY DEF Give, RefusedWith, Refuse, Plain, Plainly
<1> QED BY <1>2, <1>3, <1>4, <1>5

LEMMA GuardedByName ==
  ASSUME EntryInv, given.called, door \in {"JSONRPC", "GRPC"}
  PROVE  VersionSupported(given.params) /\ wire.body = "good"
<1>1. CASE door = "JSONRPC"
  <2>1. wire \in JsonRpcWires /\ Dispatching(door, wire) = HandleJsonRpc(wire)
        /\ given.params = AddQueryVersion(ExtractServiceParams(wire.headers), wire.queryVersion)
    BY <1>1, CalledIs DEF WiresOf, Dispatching, GivenParams
  <2>2. HttpVersionSupported(wire) /\ wire.body = "good"
    BY <2>1, CalledIs, JsonRpcOutcomes
  <2> QED BY <2>1, <2>2, Zenon DEF HttpVersionSupported
<1>2. CASE door = "GRPC"
  <2>1. wire \in GrpcWires /\ Dispatching(door, wire) = HandleGrpc(wire)
        /\ given.params = ExtractServiceParams(wire.headers)
    BY <1>2, CalledIs DEF WiresOf, Dispatching, GivenParams
  <2> QED BY <2>1, CalledIs, GrpcOutcomes
<1> QED BY <1>1, <1>2

LEMMA GuardedByRoute ==
  ASSUME EntryInv, given.called, door = "HTTP+JSON"
  PROVE  /\ wire \in RestWires
         /\ HandleRest(wire) = Give(given.method, given.ids, given.tenant)
         /\ RestGiven(wire, given.method, given.tenant)
<1>1. wire \in RestWires /\ Dispatching(door, wire) = HandleRest(wire)
  BY CalledIs DEF WiresOf, Dispatching
<1>2. HandleRest(wire) = Give(given.method, given.ids, given.tenant)
  BY <1>1, CalledIs
<1>3. PICK m, ids, tenant : HandleRest(wire) = Give(m, ids, tenant) /\ RestGiven(wire, m, tenant)
  <2>1. ~RefusedWith(HandleRest(wire)) /\ ~Plain(HandleRest(wire))
    BY <1>1, CalledIs
  <2> QED BY <1>1, <2>1, RestGives DEF Plain
<1>4. m = given.method /\ tenant = given.tenant
  BY <1>2, <1>3 DEF Give
<1> QED BY <1>1, <1>2, <1>3, <1>4

LEMMA OlderIsGuarded ==
  ASSUME EntryInv, given.called, door = "HTTP+JSON", HandleRest(Canonical(wire)).kind = "give"
  PROVE  LET d == HandleRest(Canonical(wire))
         IN  d.method = given.method /\ d.ids = given.ids /\ d.tenant = given.tenant
<1>1. wire \in RestWires /\ HandleRest(wire) = Give(given.method, given.ids, given.tenant)
  BY GuardedByRoute
<1>2. HandleRest(wire).kind = "give"
  BY <1>1 DEF Give
<1>3. HandleRest(Canonical(wire)) = HandleRest(wire)
  BY <1>1, <1>2, OlderMeans
<1> QED BY <1>1, <1>3 DEF Give

LEMMA GuardedIdentity ==
  ASSUME EntryInv, given.called, door = "SLIMRPC", NEW k \in DOMAIN given.params,
         LowerCase(k) \in ReservedIdentityKeys
  PROVE  k \in DOMAIN wire.session /\ <<wire.session[k]>> = given.params[k]
<1>1. given.params = ToServiceParams(wire.metadata, wire.session)
  BY CalledIs DEF GivenParams
<1> QED BY <1>1, IdentityIsTheSessions

(* What goes back.                                                         *)
LEMMA RepliesAre ==
  ASSUME EntryInv
  PROVE  /\ door = "JSONRPC" /\ response.kind = "rpc" =>
              response.id = IF wire.body = "good" /\ wire.id \in {"string", "number"} THEN wire.id
                            ELSE "null"
         /\ door = "HTTP+JSON" /\ response.kind = "plain" =>
              response.status \in {404, 405} \/ wire.body = "large"
         /\ response.kind = "rest" =>
              /\ response.http >= 500 <=> response.status \in {"INTERNAL", "UNIMPLEMENTED"}
              /\ response.http = 200 <=> response.code = "none"
<1>1. CASE response = NoReply \/ response = Events
  BY <1>1 DEF NoReply, Events
<1>2. ASSUME door \in Doors, wire \in WiresOf(door), NEW s,
             response = [kind |-> "plain", status |-> s], Dispatching(door, wire) = Plainly(s)
      PROVE  /\ response.kind = "plain"
             /\ door = "HTTP+JSON" => s \in {404, 405} \/ wire.body = "large"
  <2>1. ASSUME door = "HTTP+JSON" PROVE s \in {404, 405} \/ wire.body = "large"
    <3>1. wire \in RestWires /\ HandleRest(wire) = Plainly(s)
      BY <1>2, <2>1 DEF WiresOf, Dispatching
    <3>2. /\ \A m, ids, tenant : Plainly(s) # Give(m, ids, tenant)
          /\ ~RefusedWith(Plainly(s))
          /\ \A x : Plainly(s) = Plainly(x) => s = x
      BY DEF Plainly, Give, RefusedWith, Refuse
    <3> QED BY <3>1, <3>2, RestGives
  <2> QED BY <1>2, <2>1
<1>3. ASSUME door \in Doors, NEW code \in Codes \union {OtherCode, "none"},
             response = ReplyTo(door, wire, code)
      PROVE  /\ response.kind # "plain"
             /\ door = "JSONRPC" => response.id = EchoedId(wire)
             /\ response.kind = "rest" => response = RestBody(code)
  <2>1. CASE door = "JSONRPC"
    BY <1>3, <2>1 DEF ReplyTo, Envelope
  <2>2. CASE door = "HTTP+JSON"
    BY <1>3, <2>2 DEF ReplyTo, RestBody
  <2>3. CASE door \in {"GRPC", "SLIMRPC"}
    BY <1>3, <2>3 DEF ReplyTo, RpcReply
  <2> QED BY <1>3, <2>1, <2>2, <2>3 DEF Doors
<1>4. EchoedId(wire) =
        IF wire.body = "good" /\ wire.id \in {"string", "number"} THEN wire.id ELSE "null"
  BY DEF EchoedId, ValidId
<1>5. ASSUME NEW code \in Codes \union {OtherCode, "none"}
      PROVE  LET body == RestBody(code)
             IN  /\ body.http >= 500 <=> body.status \in {"INTERNAL", "UNIMPLEMENTED"}
                 /\ body.http = 200 <=> body.code = "none"
  <2>1. CASE code = "none"
    BY <2>1 DEF RestBody
  <2>2. CASE code # "none"
    <3>1. /\ RestBody(code).http = HttpStatusCode(code) /\ RestBody(code).code = code
          /\ RestBody(code).status = RestGrpcStatus(code)
      BY <2>2 DEF RestBody
    <3>2. \/ HttpStatusCode(code) \in {404, 400} /\ RestGrpcStatus(code) \in {"NOT_FOUND", "FAILED_PRECONDITION", "INVALID_ARGUMENT"}
          \/ HttpStatusCode(code) = 501 /\ RestGrpcStatus(code) = "UNIMPLEMENTED"
          \/ HttpStatusCode(code) = 500 /\ RestGrpcStatus(code) = "INTERNAL"
      BY <2>2 DEF HttpStatusCode, RestGrpcStatus, Codes, OtherCode
    <3> QED BY <2>2, <3>1, <3>2
  <2> QED BY <2>1, <2>2
<1>6. \/ response = NoReply
      \/ door \in Doors /\ wire \in WiresOf(door) /\ RepliedFrom(door, wire, response)
  BY DEF EntryInv
<1>7. CASE door \in Doors /\ \E code \in Codes \union {OtherCode, "none"} : response = ReplyTo(door, wire, code)
  <2>1. PICK code \in Codes \union {OtherCode, "none"} : response = ReplyTo(door, wire, code)
    BY <1>7
  <2> QED BY <1>3, <1>4, <1>5, <1>7, <2>1
<1>8. CASE /\ door \in Doors /\ wire \in WiresOf(door)
           /\ \E s : response = [kind |-> "plain", status |-> s] /\ Dispatching(door, wire) = Plainly(s)
  <2>1. PICK s : response = [kind |-> "plain", status |-> s] /\ Dispatching(door, wire) = Plainly(s)
    BY <1>8
  <2>2. response.kind = "plain" /\ response.status = s
    BY <2>1
  <2> QED BY <1>2, <1>8, <2>1, <2>2
<1> QED BY <1>1, <1>6, <1>7, <1>8 DEF RepliedFrom

LEMMA InvGuards == EntryInv => EntryGuarded
<1> SUFFICES ASSUME EntryInv PROVE EntryGuarded
  OBVIOUS
<1>1. given.called /\ door \in {"JSONRPC", "GRPC"} =>
        VersionSupported(given.params) /\ wire.body = "good"
  BY GuardedByName
<1>2. given.called /\ door = "HTTP+JSON" =>
        /\ HttpVersionSupported(wire)
        /\ wire.body \in {"bad", "large"} => wire.verb = "GET" \/ given.method = "SubscribeToTask"
                                              \/ wire.verb = "DELETE"
        /\ wire.body = "good" /\ wire.tenant # NoTenant
             /\ given.method \in {"SendMessage", "SendStreamingMessage", "CancelTask", "CreatePushConfig"}
             => given.tenant = wire.tenant
        /\ given.tenant # NoTenant => given.tenant \in {wire.tenant} \union {wire.path[1][1]}
        /\ wire.path[1] \notin Resources => given.tenant = wire.path[1][1]
  BY GuardedByRoute DEF RestGiven, Bodied
<1>3. given.called /\ door = "HTTP+JSON" =>
        LET d == HandleRest(Canonical(wire))
        IN  d.kind = "give" => /\ d.method = given.method /\ d.ids = given.ids
                               /\ d.tenant = given.tenant
  BY OlderIsGuarded
<1>4. given.called /\ door = "SLIMRPC" =>
        \A k \in DOMAIN given.params :
          LowerCase(k) \in ReservedIdentityKeys =>
            k \in DOMAIN wire.session /\ <<wire.session[k]>> = given.params[k]
  BY GuardedIdentity
<1>5. /\ door = "JSONRPC" /\ response.kind = "rpc" =>
           response.id = IF wire.body = "good" /\ wire.id \in {"string", "number"} THEN wire.id
                         ELSE "null"
      /\ door = "HTTP+JSON" /\ response.kind = "plain" =>
           response.status \in {404, 405} \/ wire.body = "large"
      /\ response.kind = "rest" =>
           /\ response.http >= 500 <=> response.status \in {"INTERNAL", "UNIMPLEMENTED"}
           /\ response.http = 200 <=> response.code = "none"
  BY RepliesAre
<1> QED BY <1>1, <1>2, <1>3, <1>4, <1>5, Zenon DEF EntryGuarded

(* Whatever knocks at the server, and on whichever binding: the handler is *)
(* called only for a version the server speaks and a body that was read,   *)
(* with a tenant neither path nor body contradicts, from an older path as  *)
(* from the one it stands for, and over SLIM with no identity but the      *)
(* session's; and what goes back is what the binding promises.             *)
THEOREM EntryIsGuarded == EntrySpec => []EntryGuarded
<1>1. EntryInit => EntryInv
  BY DEF EntryInit, EntryInv
<1>2. EntryInv /\ [EntryNext]_entryVars => EntryInv'
  BY EntryInvSteps
<1>3. EntryInv => EntryGuarded
  BY InvGuards
<1> QED BY <1>1, <1>2, <1>3, PTL DEF EntrySpec

=============================================================================
