---------------------------- MODULE Dispatch_proofs ----------------------------
(***************************************************************************)
(* Where the server takes a request, whatever its path, ids and tenant:    *)
(* the routes a path matches and the one it is of, what the handlers of    *)
(* the routes make of a request, and where the requests of the client go.  *)
(***************************************************************************)
EXTENDS Dispatch, FiniteSetTheorems, SequenceTheorems, WellFoundedInduction, TLAPS

(* Among numbers there is a least one: what induction over a sequence,     *)
(* its prefixes or its positions takes here.                               *)
LEMMA LeastNumber ==
  ASSUME NEW S \in SUBSET Nat, S # {}
  PROVE  \E i \in S : \A j \in S : i <= j
<1>1. IsWellFoundedOn(OpToRel(<, Nat), Nat)
  BY NatLessThanWellFounded
<1>2. PICK i \in S : \A j \in S : <<j, i>> \notin OpToRel(<, Nat)
  BY <1>1, WFMin
<1>3. ASSUME NEW j \in S, j < i PROVE <<j, i>> \in OpToRel(<, Nat)
  <2>1. <<j, i>> \in Nat \X Nat /\ <<j, i>>[1] < <<j, i>>[2]
    BY <1>3
  <2> QED BY <2>1, Zenon DEF OpToRel
<1>4. \A j \in S : ~(j < i)
  BY <1>2, <1>3, Zenon
<1> QED
  <2>1. \A j \in S : i <= j
    BY <1>4
  <2> QED BY <2>1

-----------------------------------------------------------------------------
(* Checks that pass let the request through.                               *)
LEMMA CheckFails ==
  ASSUME NEW a PROVE Check(TRUE, a) = {a} /\ Check(FALSE, a) = {}
BY DEF Check

LEMMA CheckedGives ==
  ASSUME NEW n \in Nat, NEW checks, DOMAIN checks = 1 .. n, NEW next
  PROVE  \/ Checked(checks, next) = next /\ \A i \in 1 .. n : checks[i] = {}
         \/ \E i \in 1 .. n : Checked(checks, next) \in checks[i]
<1> DEFINE failing == {i \in DOMAIN checks : checks[i] # {}}
           first == CHOOSE i \in failing : \A j \in failing : i <= j
<1>1. CASE failing = {}
  BY <1>1, Zenon DEF Checked
<1>2. CASE failing # {}
  <2>1. failing \in SUBSET Nat
    OBVIOUS
  <2>2. first \in failing
    BY <1>2, <2>1, LeastNumber, Zenon
  <2>3. Checked(checks, next) = CHOOSE answer \in checks[first] : TRUE
    BY <1>2, Zenon DEF Checked
  <2>4. Checked(checks, next) \in checks[first]
    BY <2>2, <2>3, Zenon
  <2> QED BY <2>2, <2>4, Zenon
<1> QED BY <1>1, <1>2

-----------------------------------------------------------------------------
(* The routes, one by one.                                                 *)

LEMMA JoinedOne ==
  ASSUME NEW t, NEW a PROVE <<>> \o <<a>> = <<a>> /\ <<t>> \o <<a>> = <<t, a>>
<1>1. PICK S : a \in S /\ t \in S
  <2>1. a \in {a, t} /\ t \in {a, t}
    OBVIOUS
  <2> QED BY <2>1
<1>2. <<t>> \in Seq(S) /\ <<a>> \in Seq(S) /\ <<t, a>> \in Seq(S) /\ <<>> \in Seq(S)
  BY <1>1
<1>3. <<>> \o <<a>> = <<a>>
  BY <1>1, <1>2
<1>4. Len(<<t>> \o <<a>>) = 2 /\ Len(<<t, a>>) = 2
  BY <1>2
<1>5. \A i \in 1 .. 2 : (<<t>> \o <<a>>)[i] = (<<t, a>>)[i]
  BY <1>1, <1>2
<1>6. <<t>> \o <<a>> \in Seq(S)
  BY <1>2
<1> QED BY <1>2, <1>3, <1>4, <1>5, <1>6, SeqEqual

LEMMA JoinedTwo ==
  ASSUME NEW t, NEW a, NEW b
  PROVE  <<>> \o <<a, b>> = <<a, b>> /\ <<t>> \o <<a, b>> = <<t, a, b>>
<1>1. PICK S : a \in S /\ b \in S /\ t \in S
  <2>1. a \in {a, b, t} /\ b \in {a, b, t} /\ t \in {a, b, t}
    OBVIOUS
  <2> QED BY <2>1
<1>2. <<t>> \in Seq(S) /\ <<a, b>> \in Seq(S) /\ <<t, a, b>> \in Seq(S) /\ <<>> \in Seq(S)
  BY <1>1
<1>3. <<>> \o <<a, b>> = <<a, b>>
  BY <1>1, <1>2
<1>4. Len(<<t>> \o <<a, b>>) = 3 /\ Len(<<t, a, b>>) = 3
  BY <1>2
<1>5. \A i \in 1 .. 3 : (<<t>> \o <<a, b>>)[i] = (<<t, a, b>>)[i]
  BY <1>1, <1>2
<1>6. <<t>> \o <<a, b>> \in Seq(S)
  BY <1>2
<1> QED BY <1>2, <1>3, <1>4, <1>5, <1>6, SeqEqual

LEMMA JoinedThree ==
  ASSUME NEW t, NEW a, NEW b, NEW c
  PROVE  <<>> \o <<a, b, c>> = <<a, b, c>> /\ <<t>> \o <<a, b, c>> = <<t, a, b, c>>
<1>1. PICK S : a \in S /\ b \in S /\ c \in S /\ t \in S
  <2>1. a \in {a, b, c, t} /\ b \in {a, b, c, t} /\ c \in {a, b, c, t} /\ t \in {a, b, c, t}
    OBVIOUS
  <2> QED BY <2>1
<1>2. <<t>> \in Seq(S) /\ <<a, b, c>> \in Seq(S) /\ <<t, a, b, c>> \in Seq(S) /\ <<>> \in Seq(S)
  BY <1>1
<1>3. <<>> \o <<a, b, c>> = <<a, b, c>>
  BY <1>1, <1>2
<1>4. Len(<<t>> \o <<a, b, c>>) = 4 /\ Len(<<t, a, b, c>>) = 4
  BY <1>2
<1>5. \A i \in 1 .. 4 : (<<t>> \o <<a, b, c>>)[i] = (<<t, a, b, c>>)[i]
  BY <1>1, <1>2
<1>6. <<t>> \o <<a, b, c>> \in Seq(S)
  BY <1>2
<1> QED BY <1>2, <1>3, <1>4, <1>5, <1>6, SeqEqual

LEMMA JoinedFour ==
  ASSUME NEW t, NEW a, NEW b, NEW c, NEW d
  PROVE  <<>> \o <<a, b, c, d>> = <<a, b, c, d>> /\ <<t>> \o <<a, b, c, d>> = <<t, a, b, c, d>>
<1>1. PICK S : a \in S /\ b \in S /\ c \in S /\ d \in S /\ t \in S
  <2>1. LET S == {a, b, c, d, t} IN a \in S /\ b \in S /\ c \in S /\ d \in S /\ t \in S
    OBVIOUS
  <2> QED BY <2>1
<1>2. /\ <<t>> \in Seq(S) /\ <<a, b, c, d>> \in Seq(S) /\ <<t, a, b, c, d>> \in Seq(S)
      /\ <<>> \in Seq(S)
  BY <1>1
<1>3. <<>> \o <<a, b, c, d>> = <<a, b, c, d>>
  BY <1>1, <1>2
<1>4. Len(<<t>> \o <<a, b, c, d>>) = 5 /\ Len(<<t, a, b, c, d>>) = 5
  BY <1>2
<1>5. \A i \in 1 .. 5 : (<<t>> \o <<a, b, c, d>>)[i] = (<<t, a, b, c, d>>)[i]
  BY <1>1, <1>2
<1>6. <<t>> \o <<a, b, c, d>> \in Seq(S)
  BY <1>2
<1> QED BY <1>2, <1>3, <1>4, <1>5, <1>6, SeqEqual

SendSeg == <<"message:send">>
StreamSeg == <<"message:stream">>
CardSeg == <<"extendedAgentCard">>
SubscribeSeg == <<"subscribe">>

Plain7 ==
  {<<SendSeg>>, <<StreamSeg>>, <<TasksSeg, IdSeg>>, <<TasksSeg>>, <<TasksSeg, IdSeg, ConfigsSeg>>,
   <<TasksSeg, IdSeg, ConfigsSeg, ConfigIdSeg>>, <<CardSeg>>}

Tenanted ==
  {<<TenantSeg, SendSeg>>, <<TenantSeg, StreamSeg>>, <<TenantSeg, TasksSeg, IdSeg>>,
   <<TenantSeg, TasksSeg>>, <<TenantSeg, TasksSeg, IdSeg, ConfigsSeg>>,
   <<TenantSeg, TasksSeg, IdSeg, ConfigsSeg, ConfigIdSeg>>, <<TenantSeg, CardSeg>>}

Legacy7 ==
  {<<<<"message">>, <<"send">>>>, <<<<"message">>, <<"stream">>>>,
   <<TasksSeg, IdSeg, <<"cancel">>>>, <<TasksSeg, IdSeg, SubscribeSeg>>,
   <<TasksSeg, IdSeg, OldConfigsSeg>>, <<TasksSeg, IdSeg, OldConfigsSeg, ConfigIdSeg>>,
   <<<<"agent-card">>, <<"extended">>>>}

LEMMA PlainBindings ==
  Bindings(<<>>) =
    {Route(<<SendSeg>>, "POST", "send"), Route(<<StreamSeg>>, "POST", "stream"),
     Route(<<TasksSeg, IdSeg>>, "GET", "task"), Route(<<TasksSeg, IdSeg>>, "POST", "action"),
     Route(<<TasksSeg>>, "GET", "list"),
     Route(<<TasksSeg, IdSeg, ConfigsSeg>>, "POST", "createConfig"),
     Route(<<TasksSeg, IdSeg, ConfigsSeg>>, "GET", "listConfigs"),
     Route(<<TasksSeg, IdSeg, ConfigsSeg, ConfigIdSeg>>, "GET", "getConfig"),
     Route(<<TasksSeg, IdSeg, ConfigsSeg, ConfigIdSeg>>, "DELETE", "deleteConfig"),
     Route(<<CardSeg>>, "GET", "card")}
BY JoinedOne, JoinedTwo, JoinedThree, JoinedFour DEF Bindings, SendSeg, StreamSeg, CardSeg

LEMMA TenantBindings ==
  Bindings(<<TenantSeg>>) =
    {Route(<<TenantSeg, SendSeg>>, "POST", "send"), Route(<<TenantSeg, StreamSeg>>, "POST", "stream"),
     Route(<<TenantSeg, TasksSeg, IdSeg>>, "GET", "task"),
     Route(<<TenantSeg, TasksSeg, IdSeg>>, "POST", "action"),
     Route(<<TenantSeg, TasksSeg>>, "GET", "list"),
     Route(<<TenantSeg, TasksSeg, IdSeg, ConfigsSeg>>, "POST", "createConfig"),
     Route(<<TenantSeg, TasksSeg, IdSeg, ConfigsSeg>>, "GET", "listConfigs"),
     Route(<<TenantSeg, TasksSeg, IdSeg, ConfigsSeg, ConfigIdSeg>>, "GET", "getConfig"),
     Route(<<TenantSeg, TasksSeg, IdSeg, ConfigsSeg, ConfigIdSeg>>, "DELETE", "deleteConfig"),
     Route(<<TenantSeg, CardSeg>>, "GET", "card")}
<1> DEFINE t == TenantSeg
<1>1. <<t>> \o <<SendSeg>> = <<t, SendSeg>> /\ <<t>> \o <<StreamSeg>> = <<t, StreamSeg>>
      /\ <<t>> \o <<TasksSeg>> = <<t, TasksSeg>> /\ <<t>> \o <<CardSeg>> = <<t, CardSeg>>
  BY JoinedOne
<1>2. <<t>> \o <<TasksSeg, IdSeg>> = <<t, TasksSeg, IdSeg>>
  BY JoinedTwo
<1>3. <<t>> \o <<TasksSeg, IdSeg, ConfigsSeg>> = <<t, TasksSeg, IdSeg, ConfigsSeg>>
  BY JoinedThree
<1>4. <<t>> \o <<TasksSeg, IdSeg, ConfigsSeg, ConfigIdSeg>> =
        <<t, TasksSeg, IdSeg, ConfigsSeg, ConfigIdSeg>>
  BY JoinedFour
<1>5. Bindings(<<t>>) =
    {Route(<<t>> \o <<SendSeg>>, "POST", "send"), Route(<<t>> \o <<StreamSeg>>, "POST", "stream"),
     Route(<<t>> \o <<TasksSeg, IdSeg>>, "GET", "task"),
     Route(<<t>> \o <<TasksSeg, IdSeg>>, "POST", "action"),
     Route(<<t>> \o <<TasksSeg>>, "GET", "list"),
     Route(<<t>> \o <<TasksSeg, IdSeg, ConfigsSeg>>, "POST", "createConfig"),
     Route(<<t>> \o <<TasksSeg, IdSeg, ConfigsSeg>>, "GET", "listConfigs"),
     Route(<<t>> \o <<TasksSeg, IdSeg, ConfigsSeg, ConfigIdSeg>>, "GET", "getConfig"),
     Route(<<t>> \o <<TasksSeg, IdSeg, ConfigsSeg, ConfigIdSeg>>, "DELETE", "deleteConfig"),
     Route(<<t>> \o <<CardSeg>>, "GET", "card")}
  BY Zenon DEF Bindings, SendSeg, StreamSeg, CardSeg
<1> HIDE DEF t
<1>6. Bindings(<<t>>) =
    {Route(<<t, SendSeg>>, "POST", "send"), Route(<<t, StreamSeg>>, "POST", "stream"),
     Route(<<t, TasksSeg, IdSeg>>, "GET", "task"), Route(<<t, TasksSeg, IdSeg>>, "POST", "action"),
     Route(<<t, TasksSeg>>, "GET", "list"),
     Route(<<t, TasksSeg, IdSeg, ConfigsSeg>>, "POST", "createConfig"),
     Route(<<t, TasksSeg, IdSeg, ConfigsSeg>>, "GET", "listConfigs"),
     Route(<<t, TasksSeg, IdSeg, ConfigsSeg, ConfigIdSeg>>, "GET", "getConfig"),
     Route(<<t, TasksSeg, IdSeg, ConfigsSeg, ConfigIdSeg>>, "DELETE", "deleteConfig"),
     Route(<<t, CardSeg>>, "GET", "card")}
  BY <1>1, <1>2, <1>3, <1>4, <1>5
<1> QED BY <1>6 DEF t

LEMMA PathsOfRoutes == \A r \in RestRouter : r.path \in Plain7 \union Legacy7 \union Tenanted
<1>1. \A p, v, h : Route(p, v, h).path = p
  BY DEF Route
<1> SUFFICES ASSUME NEW r \in RestRouter PROVE r.path \in Plain7 \union Legacy7 \union Tenanted
  OBVIOUS
<1>2. CASE r \in Bindings(<<>>)
  BY <1>1, <1>2, PlainBindings DEF Plain7
<1>3. CASE r \in Bindings(<<TenantSeg>>)
  BY <1>1, <1>3, TenantBindings DEF Tenanted
<1>4. CASE r \in LegacyBindings
  BY <1>1, <1>4 DEF LegacyBindings, Legacy7, SubscribeSeg
<1> QED BY <1>2, <1>3, <1>4 DEF RestRouter

LEMMA Parameters ==
  /\ IsParam(TenantSeg) /\ IsParam(IdSeg) /\ IsParam(ConfigIdSeg)
  /\ TenantSeg # IdSeg /\ TenantSeg # ConfigIdSeg
  /\ \A x : x \notin {"{tenant}", "{id}", "{config_id}"} => ~IsParam(<<x>>) /\ <<x>> # TenantSeg
BY DEF IsParam, TenantSeg, IdSeg, ConfigIdSeg

Literal ==
  {SendSeg, StreamSeg, CardSeg, SubscribeSeg, TasksSeg, ConfigsSeg, OldConfigsSeg,
   <<"message">>, <<"send">>, <<"stream">>, <<"cancel">>, <<"agent-card">>, <<"extended">>}

LEMMA LiteralsAreFixed == \A x \in Literal : ~IsParam(x) /\ x # TenantSeg /\ x # <<>>
<1>1. \A x : <<x>> # <<>>
  OBVIOUS
<1> DEFINE Fixed(x) == ~IsParam(x) /\ x # TenantSeg /\ x # <<>>
<1>2. \A y : y \notin {"{tenant}", "{id}", "{config_id}"} => Fixed(<<y>>)
  BY <1>1, Parameters, Zenon
<1> HIDE DEF Fixed
<1>3. Fixed(SendSeg) /\ Fixed(StreamSeg) /\ Fixed(CardSeg) /\ Fixed(SubscribeSeg)
      /\ Fixed(TasksSeg) /\ Fixed(ConfigsSeg) /\ Fixed(OldConfigsSeg)
  BY <1>2 DEF SendSeg, StreamSeg, CardSeg, SubscribeSeg, TasksSeg, ConfigsSeg, OldConfigsSeg
<1>4. Fixed(<<"message">>) /\ Fixed(<<"send">>) /\ Fixed(<<"stream">>) /\ Fixed(<<"cancel">>)
      /\ Fixed(<<"agent-card">>) /\ Fixed(<<"extended">>)
  BY <1>2
<1>5. \A x \in Literal : Fixed(x)
  BY <1>3, <1>4, Zenon DEF Literal
<1> QED BY <1>5 DEF Fixed

(* What a segment of a route asks of the segment of a path.                *)
At(s, x) == IF IsParam(s) THEN x # <<>> ELSE s = x

LEMMA AtEach ==
  /\ \A s \in Literal : \A x : At(s, x) <=> x = s
  /\ \A s \in {TenantSeg, IdSeg, ConfigIdSeg} : \A x : At(s, x) <=> x # <<>>
BY LiteralsAreFixed, Parameters DEF At

LEMMA FitsEach ==
  ASSUME NEW p
  PROVE  /\ \A a : Fits(<<a>>, p) <=> Len(p) = 1 /\ At(a, p[1])
         /\ \A a, b : Fits(<<a, b>>, p) <=> Len(p) = 2 /\ At(a, p[1]) /\ At(b, p[2])
         /\ \A a, b, c : Fits(<<a, b, c>>, p)
              <=> Len(p) = 3 /\ At(a, p[1]) /\ At(b, p[2]) /\ At(c, p[3])
         /\ \A a, b, c, d : Fits(<<a, b, c, d>>, p)
              <=> Len(p) = 4 /\ At(a, p[1]) /\ At(b, p[2]) /\ At(c, p[3]) /\ At(d, p[4])
         /\ \A a, b, c, d, e : Fits(<<a, b, c, d, e>>, p)
              <=> /\ Len(p) = 5 /\ At(a, p[1]) /\ At(b, p[2]) /\ At(c, p[3]) /\ At(d, p[4])
                  /\ At(e, p[5])
BY DEF Fits, At

(* The one route a path may match that starts with a literal segment, and  *)
(* the one that starts with a tenant.                                      *)
LiteralRoute(p) ==
  CASE Len(p) = 1 -> <<p[1]>>
    [] Len(p) = 2 -> IF p[1] = TasksSeg THEN <<TasksSeg, IdSeg>> ELSE <<p[1], p[2]>>
    [] Len(p) = 3 -> <<TasksSeg, IdSeg, p[3]>>
    [] OTHER      -> <<TasksSeg, IdSeg, p[3], ConfigIdSeg>>

TenantRoute(p) ==
  CASE Len(p) = 2 -> <<TenantSeg, p[2]>>
    [] Len(p) = 3 -> <<TenantSeg, TasksSeg, IdSeg>>
    [] Len(p) = 4 -> <<TenantSeg, TasksSeg, IdSeg, ConfigsSeg>>
    [] OTHER      -> <<TenantSeg, TasksSeg, IdSeg, ConfigsSeg, ConfigIdSeg>>

LEMMA LiteralRoutes ==
  ASSUME NEW p, NEW t \in Plain7 \union Legacy7, Fits(t, p)
  PROVE  t = LiteralRoute(p) /\ t[1] = p[1] /\ t[1] \in Literal /\ \A i \in 1 .. Len(p) : p[i] # <<>>
<1> DEFINE Right == t = LiteralRoute(p) /\ t[1] = p[1] /\ t[1] \in Literal
                      /\ \A i \in 1 .. Len(p) : p[i] # <<>>
<1>0. {SendSeg, StreamSeg, CardSeg, SubscribeSeg, TasksSeg, ConfigsSeg, OldConfigsSeg,
       <<"message">>, <<"send">>, <<"stream">>, <<"cancel">>, <<"agent-card">>, <<"extended">>}
        \subseteq Literal
  BY DEF Literal
<1>a. ASSUME NEW a \in Literal, t = <<a>> PROVE Right
  BY <1>a, FitsEach, AtEach, LiteralsAreFixed DEF LiteralRoute
<1>b. ASSUME NEW a \in Literal, NEW b \in Literal, a # TasksSeg, t = <<a, b>> PROVE Right
  BY <1>b, FitsEach, AtEach, LiteralsAreFixed DEF LiteralRoute
<1>c. ASSUME t = <<TasksSeg, IdSeg>> PROVE Right
  BY <1>0, <1>c, FitsEach, AtEach, LiteralsAreFixed DEF LiteralRoute
<1>d. ASSUME NEW a \in Literal, t = <<TasksSeg, IdSeg, a>> PROVE Right
  BY <1>0, <1>d, FitsEach, AtEach, LiteralsAreFixed DEF LiteralRoute
<1>e. ASSUME NEW a \in Literal, t = <<TasksSeg, IdSeg, a, ConfigIdSeg>> PROVE Right
  <2>1. Len(p) = 4 /\ p[1] = TasksSeg /\ p[2] # <<>> /\ p[3] = a /\ p[4] # <<>>
    BY <1>0, <1>e, FitsEach, AtEach
  <2>2. t = LiteralRoute(p) /\ t[1] = TasksSeg
    BY <1>e, <2>1 DEF LiteralRoute
  <2>3. \A i \in 1 .. 4 : i = 1 \/ i = 2 \/ i = 3 \/ i = 4
    OBVIOUS
  <2>4. \A i \in 1 .. Len(p) : p[i] # <<>>
    BY <1>0, <2>1, <2>3, LiteralsAreFixed
  <2> QED BY <1>0, <2>1, <2>2, <2>4
<1>1. TasksSeg \notin {<<"message">>, <<"agent-card">>}
  BY DEF TasksSeg
<1> HIDE DEF Right
<1>2. ASSUME t \in Plain7 PROVE Right
  BY <1>0, <1>a, <1>c, <1>d, <1>e, <1>2, Zenon DEF Plain7
<1>3. ASSUME t \in Legacy7 PROVE Right
  BY <1>0, <1>1, <1>b, <1>d, <1>e, <1>3, Zenon DEF Legacy7
<1> QED BY <1>2, <1>3 DEF Right

LEMMA TenantRoutes ==
  ASSUME NEW p, NEW t \in Tenanted, Fits(t, p)
  PROVE  t = TenantRoute(p) /\ t[1] = TenantSeg /\ \A i \in 1 .. Len(p) : p[i] # <<>>
<1> DEFINE Right == t = TenantRoute(p) /\ t[1] = TenantSeg /\ \A i \in 1 .. Len(p) : p[i] # <<>>
<1>0. {SendSeg, StreamSeg, CardSeg, TasksSeg, ConfigsSeg} \subseteq Literal
  BY DEF Literal
<1>a. ASSUME NEW a \in Literal, t = <<TenantSeg, a>> PROVE Right
  BY <1>a, FitsEach, AtEach, LiteralsAreFixed DEF TenantRoute
<1>b. ASSUME t = <<TenantSeg, TasksSeg, IdSeg>> PROVE Right
  BY <1>0, <1>b, FitsEach, AtEach, LiteralsAreFixed DEF TenantRoute
<1>c. ASSUME t = <<TenantSeg, TasksSeg, IdSeg, ConfigsSeg>> PROVE Right
  <2>1. Len(p) = 4 /\ p[1] # <<>> /\ p[2] = TasksSeg /\ p[3] # <<>> /\ p[4] = ConfigsSeg
    BY <1>0, <1>c, FitsEach, AtEach
  <2>2. t = TenantRoute(p) /\ t[1] = TenantSeg
    BY <1>c, <2>1 DEF TenantRoute
  <2>3. \A i \in 1 .. 4 : i = 1 \/ i = 2 \/ i = 3 \/ i = 4
    OBVIOUS
  <2>4. \A i \in 1 .. Len(p) : p[i] # <<>>
    BY <1>0, <2>1, <2>3, LiteralsAreFixed
  <2> QED BY <2>2, <2>4
<1>d. ASSUME t = <<TenantSeg, TasksSeg, IdSeg, ConfigsSeg, ConfigIdSeg>> PROVE Right
  <2>1. /\ Len(p) = 5 /\ p[1] # <<>> /\ p[2] = TasksSeg /\ p[3] # <<>> /\ p[4] = ConfigsSeg
        /\ p[5] # <<>>
    BY <1>0, <1>d, FitsEach, AtEach
  <2>2. t = TenantRoute(p) /\ t[1] = TenantSeg
    BY <1>d, <2>1 DEF TenantRoute
  <2>3. \A i \in 1 .. 5 : i = 1 \/ i = 2 \/ i = 3 \/ i = 4 \/ i = 5
    OBVIOUS
  <2>4. \A i \in 1 .. Len(p) : p[i] # <<>>
    BY <1>0, <2>1, <2>3, LiteralsAreFixed
  <2> QED BY <2>2, <2>4
<1> HIDE DEF Right
<1>1. Right
  BY <1>0, <1>a, <1>b, <1>c, <1>d DEF Tenanted
<1> QED BY <1>1 DEF Right

Segments == Literal \union {TenantSeg, IdSeg, ConfigIdSeg}

LEMMA RouteShapes ==
  \A t \in Plain7 \union Legacy7 \union Tenanted : t \in Seq(Segments) /\ Len(t) > 0
<1> DEFINE T == Segments
           Good(t) == t \in Seq(T) /\ Len(t) > 0
<1>1. \A x \in Literal \union {TenantSeg, IdSeg, ConfigIdSeg} : x \in T
  BY DEF Segments
<1> HIDE DEF T
<1>2. \A a \in T : Good(<<a>>)
  OBVIOUS
<1>3. \A a, b \in T : Good(<<a, b>>)
  OBVIOUS
<1>4. \A a, b, c \in T : Good(<<a, b, c>>)
  OBVIOUS
<1>5. \A a, b, c, d \in T : Good(<<a, b, c, d>>)
  OBVIOUS
<1>6. \A a, b, c, d, e \in T : Good(<<a, b, c, d, e>>)
  OBVIOUS
<1> HIDE DEF Good
<1>7. TenantSeg \in T /\ IdSeg \in T /\ ConfigIdSeg \in T /\ \A x \in Literal : x \in T
  BY <1>1
<1>8. \A t \in Plain7 : Good(t)
  BY <1>2, <1>3, <1>4, <1>5, <1>7 DEF Plain7, Literal
<1>9. \A t \in Legacy7 : Good(t)
  BY <1>3, <1>4, <1>5, <1>7 DEF Legacy7, Literal
<1>10. \A t \in Tenanted : Good(t)
  <2>1. SendSeg \in T /\ StreamSeg \in T /\ TasksSeg \in T /\ ConfigsSeg \in T /\ CardSeg \in T
    BY <1>7 DEF Literal
  <2>2. Good(<<TenantSeg, SendSeg>>) /\ Good(<<TenantSeg, StreamSeg>>)
        /\ Good(<<TenantSeg, TasksSeg, IdSeg>>) /\ Good(<<TenantSeg, TasksSeg>>)
        /\ Good(<<TenantSeg, CardSeg>>)
    BY <1>3, <1>4, <1>7, <2>1, Zenon
  <2>3. Good(<<TenantSeg, TasksSeg, IdSeg, ConfigsSeg>>)
    BY <1>5, <1>7, <2>1, Zenon
  <2>4. Good(<<TenantSeg, TasksSeg, IdSeg, ConfigsSeg, ConfigIdSeg>>)
    BY <1>6, <1>7, <2>1, Zenon
  <2> QED BY <2>2, <2>3, <2>4, Zenon DEF Tenanted
<1> QED BY <1>8, <1>9, <1>10 DEF Good, T

LEMMA PreferredAtFirst ==
  ASSUME NEW t \in Seq(Segments), NEW u \in Seq(Segments), Len(t) > 0, Len(u) = Len(t),
         t[1] # u[1]
  PROVE  Preferred(t, u) <=> ~IsParam(t[1])
<1> DEFINE Differ(i) == t[i] # u[i] /\ SubSeq(t, 1, i - 1) = SubSeq(u, 1, i - 1)
           first == CHOOSE i \in DOMAIN t : Differ(i)
<1>1. 1 \in DOMAIN t /\ Differ(1)
  BY SubSeqProperties
<1>2. ASSUME NEW i \in DOMAIN t, i # 1 PROVE ~Differ(i)
  <2>1. i \in 1 .. Len(t) /\ i - 1 \in 1 .. Len(t)
    BY <1>2
  <2>2. SubSeq(t, 1, i - 1)[1] = t[1] /\ SubSeq(u, 1, i - 1)[1] = u[1]
    BY <2>1
  <2> QED BY <2>2
<1> HIDE DEF Differ
<1>3. first = 1
  BY <1>1, <1>2, Zenon
<1> QED BY <1>3, Zenon DEF Preferred, Differ

LEMMA MatchingShape ==
  ASSUME NEW p, NEW t \in Matching(p)
  PROVE  /\ Fits(t, p) /\ Len(t) = Len(p) /\ t \in Seq(Segments) /\ Len(t) > 0
         /\ \A i \in 1 .. Len(p) : p[i] # <<>>
         /\ \/ t = LiteralRoute(p) /\ t[1] = p[1] /\ t[1] \in Literal
            \/ t = TenantRoute(p) /\ t[1] = TenantSeg
<1>1. t \in Plain7 \union Legacy7 \union Tenanted
  BY PathsOfRoutes DEF Matching
<1>2. Fits(t, p)
  BY DEF Matching
<1>3. Len(t) = Len(p)
  BY <1>2 DEF Fits
<1>4. t \in Seq(Segments) /\ Len(t) > 0
  BY <1>1, RouteShapes
<1>5. CASE t \in Plain7 \union Legacy7
  BY <1>2, <1>3, <1>4, <1>5, LiteralRoutes
<1>6. CASE t \in Tenanted
  BY <1>2, <1>3, <1>4, <1>6, TenantRoutes
<1> QED BY <1>1, <1>5, <1>6

(* A path is of the route with a literal segment first, or else of the one *)
(* under a tenant.                                                         *)
LEMMA RouteIs ==
  ASSUME NEW p, NEW t \in Matching(p),
         t[1] = TenantSeg => \A u \in Matching(p) : u[1] = TenantSeg
  PROVE  RouteOf(p) = t
<1> DEFINE Best(x) == \A u \in Matching(p) \ {x} : Preferred(x, u)
<1>1. ASSUME NEW u \in Matching(p) \ {t}
      PROVE  Preferred(t, u) /\ ~Preferred(u, t)
  <2>1. t[1] \in Literal /\ u[1] = TenantSeg
    BY <1>1, MatchingShape, LiteralsAreFixed
  <2>2. ~IsParam(t[1]) /\ IsParam(u[1]) /\ t[1] # u[1]
    BY <2>1, LiteralsAreFixed, Parameters
  <2>3. /\ t \in Seq(Segments) /\ u \in Seq(Segments) /\ Len(t) > 0 /\ Len(u) > 0
        /\ Len(t) = Len(u)
    BY <1>1, MatchingShape
  <2> QED BY <2>2, <2>3, PreferredAtFirst
<1> HIDE DEF Best
<1>2. Best(t)
  BY <1>1 DEF Best
<1>3. \A x \in Matching(p) : Best(x) => x = t
  BY <1>1 DEF Best
<1>4. RouteOf(p) = CHOOSE x \in Matching(p) : Best(x)
  BY DEF RouteOf, Best
<1> QED BY <1>2, <1>3, <1>4

(* What a request that matches a route is answered: by its handler, if the *)
(* version is supported.                                                   *)
Handled(w, r) ==
  CallRoute(w, r.handler,
            IF Param(r.path, w.path, TenantSeg) = <<>> THEN NoTenant
            ELSE Param(r.path, w.path, TenantSeg)[1][1],
            Param(r.path, w.path, IdSeg), Param(r.path, w.path, ConfigIdSeg))

OnlyHandler(r) == \A s \in RestRouter : s.path = r.path /\ s.verb = r.verb => s.handler = r.handler

LEMMA HandlersAre ==
  ASSUME NEW r \in RestRouter, OnlyHandler(r)
  PROVE  Handlers(r.path, r.verb) = {r.handler}
BY Zenon DEF Handlers, OnlyHandler

LEMMA RestAnswers ==
  ASSUME NEW w, NEW r \in RestRouter, OnlyHandler(r), w.verb = r.verb, Fits(r.path, w.path),
         r.path[1] = TenantSeg => \A u \in Matching(w.path) : u[1] = TenantSeg
  PROVE  \/ HandleRest(w) = Refuse(UnsupportedVersion) /\ ~HttpVersionSupported(w)
         \/ HandleRest(w) = Handled(w, r) /\ HttpVersionSupported(w)
<1> DEFINE route == RouteOf(w.path)
           t == Param(route, w.path, TenantSeg)
           next == CallRoute(w, CHOOSE h \in Handlers(route, w.verb) : TRUE,
                             IF t = <<>> THEN NoTenant ELSE t[1][1],
                             Param(route, w.path, IdSeg), Param(route, w.path, ConfigIdSeg))
           one == Check(~HttpVersionSupported(w), Refuse(UnsupportedVersion))
           two == Check(Handlers(route, w.verb) = {}, Plainly(405))
<1>1. r.path \in Matching(w.path)
  BY DEF Matching
<1>2. route = r.path
  BY <1>1, RouteIs
<1>3. Handlers(route, w.verb) = {r.handler}
  BY <1>2, HandlersAre
<1>4. next = Handled(w, r)
  <2>1. (CHOOSE h \in Handlers(route, w.verb) : TRUE) = r.handler
    BY <1>3
  <2> QED BY <1>2, <2>1, Zenon DEF Handled
<1>5. HandleRest(w) = Checked(<<one, two>>, next)
  BY <1>1, Zenon DEF HandleRest
<1>6. two = {}
  BY <1>3 DEF Check
<1>7. one = IF HttpVersionSupported(w) THEN {} ELSE {Refuse(UnsupportedVersion)}
  BY Zenon DEF Check
<1> HIDE DEF one, two, next
<1>8. \/ Checked(<<one, two>>, next) = next /\ one = {} /\ two = {}
      \/ Checked(<<one, two>>, next) \in one
      \/ Checked(<<one, two>>, next) \in two
  <2>1. DOMAIN <<one, two>> = 1 .. 2 /\ <<one, two>>[1] = one /\ <<one, two>>[2] = two
    OBVIOUS
  <2>2. \A i \in 1 .. 2 : i = 1 \/ i = 2
    OBVIOUS
  <2>3. 2 \in Nat /\ 1 \in 1 .. 2 /\ 2 \in 1 .. 2
    OBVIOUS
  <2>4. \/ /\ Checked(<<one, two>>, next) = next
           /\ \A i \in 1 .. 2 : <<one, two>>[i] = {}
        \/ \E i \in 1 .. 2 : Checked(<<one, two>>, next) \in <<one, two>>[i]
    BY <2>1, <2>3, CheckedGives
  <2> QED BY <2>1, <2>2, <2>3, <2>4
<1> QED BY <1>4, <1>5, <1>6, <1>7, <1>8

-----------------------------------------------------------------------------
(* What the handlers of the routes make of a request.                      *)

LEMMA CheckedPasses ==
  ASSUME NEW next
  PROVE  Checked(<<{}>>, next) = next /\ Checked(<<{}, {}>>, next) = next
<1>1. DOMAIN <<{}>> = 1 .. 1 /\ \A i \in 1 .. 1 : <<{}>>[i] = {}
  OBVIOUS
<1>2. DOMAIN <<{}, {}>> = 1 .. 2 /\ \A i \in 1 .. 2 : <<{}, {}>>[i] = {}
  OBVIOUS
<1>3. 1 \in Nat /\ 2 \in Nat
  OBVIOUS
<1>4. Checked(<<{}>>, next) = next
  BY <1>1, <1>3, CheckedGives, Zenon
<1>5. Checked(<<{}, {}>>, next) = next
  BY <1>2, <1>3, CheckedGives, Zenon
<1> QED BY <1>4, <1>5

LEMMA Reconciles ==
  ASSUME NEW w, NEW method, NEW ids, NEW t, w.tenant = t
  PROVE  GiveReconciled(w, method, ids, t) = Give(method, ids, t)
<1>1. ReconcileTenant(t, w.tenant) = <<t>>
  BY DEF ReconcileTenant
<1>2. <<t>> # <<>> /\ <<t>>[1] = t
  OBVIOUS
<1> QED BY <1>1, <1>2, Zenon DEF GiveReconciled

LEMMA GoodBody ==
  ASSUME NEW w, w.body = "good", NEW next
  PROVE  JsonBody(w, next) = next
<1>1. Check(w.body = "large", Plainly(413)) = {} /\ Check(w.body # "good", InvalidBody) = {}
  BY DEF Check
<1> QED BY <1>1, CheckedPasses, Zenon DEF JsonBody

LEMMA HandlesSend ==
  ASSUME NEW w, NEW t, w.body = "good", w.tenant = t, NEW id, NEW config
  PROVE  /\ CallRoute(w, "send", t, id, config) = Give("SendMessage", <<>>, t)
         /\ CallRoute(w, "stream", t, id, config) = Give("SendStreamingMessage", <<>>, t)
<1>1. CallRoute(w, "send", t, id, config) = SendTo(w, "SendMessage", t)
      /\ CallRoute(w, "stream", t, id, config) = SendTo(w, "SendStreamingMessage", t)
  BY DEF CallRoute
<1>2. \A next : JsonBody(w, next) = next
  BY GoodBody, Zenon
<1>3. \A method, ids : GiveReconciled(w, method, ids, t) = Give(method, ids, t)
  BY Reconciles, Zenon
<1> QED BY <1>1, <1>2, <1>3 DEF SendTo

LEMMA HandlesCreate ==
  ASSUME NEW w, NEW t, w.body = "good", w.tenant = t, NEW id, w.task = id[1], NEW config
  PROVE  CallRoute(w, "createConfig", t, id, config) = Give("CreatePushConfig", <<id[1]>>, t)
<1>1. CallRoute(w, "createConfig", t, id, config) = CreateConfig(w, id[1], t)
  BY DEF CallRoute
<1>2. \A next : JsonBody(w, next) = next
  BY GoodBody, Zenon
<1>3. \A method, ids : GiveReconciled(w, method, ids, t) = Give(method, ids, t)
  BY Reconciles, Zenon
<1> QED BY <1>1, <1>2, <1>3 DEF CreateConfig, ParseCreatePushConfigRequest

LEMMA HandlesCancel ==
  ASSUME NEW w, NEW t, w.body = "good", w.tenant = t, NEW id, StripSuffix(id[1], ":cancel"), NEW config
  PROVE  CallRoute(w, "action", t, id, config) = Give("CancelTask", <<Front(id[1])>>, t)
<1>1. CallRoute(w, "action", t, id, config) = PostTaskAction(w, id[1], t)
  BY DEF CallRoute
<1>2. PostTaskAction(w, id[1], t) = CancelTaskInner(w, Front(id[1]), t)
  <2>1. \A x : StripSuffix(x, ":cancel") => ~StripSuffix(x, ":subscribe")
    BY DEF StripSuffix
  <2> QED BY <2>1 DEF PostTaskAction
<1>3. Check(w.body = "large", Plainly(413)) = {} /\ Check(w.body = "bad", InvalidBody) = {}
  BY DEF Check
<1>4. CancelTaskInner(w, Front(id[1]), t) =
        Checked(<<{}, {}>>, GiveReconciled(w, "CancelTask", <<Front(id[1])>>, t))
  BY <1>3, Zenon DEF CancelTaskInner
<1>5. GiveReconciled(w, "CancelTask", <<Front(id[1])>>, t) = Give("CancelTask", <<Front(id[1])>>, t)
  BY Reconciles, Zenon
<1> QED BY <1>1, <1>2, <1>4, <1>5, CheckedPasses, Zenon

LEMMA HandlesQuery ==
  ASSUME NEW w, w.query = "ok", NEW t, NEW id, NEW config
  PROVE  /\ CallRoute(w, "listConfigs", t, id, config) = Give("ListPushConfigs", id, t)
         /\ StripSuffix(id[1], ":subscribe") =>
              CallRoute(w, "task", t, id, config) = Give("SubscribeToTask", <<Front(id[1])>>, t)
         /\ ~StripSuffix(id[1], ":subscribe") =>
              CallRoute(w, "task", t, id, config) = Give("GetTask", <<id[1]>>, t)
BY DEF CallRoute, QueryOk, GetTaskOrSubscribe

LEMMA HandlesList ==
  ASSUME NEW w, w.query = "ok", NEW t, NEW id, NEW config
  PROVE  CallRoute(w, "list", t, id, config) = Give("ListTasks", <<>>, t)
BY DEF CallRoute, QueryOk

LEMMA HandlesCard ==
  ASSUME NEW w, NEW t, NEW id, NEW config
  PROVE  /\ CallRoute(w, "card", t, id, config) = Give("GetExtendedAgentCard", <<>>, t)
         /\ CallRoute(w, "subscribe", t, id, config) = Give("SubscribeToTask", id, NoTenant)
BY DEF CallRoute

LEMMA HandlesConfig ==
  ASSUME NEW w, NEW t, NEW x, NEW y
  PROVE  /\ CallRoute(w, "getConfig", t, <<x>>, <<y>>) = Give("GetPushConfig", <<x, y>>, t)
         /\ CallRoute(w, "deleteConfig", t, <<x>>, <<y>>) = Give("DeletePushConfig", <<x, y>>, t)
<1>1. \A id, config :
        /\ CallRoute(w, "getConfig", t, id, config) = Give("GetPushConfig", id \o config, t)
        /\ CallRoute(w, "deleteConfig", t, id, config) = Give("DeletePushConfig", id \o config, t)
  BY DEF CallRoute
<1>2. <<x>> \o <<y>> = <<x, y>>
  BY JoinedOne
<1> QED BY <1>1, <1>2

LEMMA ParamAt ==
  ASSUME NEW t, NEW p, NEW s, NEW i \in DOMAIN t, t[i] = s, \A j \in DOMAIN t : t[j] = s => j = i
  PROVE  Param(t, p, s) = <<p[i]>>
<1>1. {j \in DOMAIN t : t[j] = s} = {i}
  OBVIOUS
<1> QED BY <1>1 DEF Param

LEMMA ParamMissing ==
  ASSUME NEW t, NEW p, NEW s, \A j \in DOMAIN t : t[j] # s
  PROVE  Param(t, p, s) = <<>>
BY DEF Param

-----------------------------------------------------------------------------
(* A path and a verb have one handler.                                     *)

(* What is served at a path that ends with a segment.                      *)
HandlerAt(last, verb) ==
  CASE last \in {SendSeg, <<"send">>}          -> "send"
    [] last \in {StreamSeg, <<"stream">>}      -> "stream"
    [] last \in {CardSeg, <<"extended">>}      -> "card"
    [] last = TasksSeg                         -> "list"
    [] last = IdSeg                            -> IF verb = "GET" THEN "task" ELSE "action"
    [] last = <<"cancel">>                     -> "cancel"
    [] last = SubscribeSeg                     -> "subscribe"
    [] last \in {ConfigsSeg, OldConfigsSeg}    -> IF verb = "POST" THEN "createConfig" ELSE "listConfigs"
    [] last = ConfigIdSeg                      -> IF verb = "GET" THEN "getConfig" ELSE "deleteConfig"

EndOf(path) == path[Len(path)]

LEMMA Ends ==
  /\ \A a : EndOf(<<a>>) = a
  /\ \A a, b : EndOf(<<a, b>>) = b
  /\ \A a, b, c : EndOf(<<a, b, c>>) = c
  /\ \A a, b, c, d : EndOf(<<a, b, c, d>>) = d
  /\ \A a, b, c, d, e : EndOf(<<a, b, c, d, e>>) = e
BY DEF EndOf

LEMMA HandlersAt ==
  \A verb :
    /\ HandlerAt(SendSeg, verb) = "send" /\ HandlerAt(<<"send">>, verb) = "send"
    /\ HandlerAt(StreamSeg, verb) = "stream" /\ HandlerAt(<<"stream">>, verb) = "stream"
    /\ HandlerAt(CardSeg, verb) = "card" /\ HandlerAt(<<"extended">>, verb) = "card"
    /\ HandlerAt(TasksSeg, verb) = "list"
    /\ HandlerAt(IdSeg, verb) = IF verb = "GET" THEN "task" ELSE "action"
    /\ HandlerAt(<<"cancel">>, verb) = "cancel" /\ HandlerAt(SubscribeSeg, verb) = "subscribe"
    /\ HandlerAt(ConfigsSeg, verb) = IF verb = "POST" THEN "createConfig" ELSE "listConfigs"
    /\ HandlerAt(OldConfigsSeg, verb) = IF verb = "POST" THEN "createConfig" ELSE "listConfigs"
    /\ HandlerAt(ConfigIdSeg, verb) = IF verb = "GET" THEN "getConfig" ELSE "deleteConfig"
BY DEF HandlerAt, SendSeg, StreamSeg, CardSeg, TasksSeg, IdSeg, SubscribeSeg, ConfigsSeg,
       OldConfigsSeg, ConfigIdSeg

LEMMA RouteParts ==
  \A p, v, h : Route(p, v, h).path = p /\ Route(p, v, h).verb = v /\ Route(p, v, h).handler = h
BY DEF Route

LEMMA HandlersOfRoutes == \A r \in RestRouter : r.handler = HandlerAt(EndOf(r.path), r.verb)
<1> DEFINE Right(r) == r.handler = HandlerAt(EndOf(r.path), r.verb)
<1>1. ASSUME NEW r \in Bindings(<<>>) PROVE Right(r)
  BY <1>1, PlainBindings, RouteParts, Ends, HandlersAt
<1>2. ASSUME NEW r \in Bindings(<<TenantSeg>>) PROVE Right(r)
  BY <1>2, TenantBindings, RouteParts, Ends, HandlersAt
<1>3. ASSUME NEW r \in LegacyBindings PROVE Right(r)
  BY <1>3, RouteParts, Ends, HandlersAt DEF LegacyBindings, SubscribeSeg
<1> QED BY <1>1, <1>2, <1>3 DEF RestRouter

LEMMA OneHandler == \A r \in RestRouter : OnlyHandler(r)
BY HandlersOfRoutes DEF OnlyHandler

-----------------------------------------------------------------------------
(* Under a tenant a path is the plain one, a segment further on.           *)

HasTenant(tenant) == tenant \notin {NoTenant, ""}

Under(tenant) == IF HasTenant(tenant) THEN <<TenantSeg>> ELSE <<>>

TenantOf(tenant) == IF HasTenant(tenant) THEN tenant ELSE NoTenant

LEMMA Shifted ==
  ASSUME NEW S, NEW x \in S, NEW s \in Seq(S)
  PROVE  /\ <<x>> \o s \in Seq(S) /\ Len(<<x>> \o s) = Len(s) + 1 /\ (<<x>> \o s)[1] = x
         /\ \A i \in 1 .. Len(s) : (<<x>> \o s)[i + 1] = s[i]
         /\ <<>> \o s = s
<1>1. <<x>> \in Seq(S) /\ Len(<<x>>) = 1
  OBVIOUS
<1> QED BY <1>1

LEMMA FitsUnder ==
  ASSUME NEW S, NEW b \in Seq(S), TenantSeg \in S, NEW U, NEW q \in Seq(U), NEW x \in U, x # <<>>,
         Fits(b, q)
  PROVE  Fits(<<TenantSeg>> \o b, <<x>> \o q)
<1> DEFINE c == <<TenantSeg>> \o b
           p == <<x>> \o q
<1>1. /\ c \in Seq(S) /\ Len(c) = Len(b) + 1 /\ c[1] = TenantSeg
      /\ \A i \in 1 .. Len(b) : c[i + 1] = b[i]
  BY Shifted
<1>2. Len(p) = Len(q) + 1 /\ p[1] = x /\ \A i \in 1 .. Len(q) : p[i + 1] = q[i]
  BY Shifted
<1> HIDE DEF c, p
<1>3. Len(b) \in Nat /\ Len(b) = Len(q) /\ DOMAIN b = 1 .. Len(b) /\ DOMAIN c = 1 .. Len(b) + 1
  BY <1>1 DEF Fits
<1>4. ASSUME NEW i \in DOMAIN c PROVE IF IsParam(c[i]) THEN p[i] # <<>> ELSE c[i] = p[i]
  <2>1. CASE i = 1
    BY <1>1, <1>2, <2>1, Parameters
  <2>2. CASE i # 1
    <3>1. PICK j \in 1 .. Len(b) : i = j + 1
      <4>1. i - 1 \in 1 .. Len(b) /\ i = (i - 1) + 1
        BY <1>3, <2>2
      <4> QED BY <4>1
    <3>2. c[i] = b[j] /\ p[i] = q[j]
      BY <1>1, <1>2, <1>3, <3>1
    <3>3. IF IsParam(b[j]) THEN q[j] # <<>> ELSE b[j] = q[j]
      BY <1>3, <3>1 DEF Fits
    <3> QED BY <3>2, <3>3
  <2> QED BY <2>1, <2>2
<1> QED BY <1>1, <1>2, <1>3, <1>4 DEF Fits, c, p

Once(b, s) == \A i, j \in DOMAIN b : b[i] = s /\ b[j] = s => i = j

LEMMA ParamUnder ==
  ASSUME NEW S, NEW b \in Seq(S), TenantSeg \in S, NEW U, NEW q \in Seq(U), NEW x \in U,
         Len(b) = Len(q), \A i \in DOMAIN b : b[i] # TenantSeg
  PROVE  /\ Param(<<TenantSeg>> \o b, <<x>> \o q, TenantSeg) = <<x>>
         /\ \A s : s # TenantSeg /\ Once(b, s) =>
              Param(<<TenantSeg>> \o b, <<x>> \o q, s) = Param(b, q, s)
<1> DEFINE c == <<TenantSeg>> \o b
           p == <<x>> \o q
<1>1. /\ c \in Seq(S) /\ Len(c) = Len(b) + 1 /\ c[1] = TenantSeg
      /\ \A i \in 1 .. Len(b) : c[i + 1] = b[i]
  BY Shifted
<1>2. Len(p) = Len(q) + 1 /\ p[1] = x /\ \A i \in 1 .. Len(q) : p[i + 1] = q[i]
  BY Shifted
<1> HIDE DEF c, p
<1>3. Len(b) \in Nat /\ DOMAIN b = 1 .. Len(b) /\ DOMAIN c = 1 .. Len(b) + 1
  BY <1>1
<1>4. \A i \in DOMAIN c : i = 1 \/ \E j \in DOMAIN b : i = j + 1 /\ c[i] = b[j] /\ p[i] = q[j]
  <2>1. ASSUME NEW i \in DOMAIN c, i # 1
        PROVE  \E j \in DOMAIN b : i = j + 1 /\ c[i] = b[j] /\ p[i] = q[j]
    <3>1. i - 1 \in 1 .. Len(b) /\ i = (i - 1) + 1
      BY <1>3, <2>1
    <3>2. c[i] = b[i - 1] /\ p[i] = q[i - 1]
      BY <1>1, <1>2, <1>3, <3>1
    <3> QED BY <1>3, <3>1, <3>2
  <2> QED BY <2>1
<1>5. Param(c, p, TenantSeg) = <<x>>
  <2>1. 1 \in DOMAIN c /\ \A j \in DOMAIN c : c[j] = TenantSeg => j = 1
    BY <1>3, <1>4
  <2>2. Param(c, p, TenantSeg) = <<p[1]>>
    <3>1. c[1] = TenantSeg
      BY <1>1
    <3> QED BY <2>1, <3>1, ParamAt
  <2> QED BY <1>2, <2>2
<1>6. ASSUME NEW s, s # TenantSeg, Once(b, s) PROVE Param(c, p, s) = Param(b, q, s)
  <2>1. CASE \A j \in DOMAIN b : b[j] # s
    <3>1. \A j \in DOMAIN c : c[j] # s
      BY <1>1, <1>4, <1>6, <2>1
    <3> QED BY <2>1, <3>1, ParamMissing
  <2>2. ASSUME NEW i \in DOMAIN b, b[i] = s PROVE Param(c, p, s) = Param(b, q, s)
    <3>1. \A j \in DOMAIN b : b[j] = s => j = i
      BY <1>6, <2>2 DEF Once
    <3>2. i + 1 \in DOMAIN c /\ c[i + 1] = s /\ p[i + 1] = q[i]
      BY <1>1, <1>2, <1>3, <2>2
    <3>3. \A j \in DOMAIN c : c[j] = s => j = i + 1
      BY <1>1, <1>4, <1>6, <3>1
    <3>4. Param(b, q, s) = <<q[i]>>
      BY <2>2, <3>1, ParamAt
    <3>5. Param(c, p, s) = <<p[i + 1]>>
      BY <3>2, <3>3, ParamAt
    <3> QED BY <3>2, <3>4, <3>5
  <2> QED BY <2>1, <2>2
<1> QED BY <1>5, <1>6 DEF c, p

Unversioned(w) == HandleRest(w) = Refuse(UnsupportedVersion) /\ ~HttpVersionSupported(w)

Called(w, h, tenant, id, config) ==
  HandleRest(w) = CallRoute(w, h, TenantOf(tenant), id, config) /\ HttpVersionSupported(w)

OnlyTenants(path) == \A u \in Matching(path) : u[1] = TenantSeg

(* A request to a plain route, with or without a tenant.                   *)
LEMMA Addressed ==
  ASSUME NEW b \in Seq(Segments), Len(b) > 0, \A i \in DOMAIN b : b[i] # TenantSeg,
         Once(b, IdSeg), Once(b, ConfigIdSeg),
         NEW U, NEW q \in Seq(U), Fits(b, q), NEW tenant, <<tenant>> \in U,
         NEW w, w.path = TenantPath(tenant, q), NEW h,
         Route(Under(tenant) \o b, w.verb, h) \in RestRouter,
         HasTenant(tenant) => OnlyTenants(w.path)
  PROVE  Unversioned(w) \/ Called(w, h, tenant, Param(b, q, IdSeg), Param(b, q, ConfigIdSeg))
<1> DEFINE r == Route(Under(tenant) \o b, w.verb, h)
<1>1. r \in RestRouter /\ OnlyHandler(r) /\ r.path = Under(tenant) \o b /\ r.verb = w.verb
      /\ r.handler = h
  <2>1. r \in RestRouter
    OBVIOUS
  <2> HIDE DEF r
  <2>2. OnlyHandler(r)
    BY <2>1, OneHandler
  <2>3. r.path = Under(tenant) \o b /\ r.verb = w.verb /\ r.handler = h
    <3>1. \A u, v : r = Route(u, v, h) => r.path = u /\ r.verb = v /\ r.handler = h
      BY RouteParts
    <3>2. r = Route(Under(tenant) \o b, w.verb, h)
      BY DEF r
    <3> QED BY <3>1, <3>2, Zenon
  <2> QED BY <2>1, <2>2, <2>3
<1>2. TenantSeg \in Segments /\ TenantSeg # IdSeg /\ TenantSeg # ConfigIdSeg
  BY Parameters DEF Segments
<1>3. Len(b) = Len(q)
  BY DEF Fits
<1> HIDE DEF r
<1>4. CASE HasTenant(tenant)
  <2>1. r.path = <<TenantSeg>> \o b /\ w.path = <<<<tenant>>>> \o q
    BY <1>1, <1>4 DEF Under, TenantPath, HasTenant
  <2>2. <<tenant>> # <<>> /\ <<tenant>>[1] = tenant
    OBVIOUS
  <2>3. Fits(r.path, w.path)
    BY <1>2, <2>1, <2>2, FitsUnder
  <2>4. /\ Param(r.path, w.path, TenantSeg) = <<<<tenant>>>>
        /\ Param(r.path, w.path, IdSeg) = Param(b, q, IdSeg)
        /\ Param(r.path, w.path, ConfigIdSeg) = Param(b, q, ConfigIdSeg)
    <3> DEFINE x == <<tenant>>
    <3>1. x \in U
      OBVIOUS
    <3> HIDE DEF x
    <3>2. /\ Param(<<TenantSeg>> \o b, <<x>> \o q, TenantSeg) = <<x>>
          /\ Param(<<TenantSeg>> \o b, <<x>> \o q, IdSeg) = Param(b, q, IdSeg)
          /\ Param(<<TenantSeg>> \o b, <<x>> \o q, ConfigIdSeg) = Param(b, q, ConfigIdSeg)
      BY <1>2, <1>3, <3>1, ParamUnder
    <3>3. r.path = <<TenantSeg>> \o b /\ w.path = <<x>> \o q
      BY <2>1 DEF x
    <3> QED BY <3>2, <3>3 DEF x
  <2>5. Handled(w, r) = CallRoute(w, h, tenant, Param(b, q, IdSeg), Param(b, q, ConfigIdSeg))
    <3>1. <<<<tenant>>>> # <<>> /\ <<<<tenant>>>>[1][1] = tenant
      OBVIOUS
    <3> QED BY <1>1, <2>4, <3>1, Zenon DEF Handled
  <2>6. TenantOf(tenant) = tenant
    BY <1>4 DEF TenantOf
  <2> QED BY <1>1, <1>4, <2>3, <2>5, <2>6, RestAnswers DEF OnlyTenants, Unversioned, Called
<1>5. CASE ~HasTenant(tenant)
  <2>1. r.path = b /\ w.path = q
    BY <1>1, <1>2, <1>5, Shifted DEF Under, TenantPath, HasTenant
  <2>2. Fits(r.path, w.path) /\ r.path[1] # TenantSeg
    BY <2>1
  <2>3. Param(r.path, w.path, TenantSeg) = <<>>
    BY <2>1, ParamMissing
  <2>4. Handled(w, r) = CallRoute(w, h, NoTenant, Param(b, q, IdSeg), Param(b, q, ConfigIdSeg))
    BY <1>1, <2>1, <2>3, Zenon DEF Handled
  <2>5. TenantOf(tenant) = NoTenant
    BY <1>5 DEF TenantOf
  <2> QED BY <1>1, <2>2, <2>4, <2>5, RestAnswers DEF Unversioned, Called
<1> QED BY <1>4, <1>5

(* What a path matches that is not of a tenant's.                          *)
LEMMA LiteralMatches ==
  ASSUME NEW p, NEW u \in Matching(p), u[1] # TenantSeg
  PROVE  \/ Len(p) = 1
         \/ Len(p) = 2 /\ (p[1] = TasksSeg \/ p[2] \in {<<"send">>, <<"stream">>, <<"extended">>})
         \/ /\ Len(p) = 3 /\ p[1] = TasksSeg
            /\ p[3] \in {ConfigsSeg, OldConfigsSeg, <<"cancel">>, SubscribeSeg}
         \/ Len(p) = 4 /\ p[1] = TasksSeg /\ p[3] \in {ConfigsSeg, OldConfigsSeg}
<1> DEFINE Right ==
      \/ Len(p) = 1
      \/ Len(p) = 2 /\ (p[1] = TasksSeg \/ p[2] \in {<<"send">>, <<"stream">>, <<"extended">>})
      \/ /\ Len(p) = 3 /\ p[1] = TasksSeg
         /\ p[3] \in {ConfigsSeg, OldConfigsSeg, <<"cancel">>, SubscribeSeg}
      \/ Len(p) = 4 /\ p[1] = TasksSeg /\ p[3] \in {ConfigsSeg, OldConfigsSeg}
<1>1. Fits(u, p) /\ u \in Plain7 \union Legacy7 \union Tenanted
  BY PathsOfRoutes DEF Matching
<1>2. TasksSeg \in Literal /\ ConfigsSeg \in Literal /\ OldConfigsSeg \in Literal
      /\ SubscribeSeg \in Literal /\ <<"cancel">> \in Literal /\ <<"send">> \in Literal
      /\ <<"stream">> \in Literal /\ <<"extended">> \in Literal
  BY DEF Literal
<1>3. \A a : u = <<a>> => Right
  BY <1>1, FitsEach
<1>4. \A a : u = <<a, <<"send">>>> \/ u = <<a, <<"stream">>>> \/ u = <<a, <<"extended">>>> => Right
  BY <1>1, <1>2, FitsEach, AtEach
<1>5. u = <<TasksSeg, IdSeg>> => Right
  BY <1>1, <1>2, FitsEach, AtEach
<1>6. \A a \in {ConfigsSeg, OldConfigsSeg, <<"cancel">>, SubscribeSeg} :
        u = <<TasksSeg, IdSeg, a>> => Right
  BY <1>1, <1>2, FitsEach, AtEach
<1>7. \A a \in {ConfigsSeg, OldConfigsSeg} : u = <<TasksSeg, IdSeg, a, ConfigIdSeg>> => Right
  BY <1>1, <1>2, FitsEach, AtEach
<1> HIDE DEF Right
<1>8. CASE u \in Plain7
  BY <1>3, <1>5, <1>6, <1>7, <1>8 DEF Plain7, Right
<1>9. CASE u \in Legacy7
  BY <1>4, <1>6, <1>7, <1>9 DEF Legacy7, Right
<1>10. u \notin Tenanted
  <2>1. /\ \A a : <<TenantSeg, a>>[1] = TenantSeg
        /\ \A a, c : <<TenantSeg, a, c>>[1] = TenantSeg
        /\ \A a, c, d : <<TenantSeg, a, c, d>>[1] = TenantSeg
        /\ \A a, c, d, e : <<TenantSeg, a, c, d, e>>[1] = TenantSeg
    OBVIOUS
  <2> QED BY <2>1 DEF Tenanted
<1> QED BY <1>1, <1>8, <1>9, <1>10

LEMMA Unmatched ==
  ASSUME NEW w, NEW i \in 1 .. Len(w.path), w.path[i] = <<>>
  PROVE  HandleRest(w) = Plainly(404)
<1>1. Matching(w.path) = {}
  BY MatchingShape
<1> QED BY <1>1, Zenon DEF HandleRest

LEMMA WithoutDots ==
  ASSUME NEW U, NEW q \in Seq(U), NEW tenant, <<tenant>> \in U, <<tenant>> \notin Dots,
         \A i \in 1 .. Len(q) : q[i] \notin Dots
  PROVE  ResolveDots(TenantPath(tenant, q)) = TenantPath(tenant, q)
<1> DEFINE p == TenantPath(tenant, q)
           x == <<tenant>>
<1>1. p = q \/ p = <<x>> \o q
  BY DEF TenantPath
<1>2. x \in U /\ x \notin Dots
  OBVIOUS
<1> HIDE DEF p, x
<1>3. /\ Len(<<x>> \o q) = Len(q) + 1 /\ (<<x>> \o q)[1] = x /\ <<x>> \o q \in Seq(U)
      /\ \A i \in 1 .. Len(q) : (<<x>> \o q)[i + 1] = q[i]
  BY <1>2, Shifted
<1>4. \A i \in DOMAIN p : p[i] \notin Dots
  <2>1. CASE p = q
    BY <2>1
  <2>2. CASE p = <<x>> \o q
    <3>1. SUFFICES ASSUME NEW i \in 1 .. Len(q) + 1, i # 1 PROVE p[i] \notin Dots
      BY <1>2, <1>3, <2>2
    <3>2. i - 1 \in 1 .. Len(q) /\ (i - 1) + 1 = i
      BY <3>1
    <3> QED BY <1>3, <2>2, <3>2
  <2> QED BY <1>1, <2>1, <2>2
<1>5. ToSet(p) \intersect Dots = {}
  BY <1>4 DEF ToSet
<1>6. ResolveDots(p) = p
  BY <1>5 DEF ResolveDots
<1> QED BY <1>6 DEF p

(* Requests to a path of one, two, three and four segments.                *)
LEMMA AddressedOne ==
  ASSUME NEW x \in {SendSeg, StreamSeg, TasksSeg, CardSeg}, NEW tenant, tenant # "tasks",
         NEW w, w.path = TenantPath(tenant, <<x>>), NEW h,
         Route(Under(tenant) \o <<x>>, w.verb, h) \in RestRouter
  PROVE  Unversioned(w) \/ Called(w, h, tenant, <<>>, <<>>)
<1> DEFINE b == <<x>>
           U == {x, <<tenant>>}
<1>1. x \in Literal /\ x \in Segments
  BY DEF Literal, Segments
<1>2. x # TenantSeg /\ x # IdSeg /\ x # ConfigIdSeg
  BY <1>1, LiteralsAreFixed, Zenon DEF IsParam
<1>3. b \in Seq(Segments) /\ Len(b) = 1 /\ DOMAIN b = 1 .. 1 /\ b[1] = x /\ b \in Seq(U)
  BY <1>1
<1>4. Fits(b, b)
  BY <1>1, <1>3, FitsEach, AtEach
<1>5. (\A i \in DOMAIN b : b[i] # TenantSeg) /\ Once(b, IdSeg) /\ Once(b, ConfigIdSeg)
  BY <1>2, <1>3 DEF Once
<1>6. Param(b, b, IdSeg) = <<>> /\ Param(b, b, ConfigIdSeg) = <<>>
  BY <1>2, <1>3, ParamMissing
<1>7. HasTenant(tenant) => OnlyTenants(w.path)
  <2>0. SUFFICES ASSUME HasTenant(tenant), NEW u \in Matching(w.path), u[1] # TenantSeg PROVE FALSE
    BY DEF OnlyTenants
  <2>1. w.path = <<<<tenant>>>> \o <<x>>
    BY <2>0 DEF TenantPath, HasTenant
  <2>2. w.path = <<<<tenant>>, x>>
    BY <2>1, JoinedOne
  <2>3. Len(w.path) = 2 /\ w.path[1] = <<tenant>> /\ w.path[2] = x
    BY <2>2
  <2>4. <<tenant>> # TasksSeg
    BY DEF TasksSeg
  <2>5. x \notin {<<"send">>, <<"stream">>, <<"extended">>}
    BY DEF SendSeg, StreamSeg, TasksSeg, CardSeg
  <2> QED BY <2>0, <2>3, <2>4, <2>5, LiteralMatches
<1>8. <<tenant>> \in U
  OBVIOUS
<1> HIDE DEF b, U
<1>9. w.path = TenantPath(tenant, b) /\ Route(Under(tenant) \o b, w.verb, h) \in RestRouter
  BY DEF b
<1>10. b \in Seq(Segments) /\ b \in Seq(U) /\ Len(b) > 0
  BY <1>3
<1>11. Unversioned(w) \/ Called(w, h, tenant, Param(b, b, IdSeg), Param(b, b, ConfigIdSeg))
  BY <1>4, <1>5, <1>7, <1>8, <1>9, <1>10, Addressed
<1> QED BY <1>6, <1>11

LEMMA AddressedTwo ==
  ASSUME NEW y, NEW tenant,
         tenant = "tasks" => y \notin {ConfigsSeg, OldConfigsSeg, <<"cancel">>, SubscribeSeg},
         NEW w, w.path = TenantPath(tenant, <<TasksSeg, y>>), NEW h,
         Route(Under(tenant) \o <<TasksSeg, IdSeg>>, w.verb, h) \in RestRouter
  PROVE  HandleRest(w) = Plainly(404) \/ Unversioned(w) \/ Called(w, h, tenant, <<y>>, <<>>)
<1> DEFINE b == <<TasksSeg, IdSeg>>
           q == <<TasksSeg, y>>
           U == {TasksSeg, y, <<tenant>>}
<1>1. TasksSeg \in Literal /\ TasksSeg \in Segments /\ IdSeg \in Segments /\ IsParam(IdSeg)
  BY Parameters DEF Literal, Segments
<1>2. /\ TasksSeg # TenantSeg /\ TasksSeg # IdSeg /\ TasksSeg # ConfigIdSeg
      /\ IdSeg # TenantSeg /\ IdSeg # ConfigIdSeg
  BY DEF TasksSeg, TenantSeg, IdSeg, ConfigIdSeg
<1>3. /\ b \in Seq(Segments) /\ Len(b) = 2 /\ DOMAIN b = 1 .. 2 /\ b[1] = TasksSeg /\ b[2] = IdSeg
      /\ q \in Seq(U) /\ Len(q) = 2 /\ q[1] = TasksSeg /\ q[2] = y /\ <<tenant>> \in U
  BY <1>1
<1>4. \A i \in 1 .. 2 : i = 1 \/ i = 2
  OBVIOUS
<1>5. (\A i \in DOMAIN b : b[i] # TenantSeg) /\ Once(b, IdSeg) /\ Once(b, ConfigIdSeg)
  BY <1>2, <1>3, <1>4 DEF Once
<1>6. Param(b, q, IdSeg) = <<y>> /\ Param(b, q, ConfigIdSeg) = <<>>
  <2>1. 2 \in DOMAIN b /\ b[2] = IdSeg /\ \A j \in DOMAIN b : b[j] = IdSeg => j = 2
    BY <1>2, <1>3, <1>4
  <2>2. \A j \in DOMAIN b : b[j] # ConfigIdSeg
    BY <1>2, <1>3, <1>4
  <2> HIDE DEF b, q
  <2> QED BY <1>3, <2>1, <2>2, ParamAt, ParamMissing
<1>7. CASE y = <<>>
  <2>1. \E i \in 1 .. Len(w.path) : w.path[i] = <<>>
    <3>1. <<<<tenant>>>> \o <<TasksSeg, y>> = <<<<tenant>>, TasksSeg, y>>
      BY JoinedTwo
    <3>2. w.path = <<TasksSeg, y>> \/ w.path = <<<<tenant>>, TasksSeg, y>>
      BY <3>1 DEF TenantPath
    <3>3. CASE w.path = <<TasksSeg, y>>
      <4>1. Len(w.path) = 2 /\ w.path[2] = y /\ 2 \in 1 .. 2
        BY <3>3
      <4> QED BY <1>7, <4>1
    <3>4. CASE w.path = <<<<tenant>>, TasksSeg, y>>
      <4>1. Len(w.path) = 3 /\ w.path[3] = y /\ 3 \in 1 .. 3
        BY <3>4
      <4> QED BY <1>7, <4>1
    <3> QED BY <3>2, <3>3, <3>4
  <2> QED BY <2>1, Unmatched
<1>8. HasTenant(tenant) => OnlyTenants(w.path)
  <2>0. SUFFICES ASSUME HasTenant(tenant), NEW u \in Matching(w.path), u[1] # TenantSeg PROVE FALSE
    BY DEF OnlyTenants
  <2>1. w.path = <<<<tenant>>>> \o <<TasksSeg, y>>
    BY <2>0 DEF TenantPath, HasTenant
  <2>2. w.path = <<<<tenant>>, TasksSeg, y>>
    BY <2>1, JoinedTwo
  <2>3. Len(w.path) = 3 /\ w.path[1] = <<tenant>> /\ w.path[3] = y
    BY <2>2
  <2>4. <<tenant>> = TasksSeg => tenant = "tasks"
    BY DEF TasksSeg
  <2>5. ConfigsSeg # <<"cancel">> /\ ConfigsSeg # SubscribeSeg
    BY DEF ConfigsSeg, SubscribeSeg
  <2> QED BY <2>0, <2>3, <2>4, <2>5, LiteralMatches
<1>9. CASE y # <<>>
  <2>1. Fits(b, q)
    BY <1>1, <1>3, <1>9, FitsEach, AtEach
  <2>2. w.path = TenantPath(tenant, q) /\ Route(Under(tenant) \o b, w.verb, h) \in RestRouter
    OBVIOUS
  <2> HIDE DEF b, q, U
  <2>3. b \in Seq(Segments) /\ q \in Seq(U) /\ <<tenant>> \in U /\ Len(b) > 0
    BY <1>3
  <2>4. Unversioned(w) \/ Called(w, h, tenant, Param(b, q, IdSeg), Param(b, q, ConfigIdSeg))
    BY <1>5, <1>8, <2>1, <2>2, <2>3, Addressed
  <2> QED BY <1>6, <2>4
<1> QED BY <1>7, <1>9

LEMMA AddressedThree ==
  ASSUME NEW y, NEW tenant, tenant = "tasks" => y \notin {ConfigsSeg, OldConfigsSeg},
         NEW w, w.path = TenantPath(tenant, <<TasksSeg, y, ConfigsSeg>>), NEW h,
         Route(Under(tenant) \o <<TasksSeg, IdSeg, ConfigsSeg>>, w.verb, h) \in RestRouter
  PROVE  HandleRest(w) = Plainly(404) \/ Unversioned(w) \/ Called(w, h, tenant, <<y>>, <<>>)
<1> DEFINE b == <<TasksSeg, IdSeg, ConfigsSeg>>
           q == <<TasksSeg, y, ConfigsSeg>>
           U == {TasksSeg, y, ConfigsSeg, <<tenant>>}
<1>1. /\ TasksSeg \in Literal /\ ConfigsSeg \in Literal /\ TasksSeg \in Segments
      /\ IdSeg \in Segments /\ ConfigsSeg \in Segments /\ IsParam(IdSeg)
  BY Parameters DEF Literal, Segments
<1>2. /\ TasksSeg # TenantSeg /\ TasksSeg # IdSeg /\ TasksSeg # ConfigIdSeg
      /\ ConfigsSeg # TenantSeg /\ ConfigsSeg # IdSeg /\ ConfigsSeg # ConfigIdSeg
      /\ IdSeg # TenantSeg /\ IdSeg # ConfigIdSeg
  BY DEF TasksSeg, ConfigsSeg, TenantSeg, IdSeg, ConfigIdSeg
<1>3. /\ b \in Seq(Segments) /\ Len(b) = 3 /\ DOMAIN b = 1 .. 3
      /\ b[1] = TasksSeg /\ b[2] = IdSeg /\ b[3] = ConfigsSeg
      /\ q \in Seq(U) /\ Len(q) = 3 /\ q[1] = TasksSeg /\ q[2] = y /\ q[3] = ConfigsSeg
      /\ <<tenant>> \in U
  BY <1>1
<1>4. \A i \in 1 .. 3 : i = 1 \/ i = 2 \/ i = 3
  OBVIOUS
<1>5. (\A i \in DOMAIN b : b[i] # TenantSeg) /\ Once(b, IdSeg) /\ Once(b, ConfigIdSeg)
  BY <1>2, <1>3, <1>4 DEF Once
<1>6. Param(b, q, IdSeg) = <<y>> /\ Param(b, q, ConfigIdSeg) = <<>>
  <2>1. 2 \in DOMAIN b /\ b[2] = IdSeg /\ \A j \in DOMAIN b : b[j] = IdSeg => j = 2
    BY <1>2, <1>3, <1>4
  <2>2. \A j \in DOMAIN b : b[j] # ConfigIdSeg
    BY <1>2, <1>3, <1>4
  <2> HIDE DEF b, q
  <2>3. Param(b, q, IdSeg) = <<q[2]>>
    BY <2>1, ParamAt
  <2>4. Param(b, q, ConfigIdSeg) = <<>>
    BY <2>2, ParamMissing
  <2> QED BY <1>3, <2>3, <2>4
<1>7. CASE y = <<>>
  <2>1. \E i \in 1 .. Len(w.path) : w.path[i] = <<>>
    <3>1. <<<<tenant>>>> \o <<TasksSeg, y, ConfigsSeg>> = <<<<tenant>>, TasksSeg, y, ConfigsSeg>>
      BY JoinedThree
    <3>2. w.path = <<TasksSeg, y, ConfigsSeg>> \/ w.path = <<<<tenant>>, TasksSeg, y, ConfigsSeg>>
      BY <3>1 DEF TenantPath
    <3>3. CASE w.path = <<TasksSeg, y, ConfigsSeg>>
      <4>1. Len(w.path) = 3 /\ w.path[2] = y /\ 2 \in 1 .. 3
        BY <3>3
      <4> QED BY <1>7, <4>1
    <3>4. CASE w.path = <<<<tenant>>, TasksSeg, y, ConfigsSeg>>
      <4>1. Len(w.path) = 4 /\ w.path[3] = y /\ 3 \in 1 .. 4
        BY <3>4
      <4> QED BY <1>7, <4>1
    <3> QED BY <3>2, <3>3, <3>4
  <2> QED BY <2>1, Unmatched
<1>8. HasTenant(tenant) => OnlyTenants(w.path)
  <2>0. SUFFICES ASSUME HasTenant(tenant), NEW u \in Matching(w.path), u[1] # TenantSeg PROVE FALSE
    BY DEF OnlyTenants
  <2>1. w.path = <<<<tenant>>>> \o <<TasksSeg, y, ConfigsSeg>>
    BY <2>0 DEF TenantPath, HasTenant
  <2>2. w.path = <<<<tenant>>, TasksSeg, y, ConfigsSeg>>
    BY <2>1, JoinedThree
  <2>3. Len(w.path) = 4 /\ w.path[1] = <<tenant>> /\ w.path[3] = y
    BY <2>2
  <2>4. <<tenant>> = TasksSeg => tenant = "tasks"
    BY DEF TasksSeg
  <2>5. ConfigsSeg # <<"cancel">> /\ ConfigsSeg # SubscribeSeg
    BY DEF ConfigsSeg, SubscribeSeg
  <2> QED BY <2>0, <2>3, <2>4, <2>5, LiteralMatches
<1>9. CASE y # <<>>
  <2>1. Fits(b, q)
    BY <1>1, <1>3, <1>9, FitsEach, AtEach
  <2>2. w.path = TenantPath(tenant, q) /\ Route(Under(tenant) \o b, w.verb, h) \in RestRouter
    OBVIOUS
  <2> HIDE DEF b, q, U
  <2>3. b \in Seq(Segments) /\ q \in Seq(U) /\ <<tenant>> \in U /\ Len(b) > 0
    BY <1>3
  <2>4. Unversioned(w) \/ Called(w, h, tenant, Param(b, q, IdSeg), Param(b, q, ConfigIdSeg))
    BY <1>5, <1>8, <2>1, <2>2, <2>3, Addressed
  <2> QED BY <1>6, <2>4
<1> QED BY <1>7, <1>9

LEMMA AddressedFour ==
  ASSUME NEW y, NEW z, NEW tenant,
         NEW w, w.path = TenantPath(tenant, <<TasksSeg, y, ConfigsSeg, z>>), NEW h,
         Route(Under(tenant) \o <<TasksSeg, IdSeg, ConfigsSeg, ConfigIdSeg>>, w.verb, h) \in RestRouter
  PROVE  HandleRest(w) = Plainly(404) \/ Unversioned(w) \/ Called(w, h, tenant, <<y>>, <<z>>)
<1> DEFINE b == <<TasksSeg, IdSeg, ConfigsSeg, ConfigIdSeg>>
           q == <<TasksSeg, y, ConfigsSeg, z>>
           U == {TasksSeg, y, ConfigsSeg, z, <<tenant>>}
<1>1. /\ TasksSeg \in Literal /\ ConfigsSeg \in Literal /\ TasksSeg \in Segments
      /\ IdSeg \in Segments /\ ConfigsSeg \in Segments /\ ConfigIdSeg \in Segments
      /\ IsParam(IdSeg) /\ IsParam(ConfigIdSeg)
  BY Parameters DEF Literal, Segments
<1>2. /\ TasksSeg # TenantSeg /\ TasksSeg # IdSeg /\ TasksSeg # ConfigIdSeg
      /\ ConfigsSeg # TenantSeg /\ ConfigsSeg # IdSeg /\ ConfigsSeg # ConfigIdSeg
      /\ IdSeg # TenantSeg /\ IdSeg # ConfigIdSeg /\ ConfigIdSeg # TenantSeg
  BY DEF TasksSeg, ConfigsSeg, TenantSeg, IdSeg, ConfigIdSeg
<1>3. /\ b \in Seq(Segments) /\ Len(b) = 4 /\ DOMAIN b = 1 .. 4
      /\ b[1] = TasksSeg /\ b[2] = IdSeg /\ b[3] = ConfigsSeg /\ b[4] = ConfigIdSeg
  BY <1>1
<1>4. /\ q \in Seq(U) /\ Len(q) = 4 /\ q[1] = TasksSeg /\ q[2] = y /\ q[3] = ConfigsSeg
      /\ q[4] = z /\ <<tenant>> \in U
  OBVIOUS
<1>5. \A i \in 1 .. 4 : i = 1 \/ i = 2 \/ i = 3 \/ i = 4
  OBVIOUS
<1> HIDE DEF b, q, U
<1>6. (\A i \in DOMAIN b : b[i] # TenantSeg) /\ Once(b, IdSeg) /\ Once(b, ConfigIdSeg)
  BY <1>2, <1>3, <1>5 DEF Once
<1>7. Param(b, q, IdSeg) = <<y>> /\ Param(b, q, ConfigIdSeg) = <<z>>
  <2>1. 2 \in DOMAIN b /\ b[2] = IdSeg /\ \A j \in DOMAIN b : b[j] = IdSeg => j = 2
    BY <1>2, <1>3, <1>5
  <2>2. 4 \in DOMAIN b /\ b[4] = ConfigIdSeg /\ \A j \in DOMAIN b : b[j] = ConfigIdSeg => j = 4
    BY <1>2, <1>3, <1>5
  <2> QED BY <1>4, <2>1, <2>2, ParamAt
<1>8. CASE y = <<>> \/ z = <<>>
  <2>1. \E i \in 1 .. Len(w.path) : w.path[i] = <<>>
    <3>1. <<<<tenant>>>> \o <<TasksSeg, y, ConfigsSeg, z>> = <<<<tenant>>, TasksSeg, y, ConfigsSeg, z>>
      BY JoinedFour
    <3>2. \/ w.path = <<TasksSeg, y, ConfigsSeg, z>>
          \/ w.path = <<<<tenant>>, TasksSeg, y, ConfigsSeg, z>>
      BY <3>1 DEF TenantPath
    <3>3. CASE w.path = <<TasksSeg, y, ConfigsSeg, z>>
      <4>1. Len(w.path) = 4 /\ w.path[2] = y /\ w.path[4] = z /\ 2 \in 1 .. 4 /\ 4 \in 1 .. 4
        BY <3>3
      <4> QED BY <1>8, <4>1
    <3>4. CASE w.path = <<<<tenant>>, TasksSeg, y, ConfigsSeg, z>>
      <4>1. Len(w.path) = 5 /\ w.path[3] = y /\ w.path[5] = z /\ 3 \in 1 .. 5 /\ 5 \in 1 .. 5
        BY <3>4
      <4> QED BY <1>8, <4>1
    <3> QED BY <3>2, <3>3, <3>4
  <2> QED BY <2>1, Unmatched
<1>9. HasTenant(tenant) => OnlyTenants(w.path)
  <2>0. SUFFICES ASSUME HasTenant(tenant), NEW u \in Matching(w.path), u[1] # TenantSeg PROVE FALSE
    BY DEF OnlyTenants
  <2>1. w.path = <<<<tenant>>>> \o <<TasksSeg, y, ConfigsSeg, z>>
    BY <2>0 DEF TenantPath, HasTenant
  <2>2. w.path = <<<<tenant>>, TasksSeg, y, ConfigsSeg, z>>
    BY <2>1, JoinedFour
  <2>3. Len(w.path) = 5
    BY <2>2
  <2> QED BY <2>0, <2>3, LiteralMatches
<1>10. CASE y # <<>> /\ z # <<>>
  <2>1. Fits(b, q)
    BY <1>1, <1>4, <1>10, FitsEach, AtEach DEF b
  <2>2. w.path = TenantPath(tenant, q) /\ Route(Under(tenant) \o b, w.verb, h) \in RestRouter
    BY DEF b, q
  <2>3. b \in Seq(Segments) /\ q \in Seq(U) /\ <<tenant>> \in U /\ Len(b) > 0
    BY <1>3, <1>4
  <2>4. Unversioned(w) \/ Called(w, h, tenant, Param(b, q, IdSeg), Param(b, q, ConfigIdSeg))
    BY <1>6, <1>9, <2>1, <2>2, <2>3, Addressed
  <2> QED BY <1>7, <2>4
<1> QED BY <1>8, <1>10

-----------------------------------------------------------------------------
(* The requests of the REST client, operation by operation.                *)

LEMMA RouteMembers ==
  ASSUME NEW u \in {<<>>, <<TenantSeg>>}
  PROVE  /\ Route(u \o <<SendSeg>>, "POST", "send") \in RestRouter
         /\ Route(u \o <<StreamSeg>>, "POST", "stream") \in RestRouter
         /\ Route(u \o <<TasksSeg, IdSeg>>, "GET", "task") \in RestRouter
         /\ Route(u \o <<TasksSeg, IdSeg>>, "POST", "action") \in RestRouter
         /\ Route(u \o <<TasksSeg>>, "GET", "list") \in RestRouter
         /\ Route(u \o <<TasksSeg, IdSeg, ConfigsSeg>>, "POST", "createConfig") \in RestRouter
         /\ Route(u \o <<TasksSeg, IdSeg, ConfigsSeg>>, "GET", "listConfigs") \in RestRouter
         /\ Route(u \o <<TasksSeg, IdSeg, ConfigsSeg, ConfigIdSeg>>, "GET", "getConfig")
              \in RestRouter
         /\ Route(u \o <<TasksSeg, IdSeg, ConfigsSeg, ConfigIdSeg>>, "DELETE", "deleteConfig")
              \in RestRouter
         /\ Route(u \o <<CardSeg>>, "GET", "card") \in RestRouter
<1>1. \A r : r \in Bindings(u) => r \in RestRouter
  BY Zenon DEF RestRouter
<1>2. /\ Route(u \o <<SendSeg>>, "POST", "send") \in Bindings(u)
      /\ Route(u \o <<StreamSeg>>, "POST", "stream") \in Bindings(u)
      /\ Route(u \o <<TasksSeg, IdSeg>>, "GET", "task") \in Bindings(u)
      /\ Route(u \o <<TasksSeg, IdSeg>>, "POST", "action") \in Bindings(u)
      /\ Route(u \o <<TasksSeg>>, "GET", "list") \in Bindings(u)
  BY Zenon DEF Bindings, SendSeg, StreamSeg, CardSeg
<1>3. /\ Route(u \o <<TasksSeg, IdSeg, ConfigsSeg>>, "POST", "createConfig") \in Bindings(u)
      /\ Route(u \o <<TasksSeg, IdSeg, ConfigsSeg>>, "GET", "listConfigs") \in Bindings(u)
      /\ Route(u \o <<TasksSeg, IdSeg, ConfigsSeg, ConfigIdSeg>>, "GET", "getConfig") \in Bindings(u)
      /\ Route(u \o <<TasksSeg, IdSeg, ConfigsSeg, ConfigIdSeg>>, "DELETE", "deleteConfig")
           \in Bindings(u)
      /\ Route(u \o <<CardSeg>>, "GET", "card") \in Bindings(u)
  BY Zenon DEF Bindings, SendSeg, StreamSeg, CardSeg
<1> QED BY <1>1, <1>2, <1>3, Zenon

LEMMA UnderWhich == \A tenant : Under(tenant) \in {<<>>, <<TenantSeg>>}
BY DEF Under

LEMMA Suffixed ==
  ASSUME NEW S, NEW y \in Seq(S), NEW x
  PROVE  Append(y, x) # <<>> /\ Last(Append(y, x)) = x /\ Front(Append(y, x)) = y
<1> DEFINE T == S \union {x}
<1>1. x \in T /\ \A z \in S : z \in T
  OBVIOUS
<1> HIDE DEF T
<1>2. y \in Seq(T)
  BY <1>1
<1>3. Append(y, x) \in Seq(T) /\ Len(Append(y, x)) = Len(y) + 1 /\ Append(y, x)[Len(y) + 1] = x
      /\ \A i \in 1 .. Len(y) : Append(y, x)[i] = y[i]
  BY <1>1, <1>2
<1>4. Append(y, x) # <<>> /\ Last(Append(y, x)) = x
  BY <1>2, <1>3 DEF Last
<1>5. Front(Append(y, x)) = y
  <2>1. Front(Append(y, x)) = SubSeq(Append(y, x), 1, Len(y))
    BY <1>2, <1>3 DEF Front
  <2>2. /\ SubSeq(Append(y, x), 1, Len(y)) \in Seq(T)
        /\ Len(SubSeq(Append(y, x), 1, Len(y))) = Len(y)
        /\ \A i \in 1 .. Len(y) : SubSeq(Append(y, x), 1, Len(y))[i] = Append(y, x)[i]
    BY <1>2, <1>3
  <2> QED BY <1>2, <1>3, <2>1, <2>2, SeqEqual
<1> QED BY <1>4, <1>5

(* What REST has no path for.                                              *)
Misaddressed(method, ids, tenant) ==
  \/ <<tenant>> \in Dots \/ Range(ids) \intersect Dots # {}
  \/ /\ tenant = "tasks"
     /\ \/ ids = <<>>
        \/ Range(ids) \intersect {SubscribeSeg, ConfigsSeg, OldConfigsSeg} # {}
  \/ method = "GetTask" /\ StripSuffix(ids[1], ":subscribe")

LEMMA RestParts ==
  ASSUME NEW method, NEW path, NEW ids, NEW tenant, NEW versions
  PROVE  LET w == RestRequest(method, path, ids, tenant, versions)
         IN  /\ w.verb = RestVerb(method) /\ w.path = ResolveDots(TenantPath(tenant, path))
             /\ w.query = "ok" /\ w.queryVersion = <<>> /\ w.headers = VersionHeaders(versions)
             /\ RestVerb(method) = "POST" => w.body = "good" /\ w.tenant = TenantOf(tenant)
             /\ w.task = IF method = "CreatePushConfig" THEN ids[1] ELSE <<>>
BY DEF RestRequest, TenantOf, HasTenant

LEMMA Verbs ==
  /\ RestVerb("SendMessage") = "POST" /\ RestVerb("SendStreamingMessage") = "POST"
  /\ RestVerb("CancelTask") = "POST" /\ RestVerb("CreatePushConfig") = "POST"
  /\ RestVerb("DeletePushConfig") = "DELETE" /\ RestVerb("GetTask") = "GET"
  /\ RestVerb("ListTasks") = "GET" /\ RestVerb("SubscribeToTask") = "GET"
  /\ RestVerb("GetPushConfig") = "GET" /\ RestVerb("ListPushConfigs") = "GET"
  /\ RestVerb("GetExtendedAgentCard") = "GET"
BY DEF RestVerb

LEMMA Paths ==
  \A ids :
    /\ RestPath("SendMessage", ids) = <<SendSeg>>
    /\ RestPath("SendStreamingMessage", ids) = <<StreamSeg>>
    /\ RestPath("ListTasks", ids) = <<TasksSeg>>
    /\ RestPath("GetExtendedAgentCard", ids) = <<CardSeg>>
    /\ RestPath("GetTask", ids) = <<TasksSeg, ids[1]>>
    /\ RestPath("CancelTask", ids) = <<TasksSeg, Append(ids[1], ":cancel")>>
    /\ RestPath("SubscribeToTask", ids) = <<TasksSeg, Append(ids[1], ":subscribe")>>
    /\ RestPath("CreatePushConfig", ids) = <<TasksSeg, ids[1], ConfigsSeg>>
    /\ RestPath("ListPushConfigs", ids) = <<TasksSeg, ids[1], ConfigsSeg>>
    /\ RestPath("GetPushConfig", ids) = <<TasksSeg, ids[1], ConfigsSeg, ids[2]>>
    /\ RestPath("DeletePushConfig", ids) = <<TasksSeg, ids[1], ConfigsSeg, ids[2]>>
BY DEF RestPath, WithSuffix, SendSeg, StreamSeg, CardSeg

Reaches(w, method, ids, tenant) ==
  \/ HandleRest(w).kind = "http" \/ Unversioned(w)
  \/ HandleRest(w) = Give(method, ids, TenantOf(tenant)) /\ HttpVersionSupported(w)

LEMMA PlainlyKind == \A status : Plainly(status).kind = "http"
BY DEF Plainly

LEMMA LiteralsHaveNoDots ==
  /\ SendSeg \notin Dots /\ StreamSeg \notin Dots /\ CardSeg \notin Dots /\ TasksSeg \notin Dots
  /\ ConfigsSeg \notin Dots /\ SubscribeSeg \notin Dots
BY DEF Dots, SendSeg, StreamSeg, CardSeg, TasksSeg, ConfigsSeg, SubscribeSeg

LEMMA SuffixesHaveNoDots ==
  ASSUME NEW S, NEW y \in Seq(S), NEW x \in {":cancel", ":subscribe"}
  PROVE  Append(y, x) \notin Dots \union {ConfigsSeg, OldConfigsSeg, <<"cancel">>, SubscribeSeg}
<1>1. Last(Append(y, x)) = x
  BY Suffixed
<1>2. \A z : Last(<<z>>) = z
  BY DEF Last
<1>3. \A z : z \notin {":cancel", ":subscribe"} => Append(y, x) # <<z>>
  BY <1>1, <1>2
<1> QED BY <1>3, Zenon DEF Dots, ConfigsSeg, OldConfigsSeg, SubscribeSeg

LEMMA ArrivesOne ==
  ASSUME NEW method \in {"SendMessage", "SendStreamingMessage", "ListTasks", "GetExtendedAgentCard"},
         NEW tenant, ~Misaddressed(method, <<>>, tenant), NEW versions
  PROVE  Reaches(RestRequest(method, RestPath(method, <<>>), <<>>, tenant, versions), method, <<>>, tenant)
<1> DEFINE x == CASE method = "SendMessage" -> SendSeg [] method = "SendStreamingMessage" -> StreamSeg
                  [] method = "ListTasks" -> TasksSeg [] method = "GetExtendedAgentCard" -> CardSeg
           h == CASE method = "SendMessage" -> "send" [] method = "SendStreamingMessage" -> "stream"
                  [] method = "ListTasks" -> "list" [] method = "GetExtendedAgentCard" -> "card"
           w == RestRequest(method, RestPath(method, <<>>), <<>>, tenant, versions)
           u == Under(tenant)
<1>1. tenant # "tasks" /\ <<tenant>> \notin Dots
  BY DEF Misaddressed
<1>2. x \in {SendSeg, StreamSeg, TasksSeg, CardSeg} /\ RestPath(method, <<>>) = <<x>>
  BY Paths
<1>3. x \notin Dots
  BY <1>2, LiteralsHaveNoDots
<1>4. u \in {<<>>, <<TenantSeg>>}
  BY UnderWhich
<1>5. Route(u \o <<x>>, RestVerb(method), h) \in RestRouter
  <2> HIDE DEF u
  <2> QED BY <1>4, RouteMembers, Verbs
<1>6. /\ w.verb = RestVerb(method) /\ w.path = ResolveDots(TenantPath(tenant, <<x>>)) /\ w.query = "ok"
      /\ RestVerb(method) = "POST" => w.body = "good" /\ w.tenant = TenantOf(tenant)
  BY <1>2, RestParts
<1> HIDE DEF x, w
<1>7. CallRoute(w, h, TenantOf(tenant), <<>>, <<>>) = Give(method, <<>>, TenantOf(tenant))
  <2> DEFINE t == TenantOf(tenant)
             id == <<>>
  <2> HIDE DEF t, id
  <2>1. RestVerb(method) = "POST" => w.body = "good" /\ w.tenant = t
    BY <1>6 DEF t
  <2>2. method = "SendMessage" => CallRoute(w, "send", t, id, id) = Give("SendMessage", <<>>, t)
    BY <2>1, HandlesSend, Verbs, Zenon
  <2>3. method = "SendStreamingMessage" =>
          CallRoute(w, "stream", t, id, id) = Give("SendStreamingMessage", <<>>, t)
    BY <2>1, HandlesSend, Verbs, Zenon
  <2>4. CallRoute(w, "list", t, id, id) = Give("ListTasks", <<>>, t)
    <3>1. w.query = "ok"
      BY <1>6
    <3> QED BY <3>1, HandlesList, Zenon
  <2>5. CallRoute(w, "card", t, id, id) = Give("GetExtendedAgentCard", <<>>, t)
    BY HandlesCard, SMT
  <2>6. CallRoute(w, h, t, id, id) = Give(method, <<>>, t)
    BY <2>2, <2>3, <2>4, <2>5
  <2> QED BY <2>6 DEF t, id
<1> HIDE DEF h
<1>8. w.path = TenantPath(tenant, <<x>>)
  <2> DEFINE U == {x, <<tenant>>}
             q == <<x>>
  <2>1. q \in Seq(U) /\ <<tenant>> \in U /\ \A i \in 1 .. Len(q) : q[i] \notin Dots
    BY <1>3
  <2> HIDE DEF U, q
  <2>2. ResolveDots(TenantPath(tenant, q)) = TenantPath(tenant, q)
    BY <1>1, <2>1, WithoutDots
  <2> QED BY <1>6, <2>2 DEF q
<1>9. Unversioned(w) \/ Called(w, h, tenant, <<>>, <<>>)
  BY <1>1, <1>2, <1>5, <1>6, <1>8, AddressedOne
<1>10. Reaches(w, method, <<>>, tenant)
  BY <1>7, <1>9 DEF Reaches, Called
<1> QED BY <1>10 DEF w

(* Only a POST cancels: of the tenant "tasks" no task "cancel" can be got. *)
LEMMA CancelsArePosted == \A r \in RestRouter : EndOf(r.path) = <<"cancel">> => r.verb = "POST"
<1> DEFINE Right(r) == EndOf(r.path) = <<"cancel">> => r.verb = "POST"
<1>1. /\ SendSeg # <<"cancel">> /\ StreamSeg # <<"cancel">> /\ CardSeg # <<"cancel">>
      /\ TasksSeg # <<"cancel">> /\ IdSeg # <<"cancel">> /\ ConfigsSeg # <<"cancel">>
      /\ OldConfigsSeg # <<"cancel">> /\ ConfigIdSeg # <<"cancel">> /\ SubscribeSeg # <<"cancel">>
  BY DEF SendSeg, StreamSeg, CardSeg, TasksSeg, IdSeg, ConfigsSeg, OldConfigsSeg, ConfigIdSeg,
         SubscribeSeg
<1>2. ASSUME NEW r \in Bindings(<<>>) PROVE Right(r)
  BY <1>1, <1>2, PlainBindings, RouteParts, Ends
<1>3. ASSUME NEW r \in Bindings(<<TenantSeg>>) PROVE Right(r)
  BY <1>1, <1>3, TenantBindings, RouteParts, Ends
<1>4. ASSUME NEW r \in LegacyBindings PROVE Right(r)
  BY <1>1, <1>4, RouteParts, Ends DEF LegacyBindings, SubscribeSeg
<1> QED BY <1>2, <1>3, <1>4 DEF RestRouter

LEMMA CancelIsNoTask ==
  ASSUME NEW w, w.path = TenantPath("tasks", <<TasksSeg, <<"cancel">>>>), w.verb = "GET"
  PROVE  HandleRest(w).kind = "http" \/ Unversioned(w)
<1> DEFINE t == <<TasksSeg, IdSeg, <<"cancel">>>>
           p == <<TasksSeg, TasksSeg, <<"cancel">>>>
<1>1. w.path = p
  <2>1. w.path = <<<<"tasks">>>> \o <<TasksSeg, <<"cancel">>>>
    BY DEF TenantPath, NoTenant
  <2>2. <<<<"tasks">>>> \o <<TasksSeg, <<"cancel">>>> = <<<<"tasks">>, TasksSeg, <<"cancel">>>>
    BY JoinedTwo
  <2> QED BY <2>1, <2>2 DEF TasksSeg
<1>2. TasksSeg \in Literal /\ <<"cancel">> \in Literal
  BY DEF Literal
<1>3. Fits(t, p)
  BY <1>2, FitsEach, AtEach, LiteralsAreFixed
<1>4. t[1] # TenantSeg /\ EndOf(t) = <<"cancel">>
  BY <1>2, LiteralsAreFixed, Ends
<1>5. Route(t, "POST", "cancel") \in RestRouter
  BY DEF LegacyBindings, RestRouter
<1> HIDE DEF t, p
<1>6. t \in Matching(p)
  <2>1. Route(t, "POST", "cancel").path = t
    BY RouteParts
  <2>2. t \in {r.path : r \in RestRouter}
    BY <1>5, <2>1, Zenon
  <2> QED BY <1>3, <2>2 DEF Matching
<1>7. RouteOf(p) = t
  BY <1>4, <1>6, RouteIs
<1>8. Handlers(t, "GET") = {}
  <2>1. \A r \in RestRouter : r.path = t => r.verb # "GET"
    BY <1>4, CancelsArePosted
  <2> QED BY <2>1 DEF Handlers
<1> DEFINE route == RouteOf(w.path)
           a == Param(route, w.path, TenantSeg)
           one == Check(~HttpVersionSupported(w), Refuse(UnsupportedVersion))
           two == Check(Handlers(route, w.verb) = {}, Plainly(405))
           next == CallRoute(w, CHOOSE h \in Handlers(route, w.verb) : TRUE,
                             IF a = <<>> THEN NoTenant ELSE a[1][1],
                             Param(route, w.path, IdSeg), Param(route, w.path, ConfigIdSeg))
<1>9. HandleRest(w) = Checked(<<one, two>>, next)
  BY <1>1, <1>6, Zenon DEF HandleRest
<1>10. two = {Plainly(405)} /\ one = IF HttpVersionSupported(w) THEN {} ELSE {Refuse(UnsupportedVersion)}
  <2>1. Handlers(route, w.verb) = {}
    BY <1>1, <1>7, <1>8
  <2> QED BY <2>1, Zenon DEF Check
<1> HIDE DEF one, two, next
<1>11. Checked(<<one, two>>, next) \in one \union two
  <2>1. DOMAIN <<one, two>> = 1 .. 2 /\ <<one, two>>[1] = one /\ <<one, two>>[2] = two
        /\ 2 \in Nat /\ 2 \in 1 .. 2 /\ \A i \in 1 .. 2 : i = 1 \/ i = 2
    OBVIOUS
  <2>2. \/ \A i \in 1 .. 2 : <<one, two>>[i] = {}
        \/ \E i \in 1 .. 2 : Checked(<<one, two>>, next) \in <<one, two>>[i]
    BY <2>1, CheckedGives
  <2> QED BY <1>10, <2>1, <2>2
<1> QED BY <1>9, <1>10, <1>11, PlainlyKind DEF Unversioned

LEMMA ArrivesTwo ==
  ASSUME NEW method \in {"GetTask", "CancelTask", "SubscribeToTask"}, NEW S, NEW x \in Seq(S),
         NEW tenant, ~Misaddressed(method, <<x>>, tenant), NEW versions
  PROVE  Reaches(RestRequest(method, RestPath(method, <<x>>), <<x>>, tenant, versions), method, <<x>>, tenant)
<1> DEFINE ids == <<x>>
           y == CASE method = "GetTask" -> x [] method = "CancelTask" -> Append(x, ":cancel")
                  [] method = "SubscribeToTask" -> Append(x, ":subscribe")
           h == IF method = "CancelTask" THEN "action" ELSE "task"
           w == RestRequest(method, RestPath(method, ids), ids, tenant, versions)
           u == Under(tenant)
           t == TenantOf(tenant)
<1>1. /\ <<tenant>> \notin Dots /\ x \notin Dots
      /\ tenant = "tasks" => x \notin {SubscribeSeg, ConfigsSeg, OldConfigsSeg}
      /\ method = "GetTask" => ~StripSuffix(x, ":subscribe")
  <2>1. ids[1] = x /\ x \in Range(ids)
    <3>1. ids[1] = x /\ 1 \in DOMAIN ids
      OBVIOUS
    <3> QED BY <3>1, Zenon DEF Range
  <2> HIDE DEF ids
  <2>2. ~Misaddressed(method, ids, tenant)
    BY DEF ids
  <2> QED BY <2>1, <2>2 DEF Misaddressed
<1>2. RestPath(method, ids) = <<TasksSeg, y>>
  <2>1. ids[1] = x
    OBVIOUS
  <2> HIDE DEF ids
  <2> QED BY <2>1, Paths
<1>3. y \notin Dots /\ (method # "GetTask" => y \notin {ConfigsSeg, OldConfigsSeg, <<"cancel">>, SubscribeSeg})
  BY <1>1, SuffixesHaveNoDots
<1>4. u \in {<<>>, <<TenantSeg>>}
  BY UnderWhich
<1>5. Route(u \o <<TasksSeg, IdSeg>>, RestVerb(method), h) \in RestRouter
  <2> HIDE DEF u
  <2> QED BY <1>4, RouteMembers, Verbs
<1>6. /\ w.verb = RestVerb(method) /\ w.path = ResolveDots(TenantPath(tenant, <<TasksSeg, y>>))
      /\ w.query = "ok"
      /\ RestVerb(method) = "POST" => w.body = "good" /\ w.tenant = t
  <2> HIDE DEF y, ids, t
  <2> QED BY <1>2, RestParts DEF t
<1>7. /\ method = "GetTask" => y = x
      /\ method = "CancelTask" => y = Append(x, ":cancel")
      /\ method = "SubscribeToTask" => y = Append(x, ":subscribe")
  OBVIOUS
<1> HIDE DEF w, y
<1>8. CallRoute(w, h, t, <<y>>, <<>>) = Give(method, ids, t)
  <2> DEFINE id == <<y>>
             none == <<>>
  <2>1. id[1] = y
    OBVIOUS
  <2> HIDE DEF id, t, none
  <2>2. CASE method = "GetTask"
    <3>1. y = x /\ ~StripSuffix(y, ":subscribe")
      BY <1>1, <1>7, <2>2
    <3>2. ~StripSuffix(id[1], ":subscribe") /\ w.query = "ok"
      BY <1>6, <2>1, <3>1
    <3>3. CallRoute(w, "task", t, id, none) = Give("GetTask", <<id[1]>>, t)
      BY <3>2, HandlesQuery, Zenon
    <3> QED BY <2>1, <2>2, <3>1, <3>3 DEF id, none
  <2>3. CASE method = "SubscribeToTask"
    <3>1. y = Append(x, ":subscribe")
      BY <1>7, <2>3
    <3>2. StripSuffix(y, ":subscribe") /\ Front(y) = x
      BY <3>1, Suffixed DEF StripSuffix
    <3>3. StripSuffix(id[1], ":subscribe") /\ w.query = "ok"
      BY <1>6, <2>1, <3>2
    <3>4. CallRoute(w, "task", t, id, none) = Give("SubscribeToTask", <<Front(id[1])>>, t)
      BY <3>3, HandlesQuery, Zenon
    <3> QED BY <2>1, <2>3, <3>2, <3>4 DEF id, none
  <2>4. CASE method = "CancelTask"
    <3>1. y = Append(x, ":cancel")
      BY <1>7, <2>4
    <3>2. StripSuffix(y, ":cancel") /\ Front(y) = x
      BY <3>1, Suffixed DEF StripSuffix
    <3>3. w.body = "good" /\ w.tenant = t
      BY <1>6, <2>4, Verbs
    <3>4. CallRoute(w, "action", t, id, none) = Give("CancelTask", <<Front(id[1])>>, t)
      BY <2>1, <3>2, <3>3, HandlesCancel, Zenon
    <3> QED BY <2>1, <2>4, <3>2, <3>4 DEF id, none
  <2> QED BY <2>2, <2>3, <2>4
<1> HIDE DEF h
<1>9. w.path = TenantPath(tenant, <<TasksSeg, y>>)
  <2> DEFINE U == {TasksSeg, y, <<tenant>>}
             q == <<TasksSeg, y>>
  <2>1. q \in Seq(U) /\ <<tenant>> \in U /\ \A i \in 1 .. Len(q) : q[i] \notin Dots
    <3>1. Len(q) = 2 /\ q[1] = TasksSeg /\ q[2] = y /\ q \in Seq(U) /\ \A i \in 1 .. 2 : i = 1 \/ i = 2
      OBVIOUS
    <3> QED BY <1>3, <3>1, LiteralsHaveNoDots
  <2> HIDE DEF U, q
  <2>2. ResolveDots(TenantPath(tenant, q)) = TenantPath(tenant, q)
    BY <1>1, <2>1, WithoutDots
  <2> QED BY <1>6, <2>2 DEF q
<1>10. CASE tenant = "tasks" => y # <<"cancel">>
  <2>1. tenant = "tasks" => y \notin {ConfigsSeg, OldConfigsSeg, <<"cancel">>, SubscribeSeg}
    BY <1>1, <1>3, <1>7, <1>10
  <2>2. HandleRest(w) = Plainly(404) \/ Unversioned(w) \/ Called(w, h, tenant, <<y>>, <<>>)
    BY <1>5, <1>6, <1>9, <2>1, AddressedTwo
  <2>3. Reaches(w, method, ids, tenant)
    BY <1>8, <2>2, PlainlyKind DEF Reaches, Called
  <2> QED BY <2>3 DEF w
<1>11. CASE tenant = "tasks" /\ y = <<"cancel">>
  <2>1. method = "GetTask"
    BY <1>3, <1>11
  <2>2. w.verb = "GET" /\ w.path = TenantPath("tasks", <<TasksSeg, <<"cancel">>>>)
    BY <1>6, <1>9, <1>11, <2>1, Verbs
  <2>3. Reaches(w, method, ids, tenant)
    BY <2>2, CancelIsNoTask DEF Reaches
  <2> QED BY <2>3 DEF w
<1> QED BY <1>10, <1>11

LEMMA ArrivesThree ==
  ASSUME NEW method \in {"CreatePushConfig", "ListPushConfigs"}, NEW x,
         NEW tenant, ~Misaddressed(method, <<x>>, tenant), NEW versions
  PROVE  Reaches(RestRequest(method, RestPath(method, <<x>>), <<x>>, tenant, versions), method, <<x>>, tenant)
<1> DEFINE ids == <<x>>
           h == IF method = "CreatePushConfig" THEN "createConfig" ELSE "listConfigs"
           q == <<TasksSeg, x, ConfigsSeg>>
           w == RestRequest(method, RestPath(method, ids), ids, tenant, versions)
           u == Under(tenant)
           t == TenantOf(tenant)
<1>1. ids[1] = x /\ x \in Range(ids)
  <2>1. ids[1] = x /\ 1 \in DOMAIN ids
    OBVIOUS
  <2> QED BY <2>1, Zenon DEF Range
<1> HIDE DEF ids
<1>2. <<tenant>> \notin Dots /\ x \notin Dots /\ (tenant = "tasks" => x \notin {ConfigsSeg, OldConfigsSeg})
  <2>1. ~Misaddressed(method, ids, tenant)
    BY DEF ids
  <2> QED BY <1>1, <2>1 DEF Misaddressed
<1>3. RestPath(method, ids) = q
  BY <1>1, Paths
<1>4. u \in {<<>>, <<TenantSeg>>}
  BY UnderWhich
<1>5. Route(u \o <<TasksSeg, IdSeg, ConfigsSeg>>, RestVerb(method), h) \in RestRouter
  <2> HIDE DEF u
  <2> QED BY <1>4, RouteMembers, Verbs
<1>6. /\ w.verb = RestVerb(method) /\ w.path = ResolveDots(TenantPath(tenant, q))
      /\ w.query = "ok"
      /\ RestVerb(method) = "POST" => w.body = "good" /\ w.tenant = t
      /\ w.task = IF method = "CreatePushConfig" THEN ids[1] ELSE <<>>
  <2> HIDE DEF t, q
  <2> QED BY <1>3, RestParts DEF t
<1> HIDE DEF w
<1>7. CallRoute(w, h, t, <<x>>, <<>>) = Give(method, ids, t)
  <2> DEFINE none == <<>>
  <2> HIDE DEF t, none
  <2>1. CASE method = "CreatePushConfig"
    <3>1. w.body = "good" /\ w.tenant = t /\ w.task = ids[1]
      BY <1>6, <2>1, Verbs
    <3>2. CallRoute(w, "createConfig", t, ids, none) = Give("CreatePushConfig", <<ids[1]>>, t)
      BY <3>1, HandlesCreate, Zenon
    <3> QED BY <1>1, <2>1, <3>2 DEF ids, none
  <2>2. CASE method = "ListPushConfigs"
    <3>1. w.query = "ok"
      BY <1>6
    <3>2. CallRoute(w, "listConfigs", t, ids, none) = Give("ListPushConfigs", ids, t)
      BY <3>1, HandlesQuery, Zenon
    <3> QED BY <2>2, <3>2 DEF ids, none
  <2> QED BY <2>1, <2>2
<1> HIDE DEF h
<1>8. w.path = TenantPath(tenant, q)
  <2> DEFINE U == {TasksSeg, x, ConfigsSeg, <<tenant>>}
  <2>1. q \in Seq(U) /\ <<tenant>> \in U /\ \A i \in 1 .. Len(q) : q[i] \notin Dots
    <3>1. /\ Len(q) = 3 /\ q[1] = TasksSeg /\ q[2] = x /\ q[3] = ConfigsSeg /\ q \in Seq(U)
          /\ \A i \in 1 .. 3 : i = 1 \/ i = 2 \/ i = 3
      OBVIOUS
    <3> QED BY <1>2, <3>1, LiteralsHaveNoDots
  <2> HIDE DEF U, q
  <2>2. ResolveDots(TenantPath(tenant, q)) = TenantPath(tenant, q)
    BY <1>2, <2>1, WithoutDots
  <2> QED BY <1>6, <2>2
<1>9. HandleRest(w) = Plainly(404) \/ Unversioned(w) \/ Called(w, h, tenant, <<x>>, <<>>)
  BY <1>2, <1>5, <1>6, <1>8, AddressedThree
<1>10. Reaches(w, method, ids, tenant)
  BY <1>7, <1>9, PlainlyKind DEF Reaches, Called
<1> QED BY <1>10 DEF w, ids

LEMMA ArrivesFour ==
  ASSUME NEW method \in {"GetPushConfig", "DeletePushConfig"}, NEW x, NEW y,
         NEW tenant, ~Misaddressed(method, <<x, y>>, tenant), NEW versions
  PROVE  Reaches(RestRequest(method, RestPath(method, <<x, y>>), <<x, y>>, tenant, versions),
               method, <<x, y>>, tenant)
<1> DEFINE ids == <<x, y>>
           h == IF method = "GetPushConfig" THEN "getConfig" ELSE "deleteConfig"
           q == <<TasksSeg, x, ConfigsSeg, y>>
           w == RestRequest(method, RestPath(method, ids), ids, tenant, versions)
           u == Under(tenant)
           t == TenantOf(tenant)
<1>1. ids[1] = x /\ ids[2] = y /\ x \in Range(ids) /\ y \in Range(ids)
  <2>1. ids[1] = x /\ ids[2] = y /\ 1 \in DOMAIN ids /\ 2 \in DOMAIN ids
    OBVIOUS
  <2> QED BY <2>1, Zenon DEF Range
<1> HIDE DEF ids
<1>2. <<tenant>> \notin Dots /\ x \notin Dots /\ y \notin Dots
  <2>1. ~Misaddressed(method, ids, tenant)
    BY DEF ids
  <2> QED BY <1>1, <2>1 DEF Misaddressed
<1>3. RestPath(method, ids) = q
  BY <1>1, Paths
<1>4. u \in {<<>>, <<TenantSeg>>}
  BY UnderWhich
<1>5. Route(u \o <<TasksSeg, IdSeg, ConfigsSeg, ConfigIdSeg>>, RestVerb(method), h) \in RestRouter
  <2> HIDE DEF u
  <2> QED BY <1>4, RouteMembers, Verbs
<1>6. w.verb = RestVerb(method) /\ w.path = ResolveDots(TenantPath(tenant, q))
  <2> HIDE DEF q
  <2> QED BY <1>3, RestParts
<1> HIDE DEF w
<1>7. CallRoute(w, h, t, <<x>>, <<y>>) = Give(method, ids, t)
  <2> HIDE DEF t
  <2>1. /\ CallRoute(w, "getConfig", t, <<x>>, <<y>>) = Give("GetPushConfig", ids, t)
        /\ CallRoute(w, "deleteConfig", t, <<x>>, <<y>>) = Give("DeletePushConfig", ids, t)
    BY HandlesConfig DEF ids
  <2> QED BY <2>1
<1> HIDE DEF h
<1>8. w.path = TenantPath(tenant, q)
  <2> DEFINE U == {TasksSeg, x, ConfigsSeg, y, <<tenant>>}
  <2>1. q \in Seq(U) /\ <<tenant>> \in U /\ \A i \in 1 .. Len(q) : q[i] \notin Dots
    <3>1. /\ Len(q) = 4 /\ q[1] = TasksSeg /\ q[2] = x /\ q[3] = ConfigsSeg /\ q[4] = y
          /\ q \in Seq(U) /\ \A i \in 1 .. 4 : i = 1 \/ i = 2 \/ i = 3 \/ i = 4
      OBVIOUS
    <3> QED BY <1>2, <3>1, LiteralsHaveNoDots
  <2> HIDE DEF U, q
  <2>2. ResolveDots(TenantPath(tenant, q)) = TenantPath(tenant, q)
    BY <1>2, <2>1, WithoutDots
  <2> QED BY <1>6, <2>2
<1>9. HandleRest(w) = Plainly(404) \/ Unversioned(w) \/ Called(w, h, tenant, <<x>>, <<y>>)
  BY <1>5, <1>6, <1>8, AddressedFour
<1>10. Reaches(w, method, ids, tenant)
  BY <1>7, <1>9, PlainlyKind DEF Reaches, Called
<1> QED BY <1>10 DEF w, ids

(* How many ids the operations have.                                       *)
LEMMA Counts ==
  ASSUME NEW method \in DOMAIN RpcName
  PROVE  \/ /\ method \in {"SendMessage", "SendStreamingMessage", "ListTasks", "GetExtendedAgentCard"}
            /\ IdCount(method) = 0
         \/ method \in {"GetTask", "CancelTask", "SubscribeToTask"} /\ IdCount(method) = 1
         \/ method \in {"CreatePushConfig", "ListPushConfigs"} /\ IdCount(method) = 1
         \/ method \in {"GetPushConfig", "DeletePushConfig"} /\ IdCount(method) = 2
BY DEF RpcName, IdCount

(* A request over REST that can be addressed reaches its operation, with   *)
(* its ids and its tenant, or none.                                        *)
LEMMA RestArrives ==
  ASSUME NEW method \in DOMAIN RpcName, NEW S, NEW ids \in Seq(Seq(S)), Len(ids) = IdCount(method),
         NEW tenant, ~Misaddressed(method, ids, tenant), NEW versions
  PROVE  Reaches(RestRequest(method, RestPath(method, ids), ids, tenant, versions), method, ids, tenant)
<1> DEFINE Right == Reaches(RestRequest(method, RestPath(method, ids), ids, tenant, versions),
                          method, ids, tenant)
<1>1. ASSUME IdCount(method) = 0,
             method \in {"SendMessage", "SendStreamingMessage", "ListTasks", "GetExtendedAgentCard"}
      PROVE  Right
  <2>1. ids = <<>>
    BY <1>1
  <2> QED BY <1>1, <2>1, ArrivesOne
<1>2. ASSUME IdCount(method) = 1, method \in {"GetTask", "CancelTask", "SubscribeToTask"} PROVE Right
  <2>1. PICK x \in Seq(S) : ids = <<x>>
    <3>1. Len(ids) = 1
      BY <1>2
    <3>2. ids = <<ids[1]>>
      BY <3>1
    <3>3. ids[1] \in Seq(S)
      <4>1. 1 \in 1 .. Len(ids)
        BY <3>1
      <4> QED BY <4>1, ElementOfSeq
    <3> QED BY <3>2, <3>3
  <2> QED BY <1>2, <2>1, ArrivesTwo
<1>3. ASSUME IdCount(method) = 1, method \in {"CreatePushConfig", "ListPushConfigs"} PROVE Right
  <2>1. PICK x : ids = <<x>>
    <3>1. ids = <<ids[1]>>
      BY <1>3
    <3> QED BY <3>1
  <2> QED BY <1>3, <2>1, ArrivesThree
<1>4. ASSUME IdCount(method) = 2, method \in {"GetPushConfig", "DeletePushConfig"} PROVE Right
  <2>1. PICK x, y : ids = <<x, y>>
    <3>1. ids = <<ids[1], ids[2]>>
      BY <1>4
    <3> QED BY <3>1
  <2> QED BY <1>4, <2>1, ArrivesFour
<1> QED BY <1>1, <1>2, <1>3, <1>4, Counts

(* The older path of a subscription is not of a tenant's.                  *)
LEMMA LegacyArrives ==
  ASSUME NEW x, NEW tenant, ~Misaddressed("SubscribeToTask", <<x>>, tenant), NEW versions,
         NEW w, w = RestRequest("SubscribeToTask", LegacySubscribePath(<<x>>), <<x>>, tenant, versions)
  PROVE  \/ HandleRest(w).kind = "http" \/ Unversioned(w)
         \/ /\ HandleRest(w) = Give("SubscribeToTask", <<x>>, NoTenant) /\ HttpVersionSupported(w)
            /\ ~HasTenant(tenant)
<1> DEFINE ids == <<x>>
           q == <<TasksSeg, x, SubscribeSeg>>
           p == <<<<tenant>>, TasksSeg, x, SubscribeSeg>>
           t == <<TasksSeg, IdSeg, SubscribeSeg>>
<1>1. ids[1] = x /\ x \in Range(ids)
  <2>1. ids[1] = x /\ 1 \in DOMAIN ids
    OBVIOUS
  <2> QED BY <2>1, Zenon DEF Range
<1>2. LegacySubscribePath(ids) = q
  BY DEF LegacySubscribePath, SubscribeSeg
<1> HIDE DEF ids, q
<1>3. <<tenant>> \notin Dots /\ x \notin Dots /\ (tenant = "tasks" => x \notin {ConfigsSeg, OldConfigsSeg})
  <2>1. ~Misaddressed("SubscribeToTask", ids, tenant)
    BY DEF ids
  <2> QED BY <1>1, <2>1 DEF Misaddressed
<1>4. w.verb = "GET" /\ w.path = ResolveDots(TenantPath(tenant, q))
  <2>1. w = RestRequest("SubscribeToTask", q, ids, tenant, versions)
    BY <1>2 DEF ids
  <2> QED BY <2>1, RestParts, Verbs
<1>5. w.path = TenantPath(tenant, q)
  <2> DEFINE U == {TasksSeg, x, SubscribeSeg, <<tenant>>}
  <2>1. q \in Seq(U) /\ <<tenant>> \in U /\ \A i \in 1 .. Len(q) : q[i] \notin Dots
    <3>1. /\ Len(q) = 3 /\ q[1] = TasksSeg /\ q[2] = x /\ q[3] = SubscribeSeg /\ q \in Seq(U)
          /\ \A i \in 1 .. 3 : i = 1 \/ i = 2 \/ i = 3
      BY DEF q
    <3> QED BY <1>3, <3>1, LiteralsHaveNoDots
  <2> HIDE DEF U
  <2>2. ResolveDots(TenantPath(tenant, q)) = TenantPath(tenant, q)
    BY <1>3, <2>1, WithoutDots
  <2> QED BY <1>4, <2>2
<1>6. CASE HasTenant(tenant)
  <2>1. w.path = p
    <3>1. w.path = <<<<tenant>>>> \o <<TasksSeg, x, SubscribeSeg>>
      BY <1>5, <1>6 DEF TenantPath, HasTenant, q
    <3> QED BY <3>1, JoinedThree
  <2>2. Len(p) = 4 /\ p[1] = <<tenant>> /\ p[3] = x /\ p[4] = SubscribeSeg
    OBVIOUS
  <2>3. <<tenant>> = TasksSeg => tenant = "tasks"
    BY DEF TasksSeg
  <2>4. ConfigsSeg # SubscribeSeg /\ ConfigsSeg \in Literal
    BY DEF ConfigsSeg, SubscribeSeg, Literal
  <2> HIDE DEF p
  <2>5. ASSUME NEW u \in Matching(p), u[1] # TenantSeg PROVE FALSE
    BY <1>3, <2>2, <2>3, <2>5, LiteralMatches
  <2>6. ASSUME NEW u \in Matching(p), u[1] = TenantSeg PROVE FALSE
    <3>1. u = TenantRoute(p) /\ Fits(u, p)
      BY <2>6, MatchingShape, LiteralsAreFixed
    <3>2. u = <<TenantSeg, TasksSeg, IdSeg, ConfigsSeg>>
      BY <2>2, <3>1 DEF TenantRoute
    <3>3. At(ConfigsSeg, p[4])
      BY <3>1, <3>2, FitsEach
    <3> QED BY <2>2, <2>4, <3>3, AtEach
  <2>7. Matching(p) = {}
    BY <2>5, <2>6
  <2>8. HandleRest(w) = Plainly(404)
    BY <2>1, <2>7, Zenon DEF HandleRest
  <2> QED BY <2>8, PlainlyKind
<1>7. CASE ~HasTenant(tenant)
  <2>1. w.path = q
    BY <1>5, <1>7 DEF TenantPath, HasTenant
  <2>2. Len(q) = 3 /\ q[1] = TasksSeg /\ q[2] = x /\ q[3] = SubscribeSeg /\ 2 \in 1 .. 3
    BY DEF q
  <2>3. CASE x = <<>>
    BY <2>1, <2>2, <2>3, Unmatched, PlainlyKind
  <2>4. CASE x # <<>>
    <3>1. TasksSeg \in Literal /\ SubscribeSeg \in Literal
      BY DEF Literal
    <3>2. Fits(t, q)
      BY <2>2, <2>4, <3>1, FitsEach, AtEach
    <3>3. t[1] # TenantSeg
      BY <3>1, LiteralsAreFixed
    <3>4. Param(t, q, IdSeg) = <<x>>
      <4>1. TasksSeg # IdSeg /\ SubscribeSeg # IdSeg
        BY DEF TasksSeg, SubscribeSeg, IdSeg
      <4>2. /\ DOMAIN t = 1 .. 3 /\ t[1] = TasksSeg /\ t[2] = IdSeg /\ t[3] = SubscribeSeg
            /\ \A i \in 1 .. 3 : i = 1 \/ i = 2 \/ i = 3
        OBVIOUS
      <4> HIDE DEF t
      <4>3. 2 \in DOMAIN t /\ t[2] = IdSeg /\ \A j \in DOMAIN t : t[j] = IdSeg => j = 2
        BY <4>1, <4>2
      <4>4. Param(t, q, IdSeg) = <<q[2]>>
        BY <4>3, ParamAt
      <4> QED BY <2>2, <4>4
    <3> DEFINE r == Route(t, "GET", "subscribe")
    <3>5. r \in RestRouter
      BY Zenon DEF RestRouter, LegacyBindings, SubscribeSeg
    <3>6. r.path = t /\ r.verb = "GET" /\ r.handler = "subscribe"
      <4> HIDE DEF t
      <4> QED BY RouteParts
    <3> HIDE DEF r, t
    <3>7. OnlyHandler(r)
      BY <3>5, OneHandler
    <3>8. Unversioned(w) \/ (HandleRest(w) = Handled(w, r) /\ HttpVersionSupported(w))
      BY <1>4, <2>1, <3>2, <3>3, <3>5, <3>6, <3>7, RestAnswers DEF Unversioned
    <3>9. Handled(w, r) = Give("SubscribeToTask", <<x>>, NoTenant)
      <4>1. Param(r.path, w.path, IdSeg) = <<x>>
        BY <2>1, <3>4, <3>6
      <4>2. \A a, c : CallRoute(w, r.handler, a, <<x>>, c) = Give("SubscribeToTask", <<x>>, NoTenant)
        BY <3>6, HandlesCard
      <4> QED BY <4>1, <4>2, Zenon DEF Handled
    <3> QED BY <1>7, <3>8, <3>9
  <2> QED BY <2>3, <2>4
<1> QED BY <1>6, <1>7

-----------------------------------------------------------------------------
(* Who refuses a version: no handler does.                                 *)

Sensible(a) ==
  \/ a.kind \in {"http", "give"}
  \/ \E e : a = Refuse(e) /\ e.code \in {"INVALID_PARAMS", "INVALID_REQUEST"}

LEMMA SensibleAnswers ==
  /\ \A status : Sensible(Plainly(status))
  /\ \A method, ids, tenant : Sensible(Give(method, ids, tenant))
  /\ Sensible(InvalidBody)
  /\ \A details, missing : Sensible(Refuse(Error("INVALID_PARAMS", details, missing)))
  /\ \A details, missing : Sensible(Refuse(Error("INVALID_REQUEST", details, missing)))
<1>1. \A status : Sensible(Plainly(status))
  BY DEF Sensible, Plainly
<1>2. \A method, ids, tenant : Sensible(Give(method, ids, tenant))
  BY DEF Sensible, Give
<1>3. \A details, missing : Sensible(Refuse(Error("INVALID_PARAMS", details, missing)))
  BY DEF Sensible, Error
<1>4. \A details, missing : Sensible(Refuse(Error("INVALID_REQUEST", details, missing)))
  BY DEF Sensible, Error
<1> QED BY <1>1, <1>2, <1>3, <1>4, Zenon DEF InvalidBody

LEMMA SensibleChecks ==
  ASSUME NEW next, Sensible(next), NEW one, \A x \in one : Sensible(x),
         NEW two, \A x \in two : Sensible(x)
  PROVE  Sensible(Checked(<<one>>, next)) /\ Sensible(Checked(<<one, two>>, next))
<1>1. (\A x \in one : Sensible(x)) /\ (\A x \in two : Sensible(x))
  OBVIOUS
<1>2. Sensible(Checked(<<one>>, next))
  <2>1. DOMAIN <<one>> = 1 .. 1 /\ <<one>>[1] = one /\ 1 \in Nat /\ \A i \in 1 .. 1 : i = 1
    OBVIOUS
  <2>2. Checked(<<one>>, next) = next \/ \E i \in 1 .. 1 : Checked(<<one>>, next) \in <<one>>[i]
    BY <2>1, CheckedGives
  <2> QED BY <1>1, <2>1, <2>2
<1>3. Sensible(Checked(<<one, two>>, next))
  <2>1. DOMAIN <<one, two>> = 1 .. 2 /\ <<one, two>>[1] = one /\ <<one, two>>[2] = two
        /\ 2 \in Nat /\ \A i \in 1 .. 2 : i = 1 \/ i = 2
    OBVIOUS
  <2>2. \/ Checked(<<one, two>>, next) = next
        \/ \E i \in 1 .. 2 : Checked(<<one, two>>, next) \in <<one, two>>[i]
    BY <2>1, CheckedGives
  <2> QED BY <1>1, <2>1, <2>2
<1> QED BY <1>2, <1>3

HandlerNames ==
  {"send", "stream", "task", "action", "cancel", "subscribe", "list", "createConfig", "listConfigs",
   "getConfig", "deleteConfig", "card"}

LEMMA HandlerIsNamed == \A r \in RestRouter : r.handler \in HandlerNames
<1>1. ASSUME NEW r \in Bindings(<<>>) PROVE r.handler \in HandlerNames
  BY <1>1, PlainBindings, RouteParts DEF HandlerNames
<1>2. ASSUME NEW r \in Bindings(<<TenantSeg>>) PROVE r.handler \in HandlerNames
  BY <1>2, TenantBindings, RouteParts DEF HandlerNames
<1>3. ASSUME NEW r \in LegacyBindings PROVE r.handler \in HandlerNames
  BY <1>3, RouteParts DEF LegacyBindings, HandlerNames
<1> QED BY <1>1, <1>2, <1>3 DEF RestRouter

LEMMA SensibleRoutes ==
  ASSUME NEW w, NEW h \in HandlerNames, NEW tenant, NEW id, NEW config
  PROVE  Sensible(CallRoute(w, h, tenant, id, config))
<1>1. \A method, ids, t : Sensible(GiveReconciled(w, method, ids, t))
  BY SensibleAnswers DEF GiveReconciled
<1> DEFINE large == Check(w.body = "large", Plainly(413))
           bad == Check(w.body # "good", InvalidBody)
           wrong == Check(w.body = "bad", InvalidBody)
<1>2. /\ \A x \in large : Sensible(x)
      /\ \A x \in bad : Sensible(x)
      /\ \A x \in wrong : Sensible(x)
  BY SensibleAnswers DEF Check
<1>3. /\ \A next : JsonBody(w, next) = Checked(<<large, bad>>, next)
      /\ \A x, t : CancelTaskInner(w, x, t) =
           Checked(<<large, wrong>>, GiveReconciled(w, "CancelTask", <<x>>, t))
  BY Zenon DEF JsonBody, CancelTaskInner
<1>4. PostTaskAction(w, id[1], tenant) =
        CASE StripSuffix(id[1], ":cancel") -> CancelTaskInner(w, Front(id[1]), tenant)
          [] StripSuffix(id[1], ":subscribe") ->
               Checked(<<large>>, Give("SubscribeToTask", <<Front(id[1])>>, tenant))
          [] OTHER -> Checked(<<large>>, Refuse(Error("INVALID_REQUEST", {}, FALSE)))
  BY DEF PostTaskAction
<1> HIDE DEF large, bad, wrong
<1>5. \A next : Sensible(next) => Sensible(JsonBody(w, next))
  BY <1>2, <1>3, SensibleChecks
<1>6. \A next : Sensible(next) => Sensible(QueryOk(w, next))
  BY SensibleAnswers DEF QueryOk
<1>7. \A method : Sensible(SendTo(w, method, tenant))
  BY <1>1, <1>5, Zenon DEF SendTo
<1>8. Sensible(GetTaskOrSubscribe(w, id[1], tenant))
  BY <1>6, SensibleAnswers DEF GetTaskOrSubscribe
<1>9. \A x, t : Sensible(CancelTaskInner(w, x, t))
  BY <1>2, <1>3, <1>1, SensibleChecks
<1>10. Sensible(PostTaskAction(w, id[1], tenant))
  <2>1. \A next : Sensible(next) => Sensible(Checked(<<large>>, next))
    BY <1>2, SensibleChecks
  <2> QED BY <1>4, <1>9, <2>1, SensibleAnswers
<1>11. Sensible(CreateConfig(w, id[1], tenant))
  BY <1>1, <1>5, SensibleAnswers DEF CreateConfig, ParseCreatePushConfigRequest
<1> DEFINE a == CallRoute(w, h, tenant, id, config)
<1>12. \/ a = SendTo(w, "SendMessage", tenant) \/ a = SendTo(w, "SendStreamingMessage", tenant)
      \/ a = GetTaskOrSubscribe(w, id[1], tenant) \/ a = PostTaskAction(w, id[1], tenant)
      \/ a = CancelTaskInner(w, id[1], NoTenant) \/ a = CreateConfig(w, id[1], tenant)
      \/ a = QueryOk(w, IF w.query = "status" THEN Refuse(Error("INVALID_PARAMS", {}, FALSE))
                        ELSE Give("ListTasks", <<>>, tenant))
      \/ a = QueryOk(w, Give("ListPushConfigs", id, tenant))
      \/ \E method, ids, t : a = Give(method, ids, t)
  BY DEF CallRoute, HandlerNames
<1> HIDE DEF a
<1>13. Sensible(a)
  BY <1>6, <1>7, <1>8, <1>9, <1>10, <1>11, <1>12, SensibleAnswers
<1> QED BY <1>13 DEF a

LEMMA RestRefusals ==
  ASSUME NEW w
  PROVE  \/ HandleRest(w).kind = "http" \/ Unversioned(w)
         \/ HttpVersionSupported(w) /\ Sensible(HandleRest(w))
<1>1. CASE Matching(w.path) = {}
  <2>1. HandleRest(w) = Plainly(404)
    BY <1>1, Zenon DEF HandleRest
  <2> QED BY <2>1, PlainlyKind
<1>2. CASE Matching(w.path) # {}
  <2> DEFINE route == RouteOf(w.path)
             a == Param(route, w.path, TenantSeg)
             h == CHOOSE h \in Handlers(route, w.verb) : TRUE
             one == Check(~HttpVersionSupported(w), Refuse(UnsupportedVersion))
             two == Check(Handlers(route, w.verb) = {}, Plainly(405))
             next == CallRoute(w, h, IF a = <<>> THEN NoTenant ELSE a[1][1],
                               Param(route, w.path, IdSeg), Param(route, w.path, ConfigIdSeg))
  <2>1. HandleRest(w) = Checked(<<one, two>>, next)
    BY <1>2, Zenon DEF HandleRest
  <2>2. two # {} \/ Sensible(next)
    <3>1. CASE Handlers(route, w.verb) = {}
      BY <3>1 DEF Check
    <3>2. CASE Handlers(route, w.verb) # {}
      <4>1. h \in Handlers(route, w.verb)
        BY <3>2
      <4>2. h \in HandlerNames
        BY <4>1, HandlerIsNamed DEF Handlers
      <4> QED BY <4>2, SensibleRoutes
    <3> QED BY <3>1, <3>2
  <2>3. /\ \A x \in two : x = Plainly(405)
        /\ one = IF HttpVersionSupported(w) THEN {} ELSE {Refuse(UnsupportedVersion)}
    BY Zenon DEF Check
  <2> HIDE DEF one, two, next
  <2>4. \/ Checked(<<one, two>>, next) = next /\ one = {} /\ two = {}
        \/ Checked(<<one, two>>, next) \in one
        \/ Checked(<<one, two>>, next) \in two /\ one = {}
        \/ Checked(<<one, two>>, next) \in two /\ one # {}
    <3>1. DOMAIN <<one, two>> = 1 .. 2 /\ <<one, two>>[1] = one /\ <<one, two>>[2] = two
          /\ 2 \in Nat /\ 1 \in 1 .. 2 /\ 2 \in 1 .. 2 /\ \A i \in 1 .. 2 : i = 1 \/ i = 2
      OBVIOUS
    <3>2. \/ /\ Checked(<<one, two>>, next) = next
             /\ \A i \in 1 .. 2 : <<one, two>>[i] = {}
          \/ \E i \in 1 .. 2 : Checked(<<one, two>>, next) \in <<one, two>>[i]
      BY <3>1, CheckedGives
    <3> QED BY <3>1, <3>2
  <2> QED BY <2>1, <2>2, <2>3, <2>4, SensibleAnswers, PlainlyKind DEF Unversioned
<1> QED BY <1>1, <1>2

-----------------------------------------------------------------------------
(* The bindings on which the name decides.                                 *)

Speaks(versions) == VersionSupported(ExtractServiceParams(VersionHeaders(versions)))

LEMMA HttpSpeaks ==
  ASSUME NEW w, NEW versions, w.headers = VersionHeaders(versions), w.queryVersion = <<>>
  PROVE  HttpVersionSupported(w) <=> Speaks(versions)
BY DEF HttpVersionSupported, AddQueryVersion, Speaks

LEMMA NamesAreServed ==
  ASSUME NEW method \in DOMAIN RpcName
  PROVE  /\ \A w : w.name = RpcName[method] => IsRegistered(w)
         /\ Served(RpcName[method]) = method
         /\ RpcName[method] \notin {"", "missing"}
<1>1. DOMAIN RpcName =
        {"SendMessage", "SendStreamingMessage", "GetTask", "ListTasks", "CancelTask",
         "SubscribeToTask", "CreatePushConfig", "GetPushConfig", "ListPushConfigs",
         "DeletePushConfig", "GetExtendedAgentCard"}
  BY DEF RpcName
<1>2. /\ RpcName["SendMessage"] = "SendMessage"
      /\ RpcName["SendStreamingMessage"] = "SendStreamingMessage"
      /\ RpcName["GetTask"] = "GetTask"
      /\ RpcName["ListTasks"] = "ListTasks"
      /\ RpcName["CancelTask"] = "CancelTask"
      /\ RpcName["SubscribeToTask"] = "SubscribeToTask"
      /\ RpcName["CreatePushConfig"] = "CreateTaskPushNotificationConfig"
      /\ RpcName["GetPushConfig"] = "GetTaskPushNotificationConfig"
      /\ RpcName["ListPushConfigs"] = "ListTaskPushNotificationConfigs"
      /\ RpcName["DeletePushConfig"] = "DeleteTaskPushNotificationConfig"
      /\ RpcName["GetExtendedAgentCard"] = "GetExtendedAgentCard"
  BY DEF RpcName
<1>3. \A m, n \in DOMAIN RpcName : RpcName[m] = RpcName[n] => m = n
  BY <1>1, <1>2
<1>4. \A m \in DOMAIN RpcName : RpcName[m] \notin {"", "missing"}
  BY <1>1, <1>2
<1> QED BY <1>3, <1>4 DEF IsRegistered, Served

LEMMA JsonRpcArrives ==
  ASSUME NEW method \in DOMAIN RpcName, NEW ids, NEW tenant, NEW versions
  PROVE  LET d == HandleJsonRpc(JsonRpcRequest(method, ids, tenant, versions))
         IN  \/ d = Refuse(UnsupportedVersion) /\ ~Speaks(versions)
             \/ d = Give(method, ids, TenantOf(tenant)) /\ Speaks(versions)
<1> DEFINE w == JsonRpcRequest(method, ids, tenant, versions)
           v == HttpVersionSupported(w)
           next == Give(Served(w.name), w.ids, w.tenant)
           one == Check(w.body = "large", Plainly(413))
           two == Check(w.body = "syntax", Refuse(Error("PARSE_ERROR", {}, FALSE)))
           three == Check(w.body = "scalar" \/ ~ValidId(w.id) \/ w.name = "missing", InvalidRequest)
           four == Check(w.rpc # "2.0", InvalidRequest)
           five == Check(~v, Refuse(UnsupportedVersion))
           six == Check(w.name = "", InvalidRequest)
           seven == Check(~IsRegistered(w), Refuse(Error("METHOD_NOT_FOUND", {}, TRUE)))
           eight == Check(w.params = "bad", Refuse(Error("INVALID_PARAMS", {}, FALSE)))
           checks == <<one, two, three, four, five, six, seven, eight>>
<1>1. /\ w.body = "good" /\ w.id = "string" /\ w.rpc = "2.0" /\ w.name = RpcName[method]
      /\ w.params = "good" /\ w.headers = VersionHeaders(versions) /\ w.queryVersion = <<>>
      /\ w.ids = ids /\ w.tenant = TenantOf(tenant)
  BY DEF JsonRpcRequest, TenantOf, HasTenant
<1>2. HandleJsonRpc(w) = Checked(checks, next)
  BY Zenon DEF HandleJsonRpc
<1> HIDE DEF w
<1>3. v <=> Speaks(versions)
  BY <1>1, HttpSpeaks
<1>4. next = Give(method, ids, TenantOf(tenant))
  BY <1>1, NamesAreServed
<1>5. one = {} /\ two = {} /\ three = {} /\ four = {} /\ six = {} /\ seven = {} /\ eight = {}
  <2>1. ValidId(w.id) /\ w.name \notin {"", "missing"} /\ IsRegistered(w)
    BY <1>1, NamesAreServed DEF ValidId
  <2> QED BY <1>1, <2>1 DEF Check
<1>6. v \in BOOLEAN
  BY DEF HttpVersionSupported, VersionSupported
<1> HIDE DEF one, two, three, four, six, seven, eight, v, next
<1>7. (~v /\ Checked(checks, next) = Refuse(UnsupportedVersion)) \/ (v /\ Checked(checks, next) = next)
  <2>1. /\ DOMAIN checks = 1 .. 8 /\ checks[5] = five /\ 5 \in 1 .. 8 /\ 8 \in Nat
        /\ checks[1] = one /\ checks[2] = two /\ checks[3] = three /\ checks[4] = four
        /\ checks[6] = six /\ checks[7] = seven /\ checks[8] = eight
    OBVIOUS
  <2>2. \A i \in 1 .. 8 : i = 1 \/ i = 2 \/ i = 3 \/ i = 4 \/ i = 5 \/ i = 6 \/ i = 7 \/ i = 8
    OBVIOUS
  <2> HIDE DEF checks
  <2>3. \A i \in 1 .. 8 : i # 5 => checks[i] = {}
    BY <1>5, <2>1, <2>2
  <2>4. checks[5] = IF v THEN {} ELSE {Refuse(UnsupportedVersion)}
    BY <2>1 DEF Check
  <2>5. \/ Checked(checks, next) = next /\ \A i \in 1 .. 8 : checks[i] = {}
        \/ \E i \in 1 .. 8 : Checked(checks, next) \in checks[i]
    BY <2>1, CheckedGives
  <2> QED BY <2>1, <2>3, <2>4, <2>5
<1> QED BY <1>2, <1>3, <1>4, <1>7 DEF w

LEMMA GrpcArrives ==
  ASSUME NEW method \in DOMAIN RpcName, NEW ids, NEW tenant, NEW versions
  PROVE  LET d == HandleGrpc(GrpcRequest(method, ids, tenant, versions))
         IN  \/ d = Refuse(UnsupportedVersion) /\ ~Speaks(versions)
             \/ d = Give(method, ids, tenant) /\ Speaks(versions)
<1> DEFINE w == GrpcRequest(method, ids, tenant, versions)
           v == VersionSupported(ExtractServiceParams(w.headers))
           next == Give(Served(w.name), w.ids, w.tenant)
           one == Check(~IsRegistered(w), Plainly("Unimplemented"))
           two == Check(w.body = "bad", Plainly("Internal"))
           three == Check(~v, Refuse(UnsupportedVersion))
           checks == <<one, two, three>>
<1>1. /\ w.body = "good" /\ w.name = RpcName[method] /\ w.headers = VersionHeaders(versions)
      /\ w.ids = ids /\ w.tenant = tenant
  BY DEF GrpcRequest
<1>2. HandleGrpc(w) = Checked(checks, next)
  BY Zenon DEF HandleGrpc
<1> HIDE DEF w
<1>3. v <=> Speaks(versions)
  BY <1>1 DEF Speaks
<1>4. next = Give(method, ids, tenant)
  BY <1>1, NamesAreServed
<1>5. one = {} /\ two = {}
  <2>1. IsRegistered(w)
    BY <1>1, NamesAreServed
  <2> QED BY <1>1, <2>1 DEF Check
<1> HIDE DEF one, two, v, next
<1>6. (~v /\ Checked(checks, next) = Refuse(UnsupportedVersion)) \/ (v /\ Checked(checks, next) = next)
  <2>1. /\ DOMAIN checks = 1 .. 3 /\ checks[1] = one /\ checks[2] = two /\ checks[3] = three
        /\ 3 \in Nat /\ 3 \in 1 .. 3 /\ \A i \in 1 .. 3 : i = 1 \/ i = 2 \/ i = 3
    OBVIOUS
  <2>2. three = IF v THEN {} ELSE {Refuse(UnsupportedVersion)}
    BY DEF Check
  <2> HIDE DEF checks, three
  <2>3. \/ Checked(checks, next) = next /\ \A i \in 1 .. 3 : checks[i] = {}
        \/ \E i \in 1 .. 3 : Checked(checks, next) \in checks[i]
    BY <2>1, CheckedGives
  <2> QED BY <1>5, <2>1, <2>2, <2>3
<1> QED BY <1>2, <1>3, <1>4, <1>6 DEF w

LEMMA SlimArrives ==
  ASSUME NEW method \in DOMAIN RpcName, NEW ids, NEW tenant, NEW versions
  PROVE  HandleSlim(SlimRequest(method, ids, tenant, versions)) = Give(method, ids, tenant)
<1> DEFINE w == SlimRequest(method, ids, tenant, versions)
           next == Give(Served(w.name), w.ids, w.tenant)
           one == Check(~IsRegistered(w), Plainly("Unimplemented"))
           two == Check(w.body = "bad", Plainly("InvalidArgument"))
<1>1. w.body = "good" /\ w.name = RpcName[method] /\ w.ids = ids /\ w.tenant = tenant
  BY DEF SlimRequest
<1>2. HandleSlim(w) = Checked(<<one, two>>, next)
  BY Zenon DEF HandleSlim
<1> HIDE DEF w
<1>3. next = Give(method, ids, tenant)
  BY <1>1, NamesAreServed
<1>4. one = {} /\ two = {}
  <2>1. IsRegistered(w)
    BY <1>1, NamesAreServed
  <2> QED BY <1>1, <2>1 DEF Check
<1> HIDE DEF one, two, next
<1>5. HandleSlim(w) = next
  BY <1>2, <1>4, CheckedPasses
<1> QED BY <1>3, <1>5 DEF w

-----------------------------------------------------------------------------
(* Versions.                                                               *)

LEMMA InOrderOne == InOrder({1}) = [k \in 1 .. 1 |-> 1]
<1> DEFINE Fine(q) == \A j, k \in DOMAIN q : j < k => q[j] < q[k]
<1>1. Cardinality({1}) = 1
  BY FS_Singleton
<1>2. InOrder({1}) = CHOOSE q \in [1 .. 1 -> {1}] : Fine(q)
  BY <1>1 DEF InOrder
<1>3. \E q \in [1 .. 1 -> {1}] : Fine(q)
  <2>1. [k \in 1 .. 1 |-> 1] \in [1 .. 1 -> {1}] /\ Fine([k \in 1 .. 1 |-> 1])
    OBVIOUS
  <2> QED BY <2>1
<1> HIDE DEF Fine
<1>4. InOrder({1}) \in [1 .. 1 -> {1}]
  BY <1>2, <1>3
<1> QED BY <1>4

(* One version sent is the one that is read.                               *)
LEMMA SpeaksOne ==
  ASSUME NEW v PROVE Speaks(<<v>>) <=> v[1] = 1
<1> DEFINE headers == VersionHeaders(<<v>>)
           readable == {i \in DOMAIN headers : headers[i].ascii}
           of(n) == InOrder({i \in readable : headers[i].name = n})
           params0 == [n \in {headers[i].name : i \in readable} |->
                         [k \in DOMAIN of(n) |-> headers[of(n)[k]].value]]
<1>1. /\ DOMAIN headers = {1} /\ headers[1].ascii = TRUE /\ headers[1].name = VersionKey
      /\ headers[1].value = v
  <2>1. DOMAIN <<v>> = {1} /\ <<v>>[1] = v
    OBVIOUS
  <2> QED BY <2>1 DEF VersionHeaders
<1>2. ExtractServiceParams(headers) = params0
  BY Zenon DEF ExtractServiceParams
<1> HIDE DEF headers
<1>3. readable = {1} /\ {i \in readable : headers[i].name = VersionKey} = {1}
      /\ {headers[i].name : i \in readable} = {VersionKey}
  BY <1>1
<1>4. of(VersionKey) = [k \in 1 .. 1 |-> 1]
  BY <1>3, InOrderOne, Zenon
<1>5. /\ VersionKey \in DOMAIN params0
      /\ params0[VersionKey]
           = [k \in DOMAIN of(VersionKey) |-> headers[of(VersionKey)[k]].value]
  BY <1>3
<1> HIDE DEF params0, of, readable
<1>6. params0[VersionKey] = [k \in 1 .. 1 |-> v]
  BY <1>1, <1>4, <1>5
<1>7. Head(params0[VersionKey]) = v
  BY <1>6
<1> QED BY <1>2, <1>5, <1>7 DEF Speaks, VersionSupported, headers

=============================================================================
