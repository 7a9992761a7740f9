----------------------- MODULE ExporterProcessProofs -----------------------
(***************************************************************************)
(* What holds of one exporter process whatever Vault and the provider      *)
(* answer: what it knows when it starts, what a response of its health     *)
(* collector counts, what one of its bucket collector adds up, and how the *)
(* retries of the start back off.                                          *)
(***************************************************************************)
EXTENDS ExporterProcess, FiniteSetTheorems, WellFoundedInduction, TLAPS

-----------------------------------------------------------------------------
(* The start *)

\* A Vault read gives all of its credentials or none.
ReadsAreWhole ==
    \A i \in DOMAIN Reads(conf.provider) :
        \/ Reads(conf.provider)[i] \cap DOMAIN credentials = {}
        \/ Reads(conf.provider)[i] \subseteq DOMAIN credentials

StartsComplete ==
    phase \in {"start", "running"} => HasCredentials(conf.provider) /\ Left = {}

\* The project and the service account come together.
OneAccount ==
    /\ "GcpProjectID" \in DOMAIN credentials <=> "GcpServiceAccount" \in DOMAIN credentials
    /\ "GcpProjectID" \in DOMAIN credentials =>
         credentials["GcpProjectID"] = credentials["GcpServiceAccount"]

CredentialsInv == ReadsAreWhole /\ StartsComplete /\ OneAccount

\* The attempts stay below the limit while there is one to come.
Retries == [attempt : 1 .. MaxAttempts, sleep : Nat, asleep : BOOLEAN, waited : Nat]
RetryInv == retry \in Retries /\ (retry.asleep => retry.attempt < MaxAttempts)

StartupInv ==
    /\ conf \in Confs
    /\ phase \in {"down", "login", "read", "start", "running"}
    /\ RetryInv /\ CredentialsInv
    /\ secret \in 0 .. MaxRotations
    /\ DOMAIN credentials \subseteq CredentialNames
    /\ \A k \in DOMAIN credentials : credentials[k] \in 0 .. secret

\* The switches over the provider: no credential is read twice, the constructors
\* need none that is not read, and the project comes with the service account.
LEMMA SwitchesAgree ==
  ASSUME NEW p, HasCredentials(p)
  PROVE  /\ p \in Exporters
         /\ \A i, j \in DOMAIN Reads(p) : i # j => Reads(p)[i] \cap Reads(p)[j] = {}
         /\ \A k \in Needs(p) : \E i \in DOMAIN Reads(p) : k \in Reads(p)[i]
         /\ \A i \in DOMAIN Reads(p) : "GcpProjectID" \in Reads(p)[i] <=> "GcpServiceAccount" \in Reads(p)[i]
         /\ \A i \in DOMAIN Reads(p) : Reads(p)[i] # {}
<1>1. CASE p = "aws"
  BY <1>1 DEF Reads, Needs, Exporters
<1>2. CASE p = "azure"
  BY <1>2 DEF Reads, Needs, Exporters
<1>3. CASE p = "alicloud"
  BY <1>3 DEF Reads, Needs, Exporters
<1>4. CASE p = "gcp"
  BY <1>4 DEF Reads, Needs, Exporters, GcpReads
<1>5. QED
  BY <1>1, <1>2, <1>3, <1>4 DEF HasCredentials

LEMMA NewRetryOK ==
  ASSUME NEW sleep \in Nat
  PROVE  NewRetry(sleep) \in Retries /\ NewRetry(sleep).asleep = FALSE
BY RetryAssumption DEF NewRetry, Retries

LEMMA SleepsAreTimes == LoginSleep \in Nat /\ ReadSleep \in Nat /\ 0 \in Nat
BY RetryAssumption

LEMMA FirstRetries ==
  ASSUME retry' \in {NewRetry(0), NewRetry(LoginSleep), NewRetry(ReadSleep)}
  PROVE  RetryInv'
BY NewRetryOK, SleepsAreTimes DEF RetryInv

\* A uint8 counts the attempts: it does not wrap around.
LEMMA NoWrap ==
  ASSUME NEW a \in Nat, NEW b \in Nat, a < b
  PROVE  a % b = a
OBVIOUS

LEMMA ExitStarts ==
  ASSUME StartupInv, Exit PROVE StartupInv'
<1>1. DOMAIN credentials' = {}
  BY DEF Exit, NoCredentials
<1>2. CredentialsInv'
  BY <1>1 DEF Exit, CredentialsInv, ReadsAreWhole, StartsComplete, OneAccount
<1>3. RetryInv'
  BY FirstRetries DEF Exit
<1>4. QED
  BY <1>1, <1>2, <1>3 DEF Exit, StartupInv

LEMMA AttemptStarts ==
  ASSUME StartupInv, AttemptFails PROVE StartupInv'
<1>1. CASE LastAttempt /\ GiveUp
  BY <1>1, ExitStarts DEF GiveUp
<1>2. CASE ~(LastAttempt /\ GiveUp)
  <2>1. PICK jitter \in 0 .. retry.sleep - 1 :
          LET sleep == retry.sleep + jitter \div 2 IN
          retry' = [retry EXCEPT !.asleep = TRUE, !.sleep = sleep, !.waited = @ + sleep]
    BY <1>2 DEF AttemptFails
  <2>2. /\ ~LastAttempt /\ UNCHANGED <<conf, phase, secret, credentials>>
    BY <1>2 DEF AttemptFails
  <2>3. retry \in Retries /\ MaxAttempts \in Nat
    BY RetryAssumption DEF StartupInv, RetryInv
  <2>4. jitter \in Nat /\ jitter \div 2 \in Nat
    BY <2>3 DEF Retries
  <2>5. retry' \in Retries /\ retry'.attempt = retry.attempt
    <3> DEFINE sleep == retry.sleep + jitter \div 2
    <3>1. sleep \in Nat /\ retry.waited + sleep \in Nat
      BY <2>3, <2>4 DEF Retries
    <3>2. retry' = [retry EXCEPT !.asleep = TRUE, !.sleep = sleep, !.waited = retry.waited + sleep]
      BY <2>1, <2>3 DEF Retries
    <3> HIDE DEF sleep
    <3>3. QED
      BY <2>3, <3>1, <3>2 DEF Retries
  <2>6. RetryInv'
    BY <2>2, <2>3, <2>5 DEF RetryInv, LastAttempt, Retries
  <2>7. QED
    BY <2>2, <2>6 DEF StartupInv, CredentialsInv, ReadsAreWhole, StartsComplete, OneAccount, Left
<1>3. QED
  BY <1>1, <1>2

LEMMA WakeStarts ==
  ASSUME StartupInv, WakeUp PROVE StartupInv'
<1>1. retry \in Retries /\ retry.asleep /\ retry.attempt < MaxAttempts
  BY DEF WakeUp, StartupInv, RetryInv
<1>2. retry.attempt + 1 \in 1 .. MaxAttempts /\ 2 * retry.sleep \in Nat
  BY <1>1, RetryAssumption DEF Retries
<1>3. (retry.attempt + 1) % (UintMax + 1) = retry.attempt + 1
  BY <1>2, NoWrap, RetryAssumption
<1>4. retry' \in Retries /\ retry'.asleep = FALSE
  BY <1>1, <1>2, <1>3 DEF WakeUp, Retries
<1>5. QED
  BY <1>4 DEF WakeUp, StartupInv, RetryInv, CredentialsInv, ReadsAreWhole, StartsComplete,
     OneAccount, Left

\* One more read is done: what it gives was not there, and is of one version.
LEMMA ReadStarts ==
  ASSUME StartupInv, ReadSecret PROVE StartupInv'
<1> DEFINE p == conf.provider
<1>1. PICK i \in Left :
        credentials' = [k \in DOMAIN credentials \cup Reads(p)[i] |->
            IF k \in DOMAIN credentials THEN credentials[k] ELSE secret]
  BY DEF ReadSecret
<1>2. /\ HasCredentials(p) /\ phase = "read" /\ UNCHANGED <<conf, phase, secret>>
      /\ retry' = NewRetry(ReadSleep) /\ p \in Providers
  BY DEF ReadSecret, Trying, StartupInv, Confs
<1>3. i \in DOMAIN Reads(p) /\ Reads(p)[i] \cap DOMAIN credentials = {}
  BY DEF Left
<1>4. /\ DOMAIN credentials' = DOMAIN credentials \cup Reads(p)[i]
      /\ \A k \in DOMAIN credentials : credentials'[k] = credentials[k]
      /\ \A k \in Reads(p)[i] : credentials'[k] = secret
  BY <1>1, <1>3
<1>5. ReadsAreWhole'
  <2>1. ASSUME NEW j \in DOMAIN Reads(p)
        PROVE  \/ Reads(p)[j] \cap DOMAIN credentials' = {}
               \/ Reads(p)[j] \subseteq DOMAIN credentials'
    <3>1. j = i \/ Reads(p)[j] \cap Reads(p)[i] = {}
      BY <1>2, <1>3, SwitchesAgree
    <3>2. QED
      BY <1>4, <3>1 DEF StartupInv, CredentialsInv, ReadsAreWhole
  <2>2. QED
    BY <1>2, <2>1 DEF ReadsAreWhole
<1>6. OneAccount'
  <2>1. "GcpProjectID" \in Reads(p)[i] <=> "GcpServiceAccount" \in Reads(p)[i]
    BY <1>2, <1>3, SwitchesAgree
  <2>2. OneAccount
    BY DEF StartupInv, CredentialsInv
  <2>3. QED
    BY <1>3, <1>4, <2>1, <2>2 DEF OneAccount
<1>7. DOMAIN credentials' \subseteq CredentialNames
  BY <1>2, <1>3, <1>4 DEF StartupInv, CredentialNames
<1>8. \A k \in DOMAIN credentials' : credentials'[k] \in 0 .. secret
  BY <1>4 DEF StartupInv
<1>9. RetryInv'
  BY <1>2, FirstRetries
<1>10. QED
  BY <1>2, <1>5, <1>6, <1>7, <1>8, <1>9 DEF StartupInv, CredentialsInv, StartsComplete

LEMMA StartupSame ==
  ASSUME StartupInv, UNCHANGED startupVars PROVE StartupInv'
BY DEF startupVars, StartupInv, RetryInv, CredentialsInv, ReadsAreWhole, StartsComplete, OneAccount, Left

LEMMA StartupStep ==
  ASSUME StartupInv, [Next]_processVars PROVE StartupInv'
<1>1. CASE Boot \/ Login
  <2>1. RetryInv'
    BY <1>1, FirstRetries DEF Boot, Login
  <2>2. QED
    BY <1>1, <2>1 DEF Boot, Login, StartupInv, CredentialsInv, ReadsAreWhole, StartsComplete, OneAccount
<1>2. CASE CredentialsRead
  <2>1. RetryInv'
    BY <1>2, FirstRetries DEF CredentialsRead
  <2>2. QED
    BY <1>2, <2>1 DEF CredentialsRead, StartupInv, CredentialsInv, ReadsAreWhole, StartsComplete,
       OneAccount, Left
<1>3. CASE StartExporter
  BY <1>3, ExitStarts DEF StartExporter, StartupInv, RetryInv, CredentialsInv, ReadsAreWhole,
     StartsComplete, OneAccount, Left
<1>4. CASE Rotate
  <2>1. secret' \in 0 .. MaxRotations /\ 0 .. secret \subseteq 0 .. secret'
    BY <1>4, RetryAssumption DEF Rotate, StartupInv
  <2>2. QED
    BY <1>4, <2>1 DEF Rotate, StartupInv, RetryInv, CredentialsInv, ReadsAreWhole, StartsComplete,
       OneAccount, Left
<1>5. CASE BootFails \/ UselessAnswer \/ Die
  BY <1>5, ExitStarts DEF BootFails, UselessAnswer, Die
<1>6. CASE UNCHANGED startupVars
  BY <1>6, StartupSame
<1>7. QED
  BY <1>1, <1>2, <1>3, <1>4, <1>5, <1>6, AttemptStarts, WakeStarts, ReadStarts
  DEF Next, Start, Starting, Rotation, HealthRequest, BucketRequest, processVars

LEMMA StartupBegins == Init => StartupInv
<1> SUFFICES ASSUME Init PROVE StartupInv
  OBVIOUS
<1>1. DOMAIN credentials = {} /\ phase = "down" /\ secret = 0 /\ conf \in Confs
  BY DEF Init, StartupInit, NoCredentials
<1>2. RetryInv
  BY NewRetryOK, SleepsAreTimes DEF Init, StartupInit, RetryInv
<1>3. QED
  BY <1>1, <1>2, RetryAssumption DEF StartupInv, CredentialsInv, ReadsAreWhole, StartsComplete, OneAccount

LEMMA StartupHolds == Spec => []StartupInv
<1>1. StartupInv /\ [Next]_processVars => StartupInv'
  BY StartupStep
<1>2. QED
  BY <1>1, StartupBegins, PTL DEF Spec

\* The switch that reads the credentials, the factory and the constructors agree
\* on the providers: whatever fails and however often, an exporter that starts
\* has everything that its collectors are built on.
THEOREM StartsWithCredentials == Spec => []StartedIsComplete
<1>1. StartupInv => StartedIsComplete
  <2> SUFFICES ASSUME StartupInv, phase \in {"start", "running"}
               PROVE  /\ conf.provider \in Exporters
                      /\ Needs(conf.provider) \subseteq DOMAIN credentials
    BY DEF StartedIsComplete
  <2>1. HasCredentials(conf.provider) /\ Left = {} /\ ReadsAreWhole
    BY DEF StartupInv, CredentialsInv, StartsComplete
  <2>2. \A i \in DOMAIN Reads(conf.provider) : Reads(conf.provider)[i] \subseteq DOMAIN credentials
    BY <2>1 DEF Left, ReadsAreWhole
  <2>3. QED
    BY <2>1, <2>2, SwitchesAgree
<1>2. QED
  BY <1>1, StartupHolds, PTL

\* However often the secret is rotated between two reads, the project is the one
\* of the service account.
THEOREM ProjectOfAccount == Spec => []ProjectMatchesAccount
<1>1. StartupInv => ProjectMatchesAccount
  BY DEF StartupInv, CredentialsInv, OneAccount, ProjectMatchesAccount
<1>2. QED
  BY <1>1, StartupHolds, PTL

-----------------------------------------------------------------------------
(* A response of the health collector *)

\* Functions from a part of S to numbers.
Counts(S) == UNION {[T -> Nat] : T \in SUBSET S}
Pairs == Events \X States
Affecteds == Events \X Entities
Healths == [pc : {"idle", "list", "count", "affected"}, left : SUBSET Events,
            answer : SUBSET Pairs, todo : SUBSET Pairs,
            batch : SUBSET Events, batches : SUBSET SUBSET Events,
            entities : SUBSET Affecteds, alone : BOOLEAN]

\* The events of a set of pairs.
EventsOf(S) == {x[1] : x \in S}

\* The shapes, and the size of the batches.
HealthShape(q) ==
    /\ health[q].todo \subseteq health[q].answer
    /\ Cardinality(health[q].batch) < BatchSize
    /\ \A b \in health[q].batches : Cardinality(b) \in 1 .. BatchSize
    /\ health[q].pc \in {"idle", "list", "affected"} => health[q].todo = {} /\ health[q].batch = {}
    /\ health[q].pc \in {"idle", "list"} => health[q].batches = {} /\ health[q].entities = {}
    /\ \A x \in health[q].entities : x[1] \in EventsOf(health[q].answer)

HealthShapes ==
    /\ feed \in AllFeeds
    /\ counters \in [event : Counts(Pairs), affected : Counts(Affecteds), opened : Nat, closed : Nat]
    /\ health \in [HealthRequests -> Healths]
    /\ \A q \in HealthRequests : HealthShape(q)

\* The affected entities of a set of events.
Those(h, E) == {x \in h.entities : x[1] \in E}

\* Those of AWS whose entities have still to be asked for.
Waiting(h) == h.batch \cup UNION h.batches

\* An event comes once in an answer; a page has none of those still to be listed.
AnswerOK(h) ==
    /\ \A x, y \in h.answer : x[1] = y[1] => x = y
    /\ h.pc = "list" => \A x \in h.answer : x[1] \notin h.left

\* No two batches, nor a batch and what is being collected for the next, have an
\* event in common.
BatchesOK(h) ==
    /\ \A a, b \in h.batches : a = b \/ a \cap b = {}
    /\ \A b \in h.batches : b \cap h.batch = {}

\* What is still to be asked for is of events that are counted.
WaitingOK(p, h) ==
    h.pc \in {"count", "affected"} =>
        LET done == h.answer \ h.todo IN
        /\ IsFiniteSet(done) /\ Waiting(h) \subseteq EventsOf(done)
        /\ p # "aws" => Waiting(h) = {}

\* The counters c hold a set S of events, and the entities E.
Counted(p, c, S, E) ==
    /\ DOMAIN c.event = S /\ \A x \in S : c.event[x] = 1
    /\ DOMAIN c.affected = E /\ \A e \in E : c.affected[e] = 1
    /\ c.closed = Cardinality({x \in S : x[2] = "closed"})
    /\ c.opened = Cardinality({x \in S : Opened(p, x[2])})

\* The request counts its answer event by event, and the entities of an event at
\* once or with its batch.
CountsAnswer(p, c, h) ==
    /\ h.pc = "list" => c = NoCounters
    /\ h.pc \in {"count", "affected"} =>
         LET done == h.answer \ h.todo IN
         Counted(p, c, done, Those(h, EventsOf(done) \ Waiting(h)))

\* What every request keeps of its own.
WorkOK(p, h) == AnswerOK(h) /\ BatchesOK(h) /\ WaitingOK(p, h)

\* A request that has met no other is the only one, and the counters are its own.
ResponseInv ==
    /\ \A q \in HealthRequests : WorkOK(conf.provider, health[q])
    /\ \A q, r \in HealthRequests : health[q].alone /\ q # r => health[r].pc = "idle"
    /\ conf.provider # "alicloud" =>
         \A q \in HealthRequests :
           health[q].alone => CountsAnswer(conf.provider, counters, health[q])

ProcessInv == HealthShapes /\ ResponseInv

-----------------------------------------------------------------------------
SameWork(h, g) ==
    /\ h.pc = g.pc /\ h.left = g.left /\ h.answer = g.answer /\ h.todo = g.todo
    /\ h.batch = g.batch /\ h.batches = g.batches /\ h.entities = g.entities

\* What a step does to one request.
Only(q, pc, left, answer, todo, batch, batches, entities) ==
    /\ health' \in [HealthRequests -> Healths]
    /\ \A r \in HealthRequests \ {q} :
         SameWork(health[r], health'[r]) /\ (health'[r].alone => health[r].alone)
    /\ health'[q].pc = pc /\ health'[q].left = left /\ health'[q].answer = answer
    /\ health'[q].todo = todo /\ health'[q].batch = batch /\ health'[q].batches = batches
    /\ health'[q].entities = entities
    /\ health'[q].alone =>
         health[q].alone \/ \A r \in HealthRequests \ {q} : health[r].pc = "idle"

\* All but one request stay as they are, and that one does not change its alone.
LEMMA OnlyOne ==
  ASSUME HealthShapes, NEW q \in HealthRequests, NEW h \in Healths,
         health' = [health EXCEPT ![q] = h], h.alone => health[q].alone
  PROVE  Only(q, h.pc, h.left, h.answer, h.todo, h.batch, h.batches, h.entities)
<1>1. health \in [HealthRequests -> Healths]
  BY DEF HealthShapes
<1>2. \A r \in HealthRequests \ {q} : health'[r] = health[r]
  BY <1>1
<1>3. health'[q] = h /\ health' \in [HealthRequests -> Healths]
  BY <1>1
<1>4. QED
  BY <1>2, <1>3 DEF Only, SameWork

LEMMA HealthFields ==
  ASSUME HealthShapes, NEW q \in HealthRequests
  PROVE  /\ health[q].pc \in {"idle", "list", "count", "affected"} /\ health[q].left \in SUBSET Events
         /\ health[q].answer \in SUBSET Pairs /\ health[q].todo \in SUBSET Pairs
         /\ health[q].batch \in SUBSET Events /\ health[q].batches \in SUBSET SUBSET Events
         /\ health[q].entities \in SUBSET Affecteds /\ health[q].alone \in BOOLEAN
         /\ health[q] \in Healths /\ HealthShape(q)
BY DEF HealthShapes, Healths

LEMMA IdleFields ==
  /\ IdleHealth \in Healths
  /\ IdleHealth.pc = "idle" /\ IdleHealth.left = {} /\ IdleHealth.answer = {} /\ IdleHealth.todo = {}
  /\ IdleHealth.batch = {} /\ IdleHealth.batches = {} /\ IdleHealth.entities = {}
  /\ ~IdleHealth.alone
BY DEF IdleHealth, Healths

LEMMA FeedIn ==
  ASSUME NEW f \in AllFeeds
  PROVE  DOMAIN f \subseteq Events /\ \A e \in DOMAIN f : f[e] \in States
BY DEF AllFeeds

\* The pairs that a page adds.
Page(S) == {<<e, feed[e]>> : e \in S \cap DOMAIN feed}

LEMMA PagePairs ==
  ASSUME HealthShapes, NEW S
  PROVE  /\ Page(S) \subseteq Pairs
         /\ \A x, y \in Page(S) : x[1] = y[1] => x = y
         /\ \A x \in Page(S) : x[1] \in S
<1>1. DOMAIN feed \subseteq Events /\ \A e \in DOMAIN feed : feed[e] \in States
  BY FeedIn DEF HealthShapes
<1>2. QED
  BY <1>1 DEF Page, Pairs

LEMMA BeginOnly ==
  ASSUME HealthShapes, NEW p, NEW q \in HealthRequests, BeginHealth(p, q)
  PROVE  /\ Only(q, "list", Events, {}, {}, {}, {}, {})
         /\ \A r \in HealthRequests \ {q} : ~health'[r].alone
         /\ health'[q].alone => \A r \in HealthRequests \ {q} : health[r].pc = "idle"
<1> DEFINE only == \A x \in HealthRequests \ {q} : health[x].pc = "idle"
           begin == [IdleHealth EXCEPT !.pc = "list", !.left = Events, !.alone = only]
<1>1. health' = [r \in HealthRequests |->
                   IF r = q THEN begin ELSE [health[r] EXCEPT !.alone = FALSE]]
  BY DEF BeginHealth
<1> HIDE DEF only
<1>2. /\ begin \in Healths /\ begin.pc = "list" /\ begin.left = Events /\ begin.answer = {}
      /\ begin.todo = {} /\ begin.batch = {} /\ begin.batches = {} /\ begin.entities = {}
      /\ begin.alone <=> only
  <2>1. only \in BOOLEAN
    BY DEF only
  <2>2. QED
    BY <2>1 DEF IdleHealth, Healths
<1> HIDE DEF begin
<1>3. ASSUME NEW r \in HealthRequests
      PROVE  LET h == [health[r] EXCEPT !.alone = FALSE]
             IN  h \in Healths /\ SameWork(health[r], h) /\ ~h.alone
  BY HealthFields DEF Healths, SameWork
<1>4. health' \in [HealthRequests -> Healths]
  BY <1>1, <1>2, <1>3
<1>5. health'[q] = begin /\ \A r \in HealthRequests \ {q} : health'[r] = [health[r] EXCEPT !.alone = FALSE]
  BY <1>1
<1>6. QED
  BY <1>2, <1>3, <1>4, <1>5 DEF Only, only

LEMMA ListOnly ==
  ASSUME HealthShapes, NEW p, NEW q \in HealthRequests, ListEvents(p, q)
  PROVE  \E page \in SUBSET health[q].left, answer \in SUBSET (health[q].answer \cup Page(health[q].left)) :
           /\ answer \subseteq health[q].answer \cup Page(page)
           /\ Only(q, "list", health[q].left \ page, answer, {}, {}, {}, {})
<1> DEFINE h == health[q]
           new == Page(h.left)
<1>1. /\ h \in Healths /\ h.pc = "list" /\ h.todo = {} /\ h.batch = {} /\ h.batches = {} /\ h.entities = {}
      /\ health \in [HealthRequests -> Healths]
  BY HealthFields DEF ListEvents, HealthShape, HealthShapes
<1>2. new \subseteq Pairs /\ h.answer \subseteq Pairs /\ h.left \subseteq Events
  BY HealthFields, PagePairs
<1>3. CASE \E page \in SUBSET h.left :
             health' = [health EXCEPT ![q].left = @ \ page,
                                      ![q].answer = @ \cup {a \in new : a[1] \in page}]
  <2>1. PICK page \in SUBSET h.left :
             health' = [health EXCEPT ![q].left = @ \ page,
                                      ![q].answer = @ \cup {a \in new : a[1] \in page}]
    BY <1>3
  <2> DEFINE answer == h.answer \cup {a \in new : a[1] \in page}
  <2>2. {a \in new : a[1] \in page} \subseteq Page(page)
    BY DEF Page
  <2>3. Only(q, "list", h.left \ page, answer, {}, {}, {}, {})
    BY <1>1, <1>2, <2>1 DEF Only, Healths, SameWork
  <2>4. QED
    BY <2>2, <2>3
<1>4. CASE \E answer \in SUBSET (h.answer \cup new) :
             health' = [health EXCEPT ![q].left = {}, ![q].answer = answer]
  <2>1. PICK answer \in SUBSET (h.answer \cup new) :
             health' = [health EXCEPT ![q].left = {}, ![q].answer = answer]
    BY <1>4
  <2>2. Only(q, "list", {}, answer, {}, {}, {}, {})
    BY <1>1, <1>2, <2>1 DEF Only, Healths, SameWork
  <2>3. QED
    BY <2>1, <2>2
<1>5. health' = [health EXCEPT ![q].left = {}] =>
        health' = [health EXCEPT ![q].left = {}, ![q].answer = h.answer]
  BY <1>1 DEF Healths
<1>6. QED
  BY <1>3, <1>4, <1>5 DEF ListEvents, Page

LEMMA ListedOnly ==
  ASSUME HealthShapes, NEW p, NEW q \in HealthRequests, EventsListed(p, q)
  PROVE  \/ Only(q, "idle", {}, {}, {}, {}, {}, {})
         \/ \E S \in SUBSET Affecteds :
              /\ Only(q, "count", {}, health[q].answer, health[q].answer, {}, {}, S)
              /\ \A x \in S : x[1] \in EventsOf(health[q].answer)
<1>1. /\ health[q] \in Healths /\ health[q].left = {} /\ health[q].batch = {} /\ health[q].batches = {}
      /\ health \in [HealthRequests -> Healths] /\ health[q].pc = "list"
      /\ health[q].answer \subseteq Pairs
  BY HealthFields DEF EventsListed, HealthShape, HealthShapes
<1>2. CASE health' = [health EXCEPT ![q] = IdleHealth]
  BY <1>1, <1>2, IdleFields DEF Only, SameWork
<1>3. CASE \E S \in Affected(p, health[q].answer) :
             health' = [health EXCEPT ![q].pc = "count", ![q].todo = health[q].answer,
                                      ![q].entities = S]
  <2>1. PICK S \in Affected(p, health[q].answer) :
             health' = [health EXCEPT ![q].pc = "count", ![q].todo = health[q].answer,
                                      ![q].entities = S]
    BY <1>3
  <2>2. S \in SUBSET (EventsOf(health[q].answer) \X Entities)
    BY DEF Affected, EventsOf
  <2>3. EventsOf(health[q].answer) \subseteq Events
    BY <1>1 DEF EventsOf, Pairs
  <2>4. S \in SUBSET Affecteds /\ \A x \in S : x[1] \in EventsOf(health[q].answer)
    BY <2>2, <2>3 DEF Affecteds
  <2>5. Only(q, "count", {}, health[q].answer, health[q].answer, {}, {}, S)
    BY <1>1, <2>1, <2>4 DEF Only, Healths, SameWork
  <2>6. QED
    BY <2>4, <2>5
<1>4. QED
  BY <1>2, <1>3 DEF EventsListed

LEMMA CountOnly ==
  ASSUME HealthShapes, NEW p, NEW q \in HealthRequests, NEW e \in Events, NEW state \in States,
         CountEvent(p, q, e, state)
  PROVE  LET h == health[q]
             batch == h.batch \cup {e}
             full == Cardinality(batch) = BatchSize
         IN  Only(q, "count", h.left, h.answer, h.todo \ {<<e, state>>},
                  IF p # "aws" \/ full THEN {} ELSE batch,
                  IF p = "aws" /\ full THEN h.batches \cup {batch} ELSE h.batches, h.entities)
<1> DEFINE h == health[q]
           batch == h.batch \cup {e}
           full == Cardinality(batch) = BatchSize
           b == IF p # "aws" \/ full THEN {} ELSE batch
           bs == IF p = "aws" /\ full THEN h.batches \cup {batch} ELSE h.batches
<1>1. h \in Healths /\ h.pc = "count" /\ health \in [HealthRequests -> Healths]
  BY HealthFields DEF CountEvent, HealthShapes
<1>2. b \in SUBSET Events /\ bs \in SUBSET SUBSET Events
  BY HealthFields
<1>3. health' = [health EXCEPT ![q].todo = @ \ {<<e, state>>}, ![q].batch = b, ![q].batches = bs]
  BY DEF CountEvent
<1> HIDE DEF b, bs
<1>4. Only(q, "count", h.left, h.answer, h.todo \ {<<e, state>>}, b, bs, h.entities)
  BY <1>1, <1>2, <1>3 DEF Only, Healths, SameWork
<1>5. QED
  BY <1>4 DEF b, bs

LEMMA CountedOnly ==
  ASSUME HealthShapes, NEW q \in HealthRequests, EventsCounted(q)
  PROVE  Only(q, "affected", health[q].left, health[q].answer, {}, {}, AllBatches(q), health[q].entities)
<1>1. health[q] \in Healths /\ health[q].todo = {} /\ health \in [HealthRequests -> Healths]
  BY HealthFields DEF EventsCounted, HealthShapes
<1>2. AllBatches(q) \in SUBSET SUBSET Events
  BY HealthFields DEF AllBatches
<1>3. health' = [health EXCEPT ![q].pc = "affected", ![q].batch = {}, ![q].batches = AllBatches(q)]
  BY DEF EventsCounted
<1>4. QED
  BY <1>1, <1>2, <1>3 DEF Only, Healths, SameWork

\* One batch is answered: its entities are counted.
LEMMA AffectedOnly ==
  ASSUME HealthShapes, NEW q \in HealthRequests, CountAffected(q)
  PROVE  /\ health[q].pc = "affected"
         /\ \E batch \in health[q].batches :
              /\ Only(q, "affected", health[q].left, health[q].answer, {}, {},
                      health[q].batches \ {batch}, health[q].entities)
              /\ counters' = [counters EXCEPT !.affected = Inc(@, EntitiesOf(q, batch))]
<1>1. PICK batch \in health[q].batches :
         /\ counters' = [counters EXCEPT !.affected = Inc(@, EntitiesOf(q, batch))]
         /\ health' = [health EXCEPT ![q].batches = @ \ {batch}]
  BY DEF CountAffected
<1>2. /\ health[q] \in Healths /\ health[q].todo = {} /\ health[q].batch = {}
      /\ health[q].pc = "affected" /\ health \in [HealthRequests -> Healths]
  BY HealthFields DEF CountAffected, HealthShape, HealthShapes
<1>3. Only(q, "affected", health[q].left, health[q].answer, {}, {},
           health[q].batches \ {batch}, health[q].entities)
  BY <1>1, <1>2 DEF Only, Healths, SameWork
<1>4. QED
  BY <1>1, <1>2, <1>3

LEMMA EndOnly ==
  ASSUME HealthShapes, NEW q \in HealthRequests, EndHealth(q)
  PROVE  Only(q, "idle", {}, {}, {}, {}, {}, {})
BY IdleFields DEF EndHealth, Only, HealthShapes, SameWork

-----------------------------------------------------------------------------
\* Counter f, with one more for each label of T.
Adding(f, T) ==
    [x \in DOMAIN f \cup T |-> (IF x \in DOMAIN f THEN f[x] ELSE 0) + (IF x \in T THEN 1 ELSE 0)]

LEMMA Adds ==
  ASSUME NEW S, NEW f \in Counts(S), NEW T \in SUBSET S
  PROVE  Adding(f, T) \in Counts(S)
<1>1. PICK D \in SUBSET S : f \in [D -> Nat]
  BY DEF Counts
<1>2. Adding(f, T) \in [D \cup T -> Nat]
  BY <1>1 DEF Adding
<1>3. Adding(f, T) \in Counts(S)
  <2>1. D \cup T \in SUBSET S
    OBVIOUS
  <2>2. QED
    BY <1>2, <2>1 DEF Counts
<1>4. QED
  BY <1>3

LEMMA IncAdds == \A f, T : Inc(f, T) = Adding(f, T)
BY DEF Inc, Adding

LEMMA NothingCounted ==
  /\ NoCounters \in [event : Counts(Pairs), affected : Counts(Affecteds), opened : Nat, closed : Nat]
  /\ DOMAIN NoCounters.event = {} /\ DOMAIN NoCounters.affected = {}
  /\ NoCounters.opened = 0 /\ NoCounters.closed = 0
<1>1. ASSUME NEW S, NEW f, f = [x \in {} |-> 0] PROVE f \in Counts(S) /\ DOMAIN f = {}
  <2>1. f \in [{} -> Nat] /\ {} \in SUBSET S
    BY <1>1
  <2>2. QED
    BY <1>1, <2>1 DEF Counts
<1> DEFINE f == [x \in {} |-> 0]
<1>2. NoCounters = [event |-> f, affected |-> f, opened |-> 0, closed |-> 0]
  BY DEF NoCounters
<1>3. f \in Counts(Pairs) /\ f \in Counts(Affecteds) /\ DOMAIN f = {}
  BY <1>1
<1> HIDE DEF f
<1>4. QED
  BY <1>2, <1>3

LEMMA NoFeed == NoEvents \in AllFeeds
<1>1. NoEvents \in [{} -> States] /\ {} \in SUBSET Events
  BY DEF NoEvents
<1>2. QED
  BY <1>1 DEF AllFeeds

CounterType == [event : Counts(Pairs), affected : Counts(Affecteds), opened : Nat, closed : Nat]

\* What one event of provider p does to the counters.
CountsOneMore(p, e, state, T) ==
    /\ counters' \in CounterType
    /\ counters'.event = Adding(counters.event, {<<e, state>>})
    /\ counters'.affected = IF p = "aws" THEN counters.affected ELSE Adding(counters.affected, T)
    /\ counters'.opened = counters.opened + IF p # "alicloud" /\ Opened(p, state) THEN 1 ELSE 0
    /\ counters'.closed = counters.closed + IF p # "alicloud" /\ state = "closed" THEN 1 ELSE 0

LEMMA CountEffect ==
  ASSUME HealthShapes, NEW p, NEW q \in HealthRequests, NEW e \in Events, NEW state \in States,
         CountEvent(p, q, e, state)
  PROVE  CountsOneMore(p, e, state, Those(health[q], {e}))
<1> DEFINE T == Those(health[q], {e})
           ev == Adding(counters.event, {<<e, state>>})
           af == IF p = "aws" THEN counters.affected ELSE Adding(counters.affected, T)
           op == counters.opened + IF p # "alicloud" /\ Opened(p, state) THEN 1 ELSE 0
           cl == counters.closed + IF p # "alicloud" /\ state = "closed" THEN 1 ELSE 0
<1>1. counters' = [event |-> ev, affected |-> af, opened |-> op, closed |-> cl]
  BY IncAdds DEF CountEvent, EntitiesOf, Those
<1>2. counters.event \in Counts(Pairs) /\ counters.affected \in Counts(Affecteds)
      /\ counters.opened \in Nat /\ counters.closed \in Nat
  BY DEF HealthShapes
<1>3. ev \in Counts(Pairs) /\ af \in Counts(Affecteds)
  <2>1. {<<e, state>>} \in SUBSET Pairs /\ T \in SUBSET Affecteds
    BY HealthFields DEF Pairs, Those
  <2>2. Adding(counters.event, {<<e, state>>}) \in Counts(Pairs)
    BY <1>2, <2>1, Adds
  <2>3. Adding(counters.affected, T) \in Counts(Affecteds)
    BY <1>2, <2>1, Adds
  <2>4. QED
    BY <1>2, <2>2, <2>3
<1>4. op \in Nat /\ cl \in Nat
  BY <1>2
<1> HIDE DEF ev, af, op, cl, T
<1>5. /\ counters' \in CounterType /\ counters'.event = ev /\ counters'.affected = af
      /\ counters'.opened = op /\ counters'.closed = cl
  BY <1>1, <1>3, <1>4 DEF CounterType
<1>6. QED
  BY <1>5 DEF ev, af, op, cl, T, CountsOneMore

LEMMA AffectedEffect ==
  ASSUME HealthShapes, NEW q \in HealthRequests, NEW batch,
         counters' = [counters EXCEPT !.affected = Inc(@, EntitiesOf(q, batch))]
  PROVE  /\ counters' \in CounterType
         /\ counters'.affected = Adding(counters.affected, Those(health[q], batch))
         /\ counters'.event = counters.event
         /\ counters'.opened = counters.opened /\ counters'.closed = counters.closed
<1> DEFINE af == Adding(counters.affected, Those(health[q], batch))
<1>1. counters' = [counters EXCEPT !.affected = af] /\ counters \in CounterType
  BY IncAdds DEF HealthShapes, CounterType, EntitiesOf, Those
<1>2. af \in Counts(Affecteds)
  <2>1. Those(health[q], batch) \in SUBSET Affecteds /\ counters.affected \in Counts(Affecteds)
    BY <1>1, HealthFields DEF Those, CounterType
  <2>2. QED
    BY <2>1, Adds
<1> HIDE DEF af
<1>3. counters' \in CounterType /\ counters'.affected = af /\ counters'.event = counters.event
      /\ counters'.opened = counters.opened /\ counters'.closed = counters.closed
  BY <1>1, <1>2 DEF CounterType
<1>4. QED
  BY <1>3 DEF af

-----------------------------------------------------------------------------
LEMMA HealthSizes ==
  /\ IsFiniteSet(Events) /\ BatchSize \in Nat \ {0} /\ Cardinality({}) = 0
  /\ \A b \in SUBSET Events : IsFiniteSet(b) /\ Cardinality(b) \in Nat /\ (b # {} => Cardinality(b) # 0)
  /\ \A b \in SUBSET Events, e \in Events : Cardinality(b \cup {e}) <= Cardinality(b) + 1
BY HealthAssumption, FS_EmptySet, FS_Subset, FS_CardinalityType, FS_AddElement

\* The other requests keep their shapes.
LEMMA ShapeOne ==
  ASSUME HealthShapes, feed' \in AllFeeds, counters' \in CounterType, NEW q \in HealthRequests,
         NEW pc, NEW left, NEW answer, NEW todo, NEW batch, NEW batches, NEW entities,
         Only(q, pc, left, answer, todo, batch, batches, entities),
         \A x \in entities : x[1] \in EventsOf(answer),
         todo \subseteq answer, Cardinality(batch) < BatchSize,
         \A b \in batches : Cardinality(b) \in 1 .. BatchSize,
         pc \in {"idle", "list", "affected"} => todo = {} /\ batch = {},
         pc \in {"idle", "list"} => batches = {} /\ entities = {}
  PROVE  HealthShapes'
<1>1. HealthShape(q)'
  BY DEF Only, HealthShape
<1>2. ASSUME NEW r \in HealthRequests, r # q PROVE HealthShape(r)'
  BY <1>2, HealthFields DEF Only, HealthShape, SameWork
<1>3. QED
  BY <1>1, <1>2 DEF HealthShapes, Only, CounterType

LEMMA HealthShapeStep ==
  ASSUME HealthShapes, NEW p, HealthStep(p) PROVE HealthShapes'
<1> counters \in CounterType /\ feed \in AllFeeds
  BY DEF HealthShapes, CounterType
<1> 0 < BatchSize /\ Cardinality({}) = 0
  BY HealthSizes
<1>1. ASSUME NEW q \in HealthRequests, BeginHealth(p, q) PROVE HealthShapes'
  <2>1. feed' \in AllFeeds /\ counters' \in CounterType
    BY <1>1, NothingCounted DEF BeginHealth, AfterResets, CounterType
  <2>2. QED
    BY <1>1, <2>1, BeginOnly, ShapeOne
<1>2. ASSUME NEW q \in HealthRequests, ListEvents(p, q) PROVE HealthShapes'
  <2>1. feed' \in AllFeeds /\ counters' \in CounterType
    BY <1>2 DEF ListEvents
  <2>2. \E left, answer : Only(q, "list", left, answer, {}, {}, {}, {})
    BY <1>2, ListOnly
  <2>3. QED
    BY <2>1, <2>2, ShapeOne
<1>3. ASSUME NEW q \in HealthRequests, EventsListed(p, q) PROVE HealthShapes'
  <2>1. feed' \in AllFeeds /\ counters' \in CounterType
    BY <1>3, NoFeed DEF EventsListed
  <2>2. CASE Only(q, "idle", {}, {}, {}, {}, {}, {})
    BY <2>1, <2>2, ShapeOne
  <2>3. CASE \E S \in SUBSET Affecteds :
               /\ Only(q, "count", {}, health[q].answer, health[q].answer, {}, {}, S)
               /\ \A x \in S : x[1] \in EventsOf(health[q].answer)
    BY <2>1, <2>3, ShapeOne
  <2>4. QED
    BY <1>3, <2>2, <2>3, ListedOnly
<1>4. ASSUME NEW q \in HealthRequests, NEW e \in Events, NEW state \in States,
             CountEvent(p, q, e, state)
      PROVE  HealthShapes'
  <2> DEFINE h == health[q]
             batch == h.batch \cup {e}
             full == Cardinality(batch) = BatchSize
             b == IF p # "aws" \/ full THEN {} ELSE batch
             bs == IF p = "aws" /\ full THEN h.batches \cup {batch} ELSE h.batches
             t == h.todo \ {<<e, state>>}
  <2>1. feed' \in AllFeeds /\ counters' \in CounterType
    BY <1>4, CountEffect DEF CountEvent, CountsOneMore
  <2>2. Only(q, "count", h.left, h.answer, t, b, bs, h.entities)
    BY <1>4, CountOnly
  <2>3. /\ h.batch \in SUBSET Events /\ Cardinality(h.batch) \in Nat /\ Cardinality(h.batch) < BatchSize
        /\ \A x \in h.batches : Cardinality(x) \in 1 .. BatchSize
        /\ t \subseteq h.answer
        /\ \A x \in h.entities : x[1] \in EventsOf(h.answer)
    BY HealthFields, HealthSizes DEF HealthShape
  <2>4. BatchSize \in Nat /\ Cardinality(batch) \in Nat /\ Cardinality(batch) <= Cardinality(h.batch) + 1
    BY <2>3, HealthSizes
  <2>5. Cardinality(b) < BatchSize /\ \A x \in bs : Cardinality(x) \in 1 .. BatchSize
    <3>1. Cardinality(batch) = BatchSize \/ Cardinality(batch) < BatchSize
      BY <2>3, <2>4
    <3>2. full => Cardinality(batch) \in 1 .. BatchSize
      BY <2>4
    <3> HIDE DEF batch, h
    <3>3. QED
      BY <2>3, <3>1, <3>2
  <2> HIDE DEF b, bs, t, h
  <2>6. QED
    BY <2>1, <2>2, <2>3, <2>5, ShapeOne
<1>5. ASSUME NEW q \in HealthRequests, EventsCounted(q) PROVE HealthShapes'
  <2>1. feed' \in AllFeeds /\ counters' \in CounterType
    BY <1>5 DEF EventsCounted
  <2>2. /\ health[q].batch \in SUBSET Events /\ Cardinality(health[q].batch) \in Nat
        /\ health[q].batch # {} => Cardinality(health[q].batch) # 0
        /\ Cardinality(health[q].batch) < BatchSize
        /\ BatchSize \in Nat
    BY HealthFields, HealthSizes DEF HealthShape
  <2>3. \A b \in AllBatches(q) : Cardinality(b) \in 1 .. BatchSize
    BY <2>2, HealthFields DEF AllBatches, HealthShape
  <2>4. \A x \in health[q].entities : x[1] \in EventsOf(health[q].answer)
    BY HealthFields DEF HealthShape
  <2>5. QED
    BY <1>5, <2>1, <2>3, <2>4, CountedOnly, ShapeOne
<1>6. ASSUME NEW q \in HealthRequests, CountAffected(q) PROVE HealthShapes'
  <2>1. PICK batch \in health[q].batches :
          /\ Only(q, "affected", health[q].left, health[q].answer, {}, {},
                  health[q].batches \ {batch}, health[q].entities)
          /\ counters' \in CounterType
    BY <1>6, AffectedOnly, AffectedEffect, HealthFields
  <2>2. feed' \in AllFeeds
    BY <1>6 DEF CountAffected
  <2>3. \A b \in health[q].batches \ {batch} : Cardinality(b) \in 1 .. BatchSize
    BY HealthFields DEF HealthShape
  <2>4. \A x \in health[q].entities : x[1] \in EventsOf(health[q].answer)
    BY HealthFields DEF HealthShape
  <2>5. QED
    BY <2>1, <2>2, <2>3, <2>4, ShapeOne
<1>7. ASSUME NEW q \in HealthRequests, EndHealth(q) PROVE HealthShapes'
  <2>1. feed' \in AllFeeds /\ counters' \in CounterType
    BY <1>7 DEF EndHealth
  <2>2. QED
    BY <1>7, <2>1, EndOnly, ShapeOne
<1>8. CASE FeedChanges
  BY <1>8 DEF FeedChanges, HealthShapes, HealthShape
<1>9. QED
  BY <1>1, <1>2, <1>3, <1>4, <1>5, <1>6, <1>7, <1>8 DEF HealthStep

\* The collector is as it was at the start.
FreshHealth == feed = NoEvents /\ counters = NoCounters /\ health = [q \in HealthRequests |-> IdleHealth]

NothingYet ==
    DOMAIN counters.event = {} /\ \A q \in HealthRequests : health[q] = IdleHealth

LEMMA FreshShapes == FreshHealth => HealthShapes /\ NothingYet
<1> SUFFICES ASSUME FreshHealth PROVE HealthShapes /\ NothingYet
  OBVIOUS
<1>1. \A q \in HealthRequests : health[q] = IdleHealth
  BY DEF FreshHealth
<1>2. counters \in CounterType /\ DOMAIN counters.event = {}
  BY NothingCounted DEF FreshHealth, CounterType
<1>3. \A q \in HealthRequests : HealthShape(q)
  <2> DEFINE h == IdleHealth
  <2>1. /\ h.pc = "idle" /\ h.answer = {} /\ h.todo = {} /\ h.batch = {} /\ h.batches = {}
        /\ h.entities = {} /\ Cardinality({}) < BatchSize
    BY IdleFields, HealthSizes
  <2> HIDE DEF h
  <2>2. \A q \in HealthRequests : health[q] = h
    BY <1>1 DEF h
  <2>3. QED
    BY <2>1, <2>2 DEF HealthShape
<1>4. health \in [HealthRequests -> Healths] /\ feed \in AllFeeds
  BY IdleFields, NoFeed DEF FreshHealth
<1>5. QED
  BY <1>1, <1>2, <1>3, <1>4 DEF HealthShapes, CounterType, NothingYet

LEMMA FreshNext == FreshHealth' => HealthShapes' /\ NothingYet'
BY FreshShapes, PTL

LEMMA ShapesStep ==
  ASSUME HealthShapes, [Next]_processVars PROVE HealthShapes'
<1>1. CASE UNCHANGED healthVars
  BY <1>1 DEF healthVars, HealthShapes, HealthShape
<1>2. CASE Die
  BY <1>2, FreshNext DEF Die, FreshHealth
<1>3. QED
  BY <1>1, <1>2, HealthShapeStep DEF Next, Start, Rotation, HealthRequest, BucketRequest, processVars

\* The variables of the start and of the health collector have their shapes: no
\* attempt is counted beyond the limit, so that the uint8 never wraps around, and
\* no batch of ARNs is empty or longer than one call takes.
LEMMA ProcessTypes == Spec => [](StartupTypeOK /\ HealthTypeOK)
<1>1. Init => HealthShapes
  BY FreshShapes DEF Init, HealthInit, FreshHealth
<1>2. StartupInv => StartupTypeOK
  BY DEF StartupInv, RetryInv, Retries, StartupTypeOK
<1>3. HealthShapes => HealthTypeOK
  <2> SUFFICES ASSUME HealthShapes PROVE HealthTypeOK
    OBVIOUS
  <2>1. /\ DOMAIN counters.event \subseteq Pairs /\ DOMAIN counters.affected \subseteq Affecteds
        /\ counters.opened \in Nat /\ counters.closed \in Nat /\ feed \in AllFeeds
    BY DEF HealthShapes, Counts
  <2>2. QED
    BY <2>1, HealthFields DEF HealthTypeOK, HealthShape, Pairs, Affecteds
<1>4. QED
  BY <1>1, <1>2, <1>3, StartupHolds, ShapesStep, PTL DEF Spec

-----------------------------------------------------------------------------
LEMMA ConfStays == [Next]_processVars => UNCHANGED conf
BY DEF Next, Start, Starting, Rotation, Rotate, HealthRequest, BucketRequest, Die, Exit, Boot, BootFails,
   AttemptFails, GiveUp, WakeUp, Login, ReadSecret, CredentialsRead, UselessAnswer, StartExporter,
   processVars, startupVars

\* After a step of q no other request is one that has met none, and what q does
\* decides.
LEMMA ResponseOne ==
  ASSUME ResponseInv, UNCHANGED conf, NEW q \in HealthRequests,
         NEW pc, NEW left, NEW answer, NEW todo, NEW batch, NEW batches, NEW entities,
         Only(q, pc, left, answer, todo, batch, batches, entities),
         \A r \in HealthRequests \ {q} : ~health'[r].alone,
         WorkOK(conf.provider, health'[q]),
         conf.provider # "alicloud" /\ health'[q].alone =>
             CountsAnswer(conf.provider, counters', health'[q])
  PROVE  ResponseInv'
<1>1. ASSUME NEW r \in HealthRequests, r # q PROVE WorkOK(conf.provider, health'[r])
  <2>1. SameWork(health[r], health'[r]) /\ WorkOK(conf.provider, health[r])
    BY <1>1 DEF Only, ResponseInv
  <2>2. QED
    BY <2>1 DEF SameWork, WorkOK, AnswerOK, BatchesOK, WaitingOK, Waiting
<1>2. ASSUME NEW r \in HealthRequests, r # q, health'[q].alone PROVE health'[r].pc = "idle"
  <2>1. health[r].pc = "idle"
    BY <1>2 DEF Only, ResponseInv
  <2>2. QED
    BY <1>2, <2>1 DEF Only, SameWork
<1>3. QED
  BY <1>1, <1>2 DEF ResponseInv

\* A request that is in progress is the only one, or none has met no other.
LEMMA OthersMet ==
  ASSUME ResponseInv, NEW q \in HealthRequests, health[q].pc # "idle",
         NEW pc, NEW left, NEW answer, NEW todo, NEW batch, NEW batches, NEW entities,
         Only(q, pc, left, answer, todo, batch, batches, entities)
  PROVE  \A r \in HealthRequests \ {q} : ~health'[r].alone
BY DEF ResponseInv, Only

\* A step after the first, of a request that is alone only if it was.
LEMMA AloneBefore ==
  ASSUME ResponseInv, NEW q \in HealthRequests, health[q].alone
  PROVE  conf.provider # "alicloud" => CountsAnswer(conf.provider, counters, health[q])
BY DEF ResponseInv

LEMMA NothingToCount ==
  ASSUME NEW p, NEW h, h.pc \in {"idle", "list"}, h.answer = {}, h.batch = {}, h.batches = {}
  PROVE  /\ WorkOK(p, h)
         /\ (h.pc = "list" => counters' = NoCounters) => CountsAnswer(p, counters', h)
BY DEF WorkOK, AnswerOK, BatchesOK, WaitingOK, CountsAnswer

LEMMA BeginResponse ==
  ASSUME HealthShapes, ResponseInv, UNCHANGED conf,
         NEW q \in HealthRequests, BeginHealth(conf.provider, q)
  PROVE  ResponseInv'
<1>1. /\ Only(q, "list", Events, {}, {}, {}, {}, {})
      /\ \A r \in HealthRequests \ {q} : ~health'[r].alone
  BY BeginOnly
<1>2. counters' = IF conf.provider = "alicloud" THEN counters ELSE NoCounters
  BY DEF BeginHealth, AfterResets
<1>3. /\ WorkOK(conf.provider, health'[q])
      /\ conf.provider # "alicloud" => CountsAnswer(conf.provider, counters', health'[q])
  BY <1>1, <1>2, NothingToCount DEF Only
<1>4. QED
  BY <1>1, <1>3, ResponseOne

LEMMA ListResponse ==
  ASSUME HealthShapes, ResponseInv, UNCHANGED conf,
         NEW q \in HealthRequests, ListEvents(conf.provider, q)
  PROVE  ResponseInv'
<1> DEFINE h == health[q]
<1>1. PICK page \in SUBSET h.left, answer \in SUBSET (h.answer \cup Page(h.left)) :
           /\ answer \subseteq h.answer \cup Page(page)
           /\ Only(q, "list", h.left \ page, answer, {}, {}, {}, {})
  BY ListOnly
<1>2. UNCHANGED counters /\ h.pc = "list"
  BY DEF ListEvents
<1>3. AnswerOK(h)
  BY DEF ResponseInv, WorkOK
<1>4. AnswerOK(health'[q])
  <2>1. /\ \A x, y \in h.answer : x[1] = y[1] => x = y
        /\ \A x \in h.answer : x[1] \notin h.left
    BY <1>2, <1>3 DEF AnswerOK
  <2>2. /\ \A x, y \in Page(page) : x[1] = y[1] => x = y
        /\ \A x \in Page(page) : x[1] \in page
    BY PagePairs
  <2>3. \A x, y \in answer : x[1] = y[1] => x = y
    BY <1>1, <2>1, <2>2
  <2>4. \A x \in answer : x[1] \notin h.left \ page
    BY <1>1, <2>1, <2>2
  <2>5. QED
    BY <1>1, <2>3, <2>4 DEF Only, AnswerOK
<1>5. WorkOK(conf.provider, health'[q])
  BY <1>1, <1>4 DEF Only, BatchesOK, WaitingOK, WorkOK
<1>6. health'[q].alone /\ conf.provider # "alicloud" =>
        CountsAnswer(conf.provider, counters', health'[q])
  <2>1. health[q].alone /\ conf.provider # "alicloud" => counters = NoCounters
    BY <1>2, AloneBefore DEF CountsAnswer
  <2>2. health'[q].alone => health[q].alone
    <3>1. \/ \E l, a : health' = [health EXCEPT ![q].left = l, ![q].answer = a]
          \/ health' = [health EXCEPT ![q].left = {}]
      BY DEF ListEvents
    <3>2. health[q] \in Healths /\ health \in [HealthRequests -> Healths]
      BY HealthFields DEF HealthShapes
    <3>3. ASSUME NEW l, NEW a,
                 health' = [health EXCEPT ![q].left = l, ![q].answer = a]
          PROVE  health'[q].alone = health[q].alone
      BY <3>2, <3>3 DEF Healths
    <3>4. health' = [health EXCEPT ![q].left = {}] => health'[q].alone = health[q].alone
      BY <3>2 DEF Healths
    <3>5. QED
      BY <3>1, <3>3, <3>4
  <2>3. QED
    BY <1>1, <1>2, <2>1, <2>2 DEF CountsAnswer, Only
<1>7. \A r \in HealthRequests \ {q} : ~health'[r].alone
  BY <1>1, <1>2, OthersMet
<1>8. QED
  BY <1>1, <1>5, <1>6, <1>7, ResponseOne

\* Nothing is counted of a set without events.
LEMMA CountedNothing ==
  ASSUME NEW p PROVE Counted(p, NoCounters, {}, {})
<1>1. Cardinality({}) = 0
  BY FS_EmptySet
<1>2. {x \in {} : x[2] = "closed"} = {} /\ {x \in {} : Opened(p, x[2])} = {}
  OBVIOUS
<1>3. QED
  BY <1>1, <1>2, NothingCounted DEF Counted

LEMMA ListedResponse ==
  ASSUME HealthShapes, ResponseInv, UNCHANGED conf,
         NEW q \in HealthRequests, EventsListed(conf.provider, q)
  PROVE  ResponseInv'
<1> DEFINE h == health[q]
           p == conf.provider
<1>1. UNCHANGED counters /\ h.pc = "list"
  BY DEF EventsListed
<1>2. AnswerOK(h) /\ (h.alone /\ p # "alicloud" => counters = NoCounters)
  BY <1>1, AloneBefore DEF ResponseInv, CountsAnswer, WorkOK
<1>3. CASE Only(q, "idle", {}, {}, {}, {}, {}, {})
  <2>1. WorkOK(p, health'[q]) /\ CountsAnswer(p, counters', health'[q])
    BY <1>3, NothingToCount DEF Only
  <2>2. \A r \in HealthRequests \ {q} : ~health'[r].alone
    BY <1>1, <1>3, OthersMet
  <2>3. QED
    BY <1>3, <2>1, <2>2, ResponseOne
<1>4. CASE \E S \in SUBSET Affecteds : Only(q, "count", {}, h.answer, h.answer, {}, {}, S)
  <2>1. PICK S \in SUBSET Affecteds : Only(q, "count", {}, h.answer, h.answer, {}, {}, S)
    BY <1>4
  <2>2. health'[q].pc = "count" /\ Waiting(health'[q]) = {}
    BY <2>1 DEF Only, Waiting
  <2>3. health'[q].answer \ health'[q].todo = {} /\ EventsOf({}) = {}
    BY <2>1 DEF Only, EventsOf
  <2>4. AnswerOK(health'[q]) /\ BatchesOK(health'[q])
    BY <1>2, <2>1 DEF Only, AnswerOK, BatchesOK
  <2>5. WorkOK(p, health'[q])
    BY <2>2, <2>3, <2>4, FS_EmptySet DEF WaitingOK, WorkOK
  <2>6. ASSUME p # "alicloud", health'[q].alone PROVE CountsAnswer(p, counters', health'[q])
    <3>1. health'[q].alone => h.alone
      BY IdleFields, HealthFields DEF EventsListed, HealthShapes, Healths
    <3>2. counters' = NoCounters
      BY <1>1, <1>2, <2>6, <3>1
    <3>3. Those(health'[q], {} \ {}) = {}
      BY DEF Those
    <3>4. Counted(p, counters', {}, {})
      BY <3>2, CountedNothing
    <3>5. QED
      BY <2>2, <2>3, <3>3, <3>4 DEF CountsAnswer
  <2>7. \A r \in HealthRequests \ {q} : ~health'[r].alone
    BY <1>1, <2>1, OthersMet
  <2>8. QED
    BY <2>1, <2>5, <2>6, <2>7, ResponseOne
<1>5. QED
  BY <1>3, <1>4, ListedOnly

-----------------------------------------------------------------------------
\* One event more is counted: the total of those that have a property grows by one
\* if it has it.
LEMMA OneMore ==
  ASSUME NEW S, IsFiniteSet(S), NEW x, x \notin S, NEW T \in SUBSET (S \cup {x})
  PROVE  Cardinality(T) = Cardinality(T \ {x}) + IF x \in T THEN 1 ELSE 0
<1>1. IsFiniteSet(T \ {x}) /\ Cardinality(T \ {x}) \in Nat
  BY FS_Subset, FS_CardinalityType
<1>2. CASE x \in T
  <2>1. T = (T \ {x}) \cup {x} /\ x \notin T \ {x}
    BY <1>2
  <2>2. Cardinality((T \ {x}) \cup {x}) = Cardinality(T \ {x}) + 1
    BY <1>1, <2>1, FS_AddElement
  <2>3. QED
    BY <1>2, <2>1, <2>2
<1>3. CASE x \notin T
  <2>1. T \ {x} = T
    BY <1>3
  <2>2. Cardinality(T \ {x}) = Cardinality(T)
    BY <2>1, Zenon
  <2>3. QED
    BY <1>1, <1>3, <2>2
<1>4. QED
  BY <1>2, <1>3

LEMMA CountOneMore ==
  ASSUME NEW p, p # "alicloud", NEW S, IsFiniteSet(S), NEW E, NEW e \in Events, NEW state \in States,
         Counted(p, counters, S, E), counters \in CounterType, <<e, state>> \notin S,
         NEW T, E \cap T = {},
         CountsOneMore(p, e, state, T)
  PROVE  Counted(p, counters', S \cup {<<e, state>>}, IF p = "aws" THEN E ELSE E \cup T)
<1> DEFINE x == <<e, state>>
           S1 == S \cup {x}
           E1 == IF p = "aws" THEN E ELSE E \cup T
<1>1. x[2] = state
  OBVIOUS
<1>2. DOMAIN counters.event = S /\ \A y \in S : counters.event[y] = 1
  BY DEF Counted
<1>3. DOMAIN counters'.event = S1 /\ \A y \in S1 : counters'.event[y] = 1
  <2>1. counters'.event = Adding(counters.event, {x}) /\ x \notin S
    BY DEF CountsOneMore
  <2> HIDE DEF x
  <2>2. QED
    BY <1>2, <2>1 DEF Adding
<1>4. DOMAIN counters'.affected = E1 /\ \A y \in E1 : counters'.affected[y] = 1
  <2>1. DOMAIN counters.affected = E /\ \A y \in E : counters.affected[y] = 1
    BY DEF Counted
  <2>2. CASE p = "aws"
    BY <2>1, <2>2 DEF CountsOneMore
  <2>3. CASE p # "aws"
    BY <2>1, <2>3 DEF Adding, CountsOneMore
  <2>4. QED
    BY <2>2, <2>3
<1>5. counters'.closed = Cardinality({y \in S1 : y[2] = "closed"})
  <2> DEFINE C == {y \in S1 : y[2] = "closed"}
  <2>1. Cardinality(C) = Cardinality(C \ {x}) + IF x \in C THEN 1 ELSE 0
    BY OneMore
  <2>2. C \ {x} = {y \in S : y[2] = "closed"} /\ (x \in C <=> state = "closed")
    BY <1>1
  <2>3. QED
    BY <2>1, <2>2 DEF Counted, CountsOneMore
<1>6. counters'.opened = Cardinality({y \in S1 : Opened(p, y[2])})
  <2> DEFINE C == {y \in S1 : Opened(p, y[2])}
  <2>1. Cardinality(C) = Cardinality(C \ {x}) + IF x \in C THEN 1 ELSE 0
    BY OneMore
  <2>2. C \ {x} = {y \in S : Opened(p, y[2])} /\ (x \in C <=> Opened(p, state))
    BY <1>1
  <2>3. QED
    BY <2>1, <2>2 DEF Counted, CountsOneMore
<1>7. QED
  BY <1>3, <1>4, <1>5, <1>6 DEF Counted

LEMMA CountResponse ==
  ASSUME HealthShapes, ResponseInv, UNCHANGED conf,
         NEW q \in HealthRequests, NEW e \in Events, NEW state \in States,
         CountEvent(conf.provider, q, e, state)
  PROVE  ResponseInv'
<1> DEFINE h == health[q]
           h1 == health'[q]
           p == conf.provider
           x == <<e, state>>
           done == h.answer \ h.todo
           W == Waiting(h)
<1>1. h.pc = "count" /\ x \in h.todo /\ h.todo \subseteq h.answer /\ h.answer \subseteq Pairs
  BY HealthFields DEF CountEvent, HealthShape
<1>2. /\ h1.pc = "count" /\ h1.answer = h.answer /\ h1.todo = h.todo \ {x} /\ h1.entities = h.entities
      /\ \/ p = "aws" /\ h1.batch = h.batch \cup {e} /\ h1.batches = h.batches
         \/ p = "aws" /\ h1.batch = {} /\ h1.batches = h.batches \cup {h.batch \cup {e}}
         \/ p # "aws" /\ h1.batch = {} /\ h1.batches = h.batches
  <2> DEFINE batch == h.batch \cup {e}
             full == Cardinality(batch) = BatchSize
  <2>1. Only(q, "count", h.left, h.answer, h.todo \ {x},
             IF p # "aws" \/ full THEN {} ELSE batch,
             IF p = "aws" /\ full THEN h.batches \cup {batch} ELSE h.batches, h.entities)
    BY CountOnly
  <2> HIDE DEF full
  <2>2. QED
    BY <2>1 DEF Only
<1>3. AnswerOK(h) /\ BatchesOK(h) /\ WaitingOK(p, h)
  BY DEF ResponseInv, WorkOK
<1>4. AnswerOK(h1)
  BY <1>2, <1>3 DEF AnswerOK
<1>5. \A y \in done : y[1] # e
  <2>1. \A y \in done : y # x /\ y \in h.answer /\ x \in h.answer
    BY <1>1
  <2>2. x[1] = e
    OBVIOUS
  <2>3. QED
    BY <1>3, <2>1, <2>2 DEF AnswerOK
<1>6. e \notin EventsOf(done)
  BY <1>5 DEF EventsOf
<1>7. /\ IsFiniteSet(done) /\ W \subseteq EventsOf(done) /\ (p # "aws" => W = {})
  BY <1>1, <1>3 DEF WaitingOK
<1>8. WorkOK(p, h1) /\ (h.alone /\ p # "alicloud" => CountsAnswer(p, counters', h1))
  <2>2. h.batch \subseteq W /\ \A b \in h.batches : b \subseteq W
    BY DEF Waiting
  <2>3. e \notin W /\ e \notin h.batch /\ \A b \in h.batches : e \notin b
    BY <1>6, <1>7, <2>2
  <2>4. BatchesOK(h1)
    <3>1. /\ \A a, b \in h.batches : a = b \/ a \cap b = {}
          /\ \A b \in h.batches : b \cap (h.batch \cup {e}) = {}
      BY <1>3, <2>3 DEF BatchesOK
    <3> HIDE DEF h, h1
    <3>2. QED
      BY <1>2, <3>1 DEF BatchesOK
  <2>5. Waiting(h1) = IF p = "aws" THEN W \cup {e} ELSE {}
    <3>1. CASE p = "aws" /\ h1.batch = h.batch \cup {e} /\ h1.batches = h.batches
      BY <3>1 DEF Waiting
    <3>2. CASE p = "aws" /\ h1.batch = {} /\ h1.batches = h.batches \cup {h.batch \cup {e}}
      <4>1. UNION h1.batches = (UNION h.batches) \cup (h.batch \cup {e})
        BY <3>2
      <4>2. QED
        BY <3>2, <4>1 DEF Waiting
    <3>3. CASE p # "aws" /\ h1.batch = {} /\ h1.batches = h.batches
      BY <1>7, <3>3 DEF Waiting
    <3>4. QED
      BY <1>2, <3>1, <3>2, <3>3
  <2>6. h1.answer \ h1.todo = done \cup {x} /\ x \notin done
    BY <1>1, <1>2
  <2>7. EventsOf(done \cup {x}) = EventsOf(done) \cup {e}
    <3>1. x[1] = e
      OBVIOUS
    <3> HIDE DEF x, done
    <3>2. QED
      BY <3>1 DEF EventsOf
  <2>8. EventsOf(done \cup {x}) \ Waiting(h1)
          = IF p = "aws" THEN EventsOf(done) \ W ELSE (EventsOf(done) \ W) \cup {e}
    <3>1. CASE p = "aws"
      BY <1>6, <2>5, <2>7, <3>1
    <3>2. CASE p # "aws"
      BY <1>7, <2>5, <2>7, <3>2
    <3>3. QED
      BY <3>1, <3>2
  <2>9. IsFiniteSet(done \cup {x})
    BY <1>7, FS_AddElement
  <2>10. Waiting(h1) \subseteq EventsOf(done \cup {x}) /\ (p # "aws" => Waiting(h1) = {})
    BY <1>7, <2>5, <2>7
  <2>11. WorkOK(p, h1)
    <3> HIDE DEF h1, done
    <3>1. QED
      BY <1>2, <1>4, <2>4, <2>6, <2>9, <2>10 DEF WorkOK, WaitingOK
  <2>12. ASSUME h.alone, p # "alicloud" PROVE CountsAnswer(p, counters', h1)
    <3> DEFINE D == EventsOf(done) \ W
               E == Those(h, D)
               T == Those(h, {e})
               E1 == Those(h1, EventsOf(done \cup {x}) \ Waiting(h1))
    <3>1. Counted(p, counters, done, E)
      BY <1>1, <2>12, AloneBefore DEF CountsAnswer
    <3>2. e \notin D /\ counters \in CounterType
      BY <1>6 DEF HealthShapes, CounterType
    <3>3. E \cap T = {}
      BY <3>2 DEF Those
    <3>4. E1 = IF p = "aws" THEN E ELSE E \cup T
      <4>1. \A F : Those(h1, F) = Those(h, F)
        BY <1>2 DEF Those
      <4>2. Those(h, D \cup {e}) = E \cup T
        BY DEF Those
      <4> HIDE DEF D, E, T, h1, h, done, W, x
      <4>3. E1 = Those(h, IF p = "aws" THEN D ELSE D \cup {e})
        BY <2>8, <4>1 DEF D
      <4>4. QED
        BY <4>2, <4>3 DEF E
    <3> HIDE DEF E, D, done, W, E1, T
    <3>5. CountsOneMore(p, e, state, T)
      BY CountEffect DEF T
    <3>6. IsFiniteSet(done) /\ <<e, state>> \notin done
      BY <1>7, <2>6
    <3> HIDE DEF p
    <3>7. Counted(p, counters', done \cup {x}, IF p = "aws" THEN E ELSE E \cup T)
      BY <2>12, <3>1, <3>2, <3>3, <3>5, <3>6, CountOneMore
    <3>8. Counted(p, counters', done \cup {x}, E1)
      BY <3>4, <3>7
    <3> HIDE DEF h1
    <3>9. QED
      BY <1>2, <2>6, <3>8 DEF CountsAnswer, E1
  <2>13. QED
    BY <2>11, <2>12
<1>9. \E b, bs : Only(q, "count", h.left, h.answer, h.todo \ {x}, b, bs, h.entities)
  BY CountOnly
<1>10. \A r \in HealthRequests \ {q} : ~health'[r].alone
  BY <1>1, <1>9, OthersMet
<1>11. h1.alone => h.alone
  BY DEF CountEvent, HealthShapes
<1>12. QED
  BY <1>8, <1>10, <1>11, <1>9, ResponseOne

LEMMA CountedResponse ==
  ASSUME HealthShapes, ResponseInv, UNCHANGED conf,
         NEW q \in HealthRequests, EventsCounted(q)
  PROVE  ResponseInv'
<1> DEFINE h == health[q]
           h1 == health'[q]
<1>1. /\ h.pc = "count" /\ h.todo = {} /\ UNCHANGED counters
      /\ h1.pc = "affected" /\ h1.answer = h.answer /\ h1.todo = {} /\ h1.batch = {}
      /\ h1.batches = h.batches \cup ({h.batch} \ {{}}) /\ h1.entities = h.entities
  BY CountedOnly DEF Only, EventsCounted, AllBatches
<1>2. AnswerOK(h) /\ BatchesOK(h) /\ WaitingOK(conf.provider, h)
  BY DEF ResponseInv, WorkOK
<1>3. Waiting(h1) = Waiting(h) /\ h1.answer \ h1.todo = h.answer \ h.todo
  BY <1>1 DEF Waiting
<1>4. AnswerOK(h1) /\ BatchesOK(h1)
  BY <1>1, <1>2 DEF AnswerOK, BatchesOK
<1>5. WorkOK(conf.provider, h1)
  BY <1>1, <1>2, <1>3, <1>4 DEF WaitingOK, WorkOK
<1>6. h1.alone /\ conf.provider # "alicloud" => CountsAnswer(conf.provider, counters', h1)
  <2>1. h1.alone => h.alone
    BY DEF EventsCounted, HealthShapes
  <2>2. Those(h1, EventsOf(h1.answer \ h1.todo) \ Waiting(h1))
          = Those(h, EventsOf(h.answer \ h.todo) \ Waiting(h))
    BY <1>1, <1>3 DEF Those
  <2> HIDE DEF h1
  <2>3. QED
    BY <1>1, <1>3, <2>1, <2>2, AloneBefore DEF CountsAnswer
<1>7. QED
  BY <1>1, <1>5, <1>6, CountedOnly, OthersMet, ResponseOne

LEMMA AffectedResponse ==
  ASSUME HealthShapes, ResponseInv, UNCHANGED conf,
         NEW q \in HealthRequests, CountAffected(q)
  PROVE  ResponseInv'
<1> DEFINE h == health[q]
           h1 == health'[q]
           p == conf.provider
           done == h.answer \ h.todo
<1>1. h.pc = "affected" /\ h.todo = {} /\ h.batch = {} /\ h.batches \in SUBSET SUBSET Events
  BY HealthFields DEF CountAffected, HealthShape
<1>2. PICK batch \in h.batches :
        /\ Only(q, "affected", h.left, h.answer, {}, {}, h.batches \ {batch}, h.entities)
        /\ counters' = [counters EXCEPT !.affected = Inc(@, EntitiesOf(q, batch))]
  BY AffectedOnly
<1>3. /\ h1.pc = "affected" /\ h1.answer = h.answer /\ h1.todo = {} /\ h1.batch = {}
      /\ h1.batches = h.batches \ {batch} /\ h1.entities = h.entities
  BY <1>2 DEF Only
<1>4. /\ counters'.affected = Adding(counters.affected, Those(h, batch))
      /\ counters'.event = counters.event
      /\ counters'.opened = counters.opened /\ counters'.closed = counters.closed
  BY <1>2, AffectedEffect
<1>5. AnswerOK(h) /\ BatchesOK(h) /\ WaitingOK(p, h)
  BY DEF ResponseInv, WorkOK
<1>6. /\ IsFiniteSet(done) /\ Waiting(h) \subseteq EventsOf(done) /\ (p # "aws" => Waiting(h) = {})
  BY <1>1, <1>5 DEF WaitingOK
<1>7. Waiting(h1) = Waiting(h) \ batch /\ batch \subseteq Waiting(h)
  BY <1>1, <1>3, <1>5 DEF Waiting, BatchesOK
<1>8. h1.answer \ h1.todo = done
  BY <1>1, <1>3
<1>9. WorkOK(p, h1)
  <2>1. AnswerOK(h1) /\ BatchesOK(h1)
    BY <1>3, <1>5 DEF AnswerOK, BatchesOK
  <2>2. Waiting(h1) \subseteq EventsOf(done) /\ (p # "aws" => Waiting(h1) = {})
    BY <1>6, <1>7
  <2> HIDE DEF h1, done
  <2>3. QED
    BY <1>3, <1>6, <1>8, <2>1, <2>2 DEF WorkOK, WaitingOK
<1>10. ASSUME p # "alicloud", h.alone PROVE CountsAnswer(p, counters', h1)
  <2> DEFINE E == Those(h, EventsOf(done) \ Waiting(h))
             E1 == Those(h1, EventsOf(done) \ Waiting(h1))
             T == Those(h, batch)
  <2>1. Counted(p, counters, done, E)
    BY <1>1, <1>10, AloneBefore DEF CountsAnswer
  <2>2. E1 = E \cup T /\ E \cap T = {}
    <3>1. EventsOf(done) \ Waiting(h1) = (EventsOf(done) \ Waiting(h)) \cup batch
      BY <1>6, <1>7
    <3>2. E1 = Those(h, (EventsOf(done) \ Waiting(h)) \cup batch)
      BY <1>3, <3>1 DEF Those
    <3>3. QED
      BY <1>7, <3>2 DEF Those
  <2>3. DOMAIN counters.affected = E /\ \A x \in E : counters.affected[x] = 1
    BY <2>1 DEF Counted
  <2>4. DOMAIN counters'.affected = E1 /\ \A x \in E1 : counters'.affected[x] = 1
    <3> HIDE DEF E1, E, T, done
    <3>1. counters'.affected = Adding(counters.affected, T)
      BY <1>4 DEF T
    <3>2. QED
      BY <2>2, <2>3, <3>1 DEF Adding
  <2>5. Counted(p, counters', done, E1)
    <3> HIDE DEF E1, E, done
    <3>1. QED
      BY <1>4, <2>1, <2>4 DEF Counted
  <2> HIDE DEF h1, done
  <2>6. QED
    BY <1>3, <1>8, <2>5 DEF CountsAnswer
<1>11. h1.alone => h.alone
  BY DEF CountAffected, HealthShapes
<1>12. \A r \in HealthRequests \ {q} : ~health'[r].alone
  BY <1>1, <1>2, OthersMet
<1>13. QED
  BY <1>2, <1>9, <1>10, <1>11, <1>12, ResponseOne

LEMMA ResponseStep == ProcessInv /\ [Next]_processVars => ProcessInv'
<1> SUFFICES ASSUME ProcessInv, [Next]_processVars PROVE ProcessInv'
  OBVIOUS
<1> HealthShapes /\ ResponseInv /\ UNCHANGED conf
  BY ConfStays DEF ProcessInv
<1>1. CASE HealthStep(conf.provider)
  <2>1. HealthShapes'
    BY ShapesStep
  <2>2. ASSUME NEW q \in HealthRequests, EndHealth(q) PROVE ResponseInv'
    <3>1. Only(q, "idle", {}, {}, {}, {}, {}, {}) /\ health[q].pc # "idle"
      BY <2>2, EndOnly DEF EndHealth, Complete
    <3>2. WorkOK(conf.provider, health'[q]) /\ CountsAnswer(conf.provider, counters', health'[q])
      BY <3>1, NothingToCount DEF Only
    <3>3. QED
      BY <3>1, <3>2, OthersMet, ResponseOne
  <2>3. ASSUME FeedChanges PROVE ResponseInv'
    BY <2>3 DEF FeedChanges, ResponseInv
  <2>4. ASSUME NEW q \in HealthRequests,
               \/ BeginHealth(conf.provider, q) \/ ListEvents(conf.provider, q)
               \/ EventsListed(conf.provider, q)
        PROVE  ResponseInv'
    BY <2>4, BeginResponse, ListResponse, ListedResponse
  <2>5. ASSUME NEW q \in HealthRequests, EventsCounted(q) \/ CountAffected(q) PROVE ResponseInv'
    BY <2>5, CountedResponse, AffectedResponse
  <2>6. ASSUME NEW q \in HealthRequests, NEW e \in Events, NEW state \in States,
               CountEvent(conf.provider, q, e, state)
        PROVE  ResponseInv'
    BY <2>6, CountResponse
  <2>7. ResponseInv'
    <3>1. \/ \E q \in HealthRequests :
               \/ BeginHealth(conf.provider, q) \/ ListEvents(conf.provider, q)
               \/ EventsListed(conf.provider, q)
          \/ \E q \in HealthRequests : EventsCounted(q) \/ CountAffected(q)
          \/ \E q \in HealthRequests : EndHealth(q)
          \/ \E q \in HealthRequests, e \in Events, state \in States :
               CountEvent(conf.provider, q, e, state)
          \/ FeedChanges
      BY <1>1 DEF HealthStep
    <3>2. CASE \E q \in HealthRequests, e \in Events, state \in States :
               CountEvent(conf.provider, q, e, state)
      BY <2>6, <3>2
    <3>3. CASE \E q \in HealthRequests :
               \/ BeginHealth(conf.provider, q) \/ ListEvents(conf.provider, q)
               \/ EventsListed(conf.provider, q)
      BY <2>4, <3>3
    <3>4. CASE \E q \in HealthRequests : EventsCounted(q) \/ CountAffected(q) \/ EndHealth(q)
      BY <2>2, <2>5, <3>4
    <3>5. QED
      BY <2>3, <3>1, <3>2, <3>3, <3>4
  <2>8. QED
    BY <2>1, <2>7 DEF ProcessInv
<1>2. CASE UNCHANGED healthVars
  BY <1>2, ShapesStep DEF healthVars, ProcessInv, ResponseInv
<1>3. CASE Die
  <2>1. HealthShapes' /\ NothingYet'
    BY <1>3, FreshNext DEF Die, FreshHealth
  <2>2. QED
    BY <2>1, IdleFields, NothingToCount DEF NothingYet, ProcessInv, ResponseInv
<1>4. QED
  BY <1>1, <1>2, <1>3 DEF Next, Start, Rotation, HealthRequest, BucketRequest, processVars

LEMMA ResponseBegins == Init => ProcessInv
<1> SUFFICES ASSUME Init PROVE ProcessInv
  OBVIOUS
<1>1. HealthShapes /\ NothingYet
  BY FreshShapes DEF Init, HealthInit, FreshHealth
<1>2. QED
  BY <1>1, IdleFields DEF NothingYet, ProcessInv, ResponseInv, WorkOK, AnswerOK, BatchesOK, WaitingOK

\* Whatever requests there are and however they overlap: the response of one that
\* meets no other counts each event of the answer once and each of the affected
\* entities once, in whatever pages and batches AWS has them, and nothing that an
\* earlier request, alone or not, has counted.
THEOREM HealthCountsAnswer == Spec => []HealthResponse
<1>1. ProcessInv => HealthResponse
  <2> SUFFICES ASSUME ProcessInv, NEW q \in HealthRequests, Complete(q), health[q].alone,
                      conf.provider # "alicloud"
               PROVE  CountsItsAnswer(conf.provider, q)
    BY DEF HealthResponse, ResponseIsAnswer
  <2> DEFINE h == health[q]
  <2>1. h.pc = "affected" /\ h.todo = {} /\ Waiting(h) = {}
        /\ \A x \in h.entities : x[1] \in EventsOf(h.answer)
    BY HealthFields DEF Complete, ProcessInv, HealthShape, Waiting
  <2>2. Those(h, EventsOf(h.answer \ h.todo) \ Waiting(h)) = h.entities /\ h.answer \ h.todo = h.answer
    BY <2>1 DEF Those
  <2>3. CountsAnswer(conf.provider, counters, h)
    BY DEF ProcessInv, ResponseInv
  <2>4. Counted(conf.provider, counters, h.answer, h.entities)
    BY <2>1, <2>2, <2>3 DEF CountsAnswer
  <2>5. QED
    BY <2>4 DEF Counted, CountsItsAnswer
<1>2. QED
  BY <1>1, ResponseBegins, ResponseStep, PTL DEF Spec

-----------------------------------------------------------------------------
(* Recursion over the subsets of a finite set                              *)

\* Of a class of subsets of a finite set one is least.
LEMMA LeastSet ==
  ASSUME NEW S, IsFiniteSet(S), NEW B, B \subseteq SUBSET S, B # {}
  PROVE  \E T \in B : \A U \in B : ~(U \subseteq T /\ U # T)
<1>1. FiniteSubsetsOf(S) = SUBSET S
  BY FS_FiniteSubsetsOfFinite
<1>2. IsWellFoundedOn(StrictSubsetOrdering(S), SUBSET S)
  BY <1>1, FS_StrictSubsetOrderingWellFounded
<1>3. \E T \in B : \A U \in B : ~ (<<U, T>> \in StrictSubsetOrdering(S))
  BY <1>2, WFMin
<1>4. QED
  BY <1>3 DEF StrictSubsetOrdering

\* A finite set of numbers has a maximum.
LEMMA MaxOfFinite ==
  ASSUME NEW S, IsFiniteSet(S), S # {}, \A x \in S : x \in Int
  PROVE  Max(S) \in S /\ \A x \in S : x <= Max(S)
<1> DEFINE Above(x) == {y \in S : y >= x}
           B == {Above(x) : x \in S}
<1>1. PICK T \in B : \A U \in B : ~(U \subseteq T /\ U # T)
  <2>1. B \subseteq SUBSET S /\ B # {}
    OBVIOUS
  <2> HIDE DEF B
  <2>2. QED
    BY <2>1, LeastSet
<1>2. PICK x \in S : T = Above(x)
  OBVIOUS
<1>3. ASSUME NEW y \in S PROVE x >= y
  <2>1. x \in Int /\ y \in Int /\ \A z \in S : z \in Int
    OBVIOUS
  <2>2. CASE y > x
    <3>1. x \in Above(x) /\ x \notin Above(y)
      BY <2>1, <2>2
    <3>2. \A z \in S : z >= y => z >= x
      BY <2>1, <2>2
    <3>3. Above(y) \subseteq T /\ Above(y) # T
      BY <1>2, <3>1, <3>2
    <3>4. QED
      BY <1>1, <3>3
  <2>3. QED
    BY <2>1, <2>2
<1>4. QED
  BY <1>3 DEF Max

\* f is the recursive function on the subsets of T with value b for the empty
\* set and h[s][f[r[s]]] for another set s; r takes something out of s.
Recursive(f, T, R, b, h, r) ==
    /\ f \in [SUBSET T -> R]
    /\ \A s \in SUBSET T : f[s] = IF s = {} THEN b ELSE h[s][f[r[s]]]

Maps(h, S, R) == h \in [SUBSET S -> [R -> R]]

Reduces(r, S) == \A s \in SUBSET S : s # {} => r[s] \subseteq s /\ r[s] # s

LEMMA OneRecursive ==
  ASSUME NEW S, IsFiniteSet(S), NEW R, NEW b, NEW h, NEW r, Reduces(r, S),
         NEW T \in SUBSET S, NEW U \in SUBSET T, NEW f, NEW g,
         Recursive(f, T, R, b, h, r), Recursive(g, U, R, b, h, r)
  PROVE  f[U] = g[U]
<1> DEFINE B == {s \in SUBSET U : f[s] # g[s]}
<1>1. SUFFICES ASSUME B # {} PROVE FALSE
  OBVIOUS
<1>2. PICK s \in B : \A u \in B : ~(u \subseteq s /\ u # s)
  <2>1. B \subseteq SUBSET S
    OBVIOUS
  <2> HIDE DEF B
  <2>2. QED
    BY <1>1, <2>1, LeastSet
<1>3. s \in SUBSET T /\ s \in SUBSET U /\ f[s] # g[s] /\ s # {}
  BY DEF Recursive
<1>4. r[s] \subseteq s /\ r[s] # s
  BY <1>3 DEF Reduces
<1>5. f[r[s]] = g[r[s]]
  BY <1>2, <1>3, <1>4
<1>6. QED
  BY <1>3, <1>5 DEF Recursive

LEMMA SomeRecursive ==
  ASSUME NEW S, IsFiniteSet(S), NEW R, NEW b \in R, NEW h, Maps(h, S, R),
         NEW r, Reduces(r, S)
  PROVE  \E f : Recursive(f, S, R, b, h, r)
<1> USE DEF Maps
<1> DEFINE Has(T) == \E f : Recursive(f, T, R, b, h, r)
           B == {T \in SUBSET S : ~Has(T)}
<1>1. SUFFICES ASSUME B # {} PROVE FALSE
  OBVIOUS
<1>2. PICK T \in B : \A U \in B : ~(U \subseteq T /\ U # T)
  <2>1. B \subseteq SUBSET S
    OBVIOUS
  <2> HIDE DEF B
  <2>2. QED
    BY <1>1, <2>1, LeastSet
<1>3. T \in SUBSET S /\ ~Has(T)
  OBVIOUS
<1> DEFINE F(U) == CHOOSE f : Recursive(f, U, R, b, h, r)
           H == [s \in SUBSET T |-> IF s = {} THEN b ELSE h[s][F(r[s])[r[s]]]]
<1>4. ASSUME NEW U \in SUBSET T, U # T PROVE Recursive(F(U), U, R, b, h, r)
  <2>1. Has(U)
    BY <1>2, <1>3, <1>4
  <2> HIDE DEF B
  <2>2. QED
    BY <2>1
<1>5. \A s \in SUBSET T : s # {} => r[s] \in SUBSET T /\ r[s] # T /\ r[s] \subseteq s /\ r[s] # s
  BY <1>3 DEF Reduces
<1> HIDE DEF F, B
<1>6. ASSUME NEW s \in SUBSET T, s # {} PROVE F(r[s])[r[s]] \in R
  <2> DEFINE u == r[s]
  <2>1. u \in SUBSET T /\ u # T
    BY <1>5, <1>6
  <2> HIDE DEF u
  <2>2. Recursive(F(u), u, R, b, h, r)
    BY <1>4, <2>1
  <2>3. QED
    BY <2>2 DEF Recursive, u
<1>7. H \in [SUBSET T -> R]
  BY <1>3, <1>6
<1>8. ASSUME NEW s \in SUBSET T PROVE H[s] = IF s = {} THEN b ELSE h[s][H[r[s]]]
  <2> DEFINE u == r[s]
  <2>1. CASE s = {}
    BY <2>1
  <2>2. CASE s # {}
    <3>1. u \in SUBSET T /\ u # T /\ Recursive(F(u), u, R, b, h, r)
      BY <1>4, <1>5, <2>2
    <3>2. F(u)[u] = IF u = {} THEN b ELSE h[u][F(u)[r[u]]]
      BY <3>1 DEF Recursive
    <3>3. u # {} => F(r[u])[r[u]] = F(u)[r[u]]
      <4>1. SUFFICES ASSUME u # {} PROVE F(r[u])[r[u]] = F(u)[r[u]]
        OBVIOUS
      <4>2. r[u] \in SUBSET u /\ u \in SUBSET S /\ Recursive(F(r[u]), r[u], R, b, h, r)
        BY <1>3, <1>4, <1>5, <3>1, <4>1
      <4> HIDE DEF u, F, H, Has
      <4>3. QED
        BY <3>1, <4>1, <4>2, OneRecursive
    <3>4. H[u] = F(u)[u]
      BY <3>1, <3>2, <3>3
    <3>5. QED
      BY <2>2, <3>4
  <2>3. QED
    BY <2>1, <2>2
<1>9. Recursive(H, T, R, b, h, r)
  <2> HIDE DEF H
  <2>1. QED
    BY <1>7, <1>8 DEF Recursive
<1>10. QED
  BY <1>3, <1>9

\* A function for which this holds as long as the values are in R.
Recurs(f, S, R, b, h, r) ==
    /\ f = [s \in SUBSET S |-> f[s]] /\ f[{}] = b
    /\ \A s \in SUBSET S : s # {} /\ f[r[s]] \in R => f[s] = h[s][f[r[s]]]

LEMMA IsRecursive ==
  ASSUME NEW S, IsFiniteSet(S), NEW R, NEW b \in R, NEW h, Maps(h, S, R),
         NEW r, Reduces(r, S), NEW f, Recurs(f, S, R, b, h, r)
  PROVE  Recursive(f, S, R, b, h, r)
<1> USE DEF Maps, Recurs
<1> DEFINE B == {s \in SUBSET S : f[s] \notin R}
<1>1. B = {}
  <2>1. SUFFICES ASSUME B # {} PROVE FALSE
    OBVIOUS
  <2>2. PICK s \in B : \A u \in B : ~(u \subseteq s /\ u # s)
    <3>1. B \subseteq SUBSET S
      OBVIOUS
    <3> HIDE DEF B
    <3>2. QED
      BY <2>1, <3>1, LeastSet
  <2>3. s \in SUBSET S /\ f[s] \notin R /\ s # {}
    OBVIOUS
  <2>4. r[s] \subseteq s /\ r[s] # s
    BY <2>3 DEF Reduces
  <2>5. f[r[s]] \in R
    BY <2>2, <2>3, <2>4
  <2>6. h[s] \in [R -> R]
    BY <2>3
  <2>7. h[s][f[r[s]]] \in R
    BY <2>5, <2>6
  <2>8. f[s] = h[s][f[r[s]]]
    BY <2>3, <2>5
  <2>9. QED
    BY <2>3, <2>7, <2>8
<1>2. \A s \in SUBSET S : f[s] \in R
  BY <1>1
<1>3. \A s \in SUBSET S : s # {} => r[s] \in SUBSET S
  BY DEF Reduces
<1> HIDE DEF B
<1>4. QED
  BY <1>2, <1>3 DEF Recursive

-----------------------------------------------------------------------------
(* The total size of a set of objects                                      *)

One(s) == CHOOSE x \in s : TRUE
WithoutOne(S) == [s \in SUBSET S |-> s \ {One(s)}]
SizeAdded(b, S) ==
    [s \in SUBSET S |-> [v \in Nat |-> IF s = {} THEN v ELSE v + b[One(s)].size]]

LEMMA OneOf == ASSUME NEW s, s # {} PROVE One(s) \in s
BY DEF One

LEMMA SizesAdd ==
  ASSUME NEW S, IsFiniteSet(S), NEW b, \A k \in S : b[k].size \in Nat
  PROVE  /\ Maps(SizeAdded(b, S), S, Nat)
         /\ Reduces(WithoutOne(S), S)
<1>1. \A s \in SUBSET S : s # {} => One(s) \in s
  BY OneOf
<1>2. QED
  BY <1>1 DEF Maps, SizeAdded, WithoutOne, Reduces

LEMMA TotalIsRecursive ==
  ASSUME NEW S, IsFiniteSet(S), NEW b, \A k \in S : b[k].size \in Nat, NEW T \in SUBSET S
  PROVE  \E f : Recursive(f, T, Nat, 0, SizeAdded(b, S), WithoutOne(S)) /\ f[T] = Total(b, T)
<1> DEFINE Step(f) == [s \in SUBSET T |-> IF s = {} THEN 0 ELSE f[s \ {One(s)}] + b[One(s)].size]
           iter == CHOOSE f : f = Step(f)
<1>1. IsFiniteSet(T) /\ \A k \in T : b[k].size \in Nat
  BY FS_Subset
<1>2. Maps(SizeAdded(b, T), T, Nat) /\ Reduces(WithoutOne(T), T)
  BY <1>1, SizesAdd
<1>3. PICK f : Recursive(f, T, Nat, 0, SizeAdded(b, T), WithoutOne(T))
  BY <1>1, <1>2, SomeRecursive
<1>4. f = Step(f)
  BY <1>3 DEF Recursive, SizeAdded, WithoutOne
<1>5. iter = Step(iter)
  <2> HIDE DEF Step
  <2>1. QED
    BY <1>4
<1>6. Total(b, T) = iter[T]
  BY DEF Total, FoldSet, MapThenFoldSet, One
<1> HIDE DEF iter
<1>7. Recursive(iter, T, Nat, 0, SizeAdded(b, T), WithoutOne(T))
  <2>1. iter = [s \in SUBSET T |-> iter[s]]
    BY <1>5
  <2>2. iter[{}] = 0
    BY <1>5
  <2> DEFINE h == SizeAdded(b, T)
             r == WithoutOne(T)
  <2>3. ASSUME NEW s \in SUBSET T, s # {}, iter[r[s]] \in Nat PROVE iter[s] = h[s][iter[r[s]]]
    BY <1>5, <2>3 DEF SizeAdded, WithoutOne
  <2> HIDE DEF h, r
  <2>4. Maps(h, T, Nat) /\ Reduces(r, T)
    BY <1>2 DEF h, r
  <2>5. Recurs(iter, T, Nat, 0, h, r)
    BY <2>1, <2>2, <2>3 DEF Recurs
  <2>6. Recursive(iter, T, Nat, 0, h, r)
    BY <1>1, <2>4, <2>5, IsRecursive
  <2>7. QED
    BY <2>6 DEF h, r
<1>8. Recursive(iter, T, Nat, 0, SizeAdded(b, S), WithoutOne(S))
  <2>1. \A s \in SUBSET T : s \in SUBSET S /\ SizeAdded(b, S)[s] = SizeAdded(b, T)[s]
                             /\ WithoutOne(S)[s] = WithoutOne(T)[s]
    BY DEF SizeAdded, WithoutOne
  <2>2. QED
    BY <1>7, <2>1 DEF Recursive
<1>9. QED
  BY <1>6, <1>8

LEMMA TotalFold ==
  ASSUME NEW S, IsFiniteSet(S), NEW b, \A k \in S : b[k].size \in Nat
  PROVE  /\ Total(b, S) \in Nat
         /\ S = {} => Total(b, S) = 0
         /\ S # {} => Total(b, S) = Total(b, S \ {One(S)}) + b[One(S)].size
<1> DEFINE U == S \ {One(S)}
           h == SizeAdded(b, S)
           r == WithoutOne(S)
<1>1. PICK f : Recursive(f, S, Nat, 0, h, r) /\ f[S] = Total(b, S)
  BY TotalIsRecursive
<1>2. U \in SUBSET S
  OBVIOUS
<1>3. PICK g : Recursive(g, U, Nat, 0, h, r) /\ g[U] = Total(b, U)
  <2> HIDE DEF U
  <2>1. QED
    BY <1>2, TotalIsRecursive
<1>4. f[U] = g[U]
  <2>1. Reduces(r, S)
    BY SizesAdd
  <2> HIDE DEF h, r, U
  <2>2. QED
    BY <1>1, <1>2, <1>3, <2>1, OneRecursive
<1>5. Total(b, S) \in Nat /\ (S = {} => Total(b, S) = 0)
  BY <1>1 DEF Recursive
<1>6. S # {} => f[S] = f[U] + b[One(S)].size
  BY <1>1, <1>2 DEF Recursive, SizeAdded, WithoutOne
<1>7. QED
  BY <1>1, <1>3, <1>4, <1>5, <1>6

\* The order of the objects does not matter.
LEMMA TotalOne ==
  ASSUME NEW S, IsFiniteSet(S), NEW b, \A k \in S : b[k].size \in Nat, NEW k \in S
  PROVE  Total(b, S) = Total(b, S \ {k}) + b[k].size
<1> DEFINE Exact(T) == \A x \in T : Total(b, T) = Total(b, T \ {x}) + b[x].size
           B == {T \in SUBSET S : ~Exact(T)}
<1>1. SUFFICES ASSUME B # {} PROVE FALSE
  OBVIOUS
<1>2. PICK T \in B : \A U \in B : ~(U \subseteq T /\ U # T)
  <2>1. B \subseteq SUBSET S
    OBVIOUS
  <2> HIDE DEF B
  <2>2. QED
    BY <1>1, <2>1, LeastSet
<1>3. T \in SUBSET S /\ ~Exact(T)
  OBVIOUS
<1>4. PICK x \in T : Total(b, T) # Total(b, T \ {x}) + b[x].size
  BY <1>3
<1> DEFINE e == One(T)
<1>5. ASSUME NEW U \in SUBSET S
      PROVE  /\ Total(b, U) \in Nat
             /\ U # {} => Total(b, U) = Total(b, U \ {One(U)}) + b[One(U)].size
  <2>1. IsFiniteSet(U)
    BY FS_Subset
  <2>2. QED
    BY <2>1, TotalFold
<1>6. e \in T /\ Total(b, T) = Total(b, T \ {e}) + b[e].size
  BY <1>3, <1>4, <1>5, OneOf
<1>7. x # e
  BY <1>4, <1>6
<1>8. ASSUME NEW y \in T PROVE Exact(T \ {y})
  <2>1. T \ {y} \in SUBSET S /\ T \ {y} \subseteq T /\ T \ {y} # T
    OBVIOUS
  <2>2. QED
    BY <1>2, <2>1
<1> HIDE DEF e, B
<1>9. Total(b, T \ {e}) = Total(b, (T \ {e}) \ {x}) + b[x].size
  BY <1>6, <1>7, <1>8
<1> DEFINE R == (T \ {e}) \ {x}
<1>10. Total(b, T \ {x}) = Total(b, R) + b[e].size
  <2>1. Total(b, T \ {x}) = Total(b, (T \ {x}) \ {e}) + b[e].size
    BY <1>6, <1>7, <1>8
  <2>2. (T \ {x}) \ {e} = R
    OBVIOUS
  <2> HIDE DEF R
  <2>3. QED
    BY <2>1, <2>2
<1>11. Total(b, R) \in Nat
  BY <1>3, <1>5
<1>12. b[x].size \in Nat /\ b[e].size \in Nat
  BY <1>3, <1>6
<1> HIDE DEF R
<1>13. Total(b, T) = Total(b, R) + b[x].size + b[e].size
  BY <1>6, <1>9, <1>11, <1>12 DEF R
<1>14. Total(b, T \ {x}) + b[x].size = Total(b, R) + b[x].size + b[e].size
  BY <1>10, <1>11, <1>12
<1>15. QED
  BY <1>4, <1>13, <1>14

LEMMA TotalAgree ==
  ASSUME NEW S, IsFiniteSet(S), NEW b, NEW c,
         \A k \in S : b[k].size \in Nat /\ b[k].size = c[k].size
  PROVE  Total(b, S) = Total(c, S)
<1> DEFINE B == {T \in SUBSET S : Total(b, T) # Total(c, T)}
<1>1. SUFFICES ASSUME B # {} PROVE FALSE
  OBVIOUS
<1>2. PICK T \in B : \A U \in B : ~(U \subseteq T /\ U # T)
  <2>1. B \subseteq SUBSET S
    OBVIOUS
  <2> HIDE DEF B
  <2>2. QED
    BY <1>1, <2>1, LeastSet
<1>3. T \in SUBSET S /\ Total(b, T) # Total(c, T)
  OBVIOUS
<1>4. IsFiniteSet(T) /\ \A k \in T : b[k].size \in Nat /\ c[k].size \in Nat
  BY <1>3, FS_Subset
<1>5. T # {}
  BY <1>3, <1>4, TotalFold
<1> DEFINE e == One(T)
           U == T \ {e}
<1>6. e \in T
  BY <1>5, OneOf
<1>7. Total(b, U) = Total(c, U)
  <2>1. U \in SUBSET S /\ U \subseteq T /\ U # T
    BY <1>3, <1>6
  <2>2. QED
    BY <1>2, <2>1
<1>8. Total(b, T) = Total(b, U) + b[e].size
  BY <1>4, <1>5, TotalFold
<1>9. Total(c, T) = Total(c, U) + c[e].size
  BY <1>4, <1>5, TotalFold
<1>10. b[e].size = c[e].size
  BY <1>3, <1>6
<1>11. QED
  BY <1>3, <1>7, <1>8, <1>9, <1>10

LEMMA TotalPart ==
  ASSUME NEW S, IsFiniteSet(S), NEW b, \A k \in S : b[k].size \in Nat, NEW P \in SUBSET S
  PROVE  Total(b, P) <= Total(b, S)
<1> DEFINE B == {T \in SUBSET S : P \subseteq T /\ ~(Total(b, P) <= Total(b, T))}
<1>1. SUFFICES ASSUME B # {} PROVE FALSE
  OBVIOUS
<1>2. PICK T \in B : \A U \in B : ~(U \subseteq T /\ U # T)
  <2>1. B \subseteq SUBSET S
    OBVIOUS
  <2> HIDE DEF B
  <2>2. QED
    BY <1>1, <2>1, LeastSet
<1>3. T \in SUBSET S /\ P \subseteq T /\ ~(Total(b, P) <= Total(b, T))
  OBVIOUS
<1>4. \A U \in SUBSET S : IsFiniteSet(U) /\ Total(b, U) \in Nat
  <2>1. \A U \in SUBSET S : IsFiniteSet(U) /\ \A k \in U : b[k].size \in Nat
    BY FS_Subset
  <2>2. QED
    BY <2>1, TotalFold
<1>5. PICK x \in T : x \notin P
  BY <1>3, <1>4
<1> DEFINE U == T \ {x}
<1>6. U \in SUBSET S /\ P \subseteq U /\ U \subseteq T /\ U # T
  BY <1>3, <1>5
<1>7. Total(b, P) <= Total(b, U)
  BY <1>2, <1>6
<1>8. Total(b, T) = Total(b, U) + b[x].size
  BY <1>3, <1>4, TotalOne
<1>9. b[x].size \in Nat
  BY <1>3
<1> HIDE DEF U, B
<1>10. QED
  BY <1>3, <1>4, <1>6, <1>7, <1>8, <1>9

-----------------------------------------------------------------------------
(* The sum of a page                                                       *)

Sums == [count : Nat, total : Nat, biggest : Nat, date : Nat, lastSize : Nat]

WithoutLast(S) == [s \in SUBSET S |-> s \ {Max(s)}]
ObjectAdded(b, S) ==
    [s \in SUBSET S |-> [v \in Sums |-> IF s = {} THEN v ELSE Accumulate(v, b[Max(s)])]]

LEMMA BackupFields == \A o \in Backups : o.size \in Nat /\ o.date \in Nat /\ o.date > 0
                                       /\ o.size \in Sizes /\ o.date \in Dates
BY BucketAssumption DEF Sizes, Dates, ZeroTime

LEMMA AccumulateType ==
  ASSUME NEW v \in Sums, NEW o \in Backups
  PROVE  Accumulate(v, o) \in Sums
BY BackupFields DEF Accumulate, Sums

LEMMA LastKey ==
  ASSUME NEW S \in SUBSET Keys, S # {}
  PROVE  Max(S) \in S /\ \A k \in S : k <= Max(S)
<1>1. IsFiniteSet(S)
  BY BucketAssumption, FS_Subset
<1>2. \A k \in S : k \in Int
  BY BucketAssumption
<1>3. QED
  BY <1>1, <1>2, MaxOfFinite

LEMMA ObjectsAdd ==
  ASSUME NEW S \in SUBSET Keys, NEW b, \A k \in S : b[k] \in Backups
  PROVE  Maps(ObjectAdded(b, S), S, Sums) /\ Reduces(WithoutLast(S), S)
<1>1. \A s \in SUBSET S : s # {} => Max(s) \in s
  BY LastKey
<1>2. \A s \in SUBSET S, v \in Sums : s # {} => Accumulate(v, b[Max(s)]) \in Sums
  BY <1>1, AccumulateType
<1>3. QED
  BY <1>1, <1>2 DEF ObjectAdded, WithoutLast, Reduces, Maps

LEMMA SumUpIsRecursive ==
  ASSUME NEW S \in SUBSET Keys, \A k \in S : objects[k] \in Backups, NEW sum \in Sums,
         NEW T \in SUBSET S
  PROVE  \E f : /\ Recursive(f, T, Sums, sum, ObjectAdded(objects, S), WithoutLast(S))
                /\ f[T] = SumUp(sum, T)
<1> DEFINE Step(f) == [s \in SUBSET T |-> IF s = {} THEN sum
                        ELSE Accumulate(f[s \ {Max(s)}], objects[Max(s)])]
           iter == CHOOSE f : f = Step(f)
           h == ObjectAdded(objects, T)
           r == WithoutLast(T)
<1>1. IsFiniteSet(T) /\ T \in SUBSET Keys /\ \A k \in T : objects[k] \in Backups
  BY BucketAssumption, FS_Subset
<1>2. Maps(h, T, Sums) /\ Reduces(r, T)
  BY <1>1, ObjectsAdd
<1>3. PICK f : Recursive(f, T, Sums, sum, h, r)
  <2> HIDE DEF h, r
  <2>1. QED
    BY <1>1, <1>2, SomeRecursive
<1>4. f = Step(f)
  <2>1. \A s \in SUBSET T : s # {} => s \ {Max(s)} \in SUBSET T
    OBVIOUS
  <2>2. \A s \in SUBSET T : s # {} => f[s] = Accumulate(f[s \ {Max(s)}], objects[Max(s)])
    BY <1>3, <2>1 DEF Recursive, ObjectAdded, WithoutLast
  <2>3. f[{}] = sum /\ f = [s \in SUBSET T |-> f[s]]
    BY <1>3 DEF Recursive
  <2>4. QED
    BY <2>2, <2>3
<1>5. iter = Step(iter)
  <2> HIDE DEF Step
  <2>1. QED
    BY <1>4
<1>6. SumUp(sum, T) = iter[T]
  BY DEF SumUp, MapThenFoldSet
<1> HIDE DEF iter
<1>7. Recursive(iter, T, Sums, sum, h, r)
  <2>1. iter = [s \in SUBSET T |-> iter[s]] /\ iter[{}] = sum
    BY <1>5
  <2>2. ASSUME NEW s \in SUBSET T, s # {}, iter[r[s]] \in Sums PROVE iter[s] = h[s][iter[r[s]]]
    BY <1>5, <2>2 DEF ObjectAdded, WithoutLast
  <2> HIDE DEF h, r
  <2>3. Recurs(iter, T, Sums, sum, h, r)
    BY <2>1, <2>2 DEF Recurs
  <2>4. QED
    BY <1>1, <1>2, <2>3, IsRecursive
<1>8. Recursive(iter, T, Sums, sum, ObjectAdded(objects, S), WithoutLast(S))
  <2>1. \A s \in SUBSET T : s \in SUBSET S /\ ObjectAdded(objects, S)[s] = h[s]
                             /\ WithoutLast(S)[s] = r[s]
    BY DEF ObjectAdded, WithoutLast
  <2> HIDE DEF h, r
  <2>2. QED
    BY <1>7, <2>1 DEF Recursive
<1>9. QED
  BY <1>6, <1>8

LEMMA SumUpFold ==
  ASSUME NEW S \in SUBSET Keys, \A k \in S : objects[k] \in Backups, NEW sum \in Sums
  PROVE  /\ S = {} => SumUp(sum, S) = sum
         /\ S # {} => SumUp(sum, S) = Accumulate(SumUp(sum, S \ {Max(S)}), objects[Max(S)])
<1> DEFINE U == S \ {Max(S)}
           h == ObjectAdded(objects, S)
           r == WithoutLast(S)
<1>1. PICK f : Recursive(f, S, Sums, sum, h, r) /\ f[S] = SumUp(sum, S)
  BY SumUpIsRecursive
<1>2. U \in SUBSET S
  OBVIOUS
<1>3. PICK g : Recursive(g, U, Sums, sum, h, r) /\ g[U] = SumUp(sum, U)
  <2> HIDE DEF U
  <2>1. QED
    BY <1>2, SumUpIsRecursive
<1>4. f[U] = g[U]
  <2>1. Reduces(r, S) /\ IsFiniteSet(S)
    BY ObjectsAdd, BucketAssumption, FS_Subset
  <2> HIDE DEF h, r, U
  <2>2. QED
    BY <1>1, <1>2, <1>3, <2>1, OneRecursive
<1>5. S = {} => SumUp(sum, S) = sum
  BY <1>1 DEF Recursive
<1>6. S # {} => f[S] = Accumulate(f[U], objects[Max(S)])
  <2>1. f[U] \in Sums
    BY <1>1, <1>2 DEF Recursive
  <2>2. QED
    BY <1>1, <1>2, <2>1 DEF Recursive, ObjectAdded, WithoutLast
<1>7. QED
  BY <1>1, <1>3, <1>4, <1>5, <1>6

\* The objects of w, one for each of some keys, add up to s.
AddsUpTo(w, s) ==
    LET all == DOMAIN w IN
    /\ s \in Sums
    /\ s.count = Cardinality(all) /\ s.total = Total(w, all)
    /\ \A k \in all : w[k].size <= s.biggest /\ w[k].date <= s.date
    /\ all = {} => s = NoSum
    /\ all # {} =>
         /\ \E k \in all : w[k].size = s.biggest
         /\ \E k \in all : w[k].date = s.date /\ w[k].size = s.lastSize

\* w with the objects of a page.
Joined(w, page) ==
    [k \in DOMAIN w \cup page |-> IF k \in page THEN objects[k] ELSE w[k]]

LEMMA BucketParts ==
  ASSUME NEW w
  PROVE  w \in Buckets <=> /\ w = [k \in DOMAIN w |-> w[k]] /\ DOMAIN w \subseteq Keys
                           /\ \A k \in DOMAIN w : w[k] \in Backups
<1>1. ASSUME w \in Buckets
      PROVE  /\ w = [k \in DOMAIN w |-> w[k]] /\ DOMAIN w \subseteq Keys
             /\ \A k \in DOMAIN w : w[k] \in Backups
  <2>1. PICK S \in SUBSET Keys : w \in [S -> Backups]
    BY <1>1 DEF Buckets
  <2>2. QED
    BY <2>1
<1>2. ASSUME w = [k \in DOMAIN w |-> w[k]], DOMAIN w \subseteq Keys,
             \A k \in DOMAIN w : w[k] \in Backups
      PROVE  w \in Buckets
  <2> DEFINE S == DOMAIN w
  <2>1. S \in SUBSET Keys /\ w \in [S -> Backups]
    BY <1>2
  <2> HIDE DEF S
  <2>2. QED
    BY <2>1 DEF Buckets
<1>3. QED
  BY <1>1, <1>2

LEMMA FiniteBucket ==
  ASSUME NEW w \in Buckets
  PROVE  /\ IsFiniteSet(DOMAIN w) /\ Cardinality(DOMAIN w) \in Nat
         /\ \A k \in DOMAIN w : /\ w[k].size \in Nat /\ w[k].date \in Nat /\ w[k].date > 0
                                /\ w[k].size \in Sizes /\ w[k].date \in Dates
<1>1. DOMAIN w \subseteq Keys /\ \A k \in DOMAIN w : w[k] \in Backups
  BY BucketParts
<1>2. IsFiniteSet(DOMAIN w)
  BY <1>1, BucketAssumption, FS_Subset
<1>3. QED
  BY <1>1, <1>2, BackupFields, FS_CardinalityType

\* An object more.
LEMMA OneMoreObject ==
  ASSUME NEW w \in Buckets, NEW v, v \in Buckets, NEW k \in Keys, k \notin DOMAIN w,
         DOMAIN v = DOMAIN w \cup {k}, \A x \in DOMAIN w : v[x] = w[x],
         NEW s, AddsUpTo(w, s)
  PROVE  AddsUpTo(v, Accumulate(s, v[k]))
<1> DEFINE o == v[k]
           t == Accumulate(s, o)
<1>1. o \in Backups /\ o.size \in Nat /\ o.date \in Nat /\ o.date > 0
  BY BucketParts, BackupFields
<1>2. s \in Sums /\ t \in Sums
  BY <1>1, AccumulateType DEF AddsUpTo
<1>3. t.count = s.count + 1 /\ t.total = s.total + o.size
  BY DEF Accumulate
<1>4. t.biggest = IF o.size > s.biggest THEN o.size ELSE s.biggest
  BY DEF Accumulate
<1>5. t.date = IF o.date > s.date THEN o.date ELSE s.date
  BY DEF Accumulate
<1>6. t.lastSize = IF o.date > s.date THEN o.size ELSE s.lastSize
  BY DEF Accumulate
<1>7. s.biggest \in Nat /\ s.date \in Nat
  BY <1>2 DEF Sums
<1>8. IsFiniteSet(DOMAIN w) /\ IsFiniteSet(DOMAIN v)
  BY FiniteBucket
<1>9. t.count = Cardinality(DOMAIN v)
  <2>1. Cardinality(DOMAIN w \cup {k}) = Cardinality(DOMAIN w) + 1
    BY <1>8, FS_AddElement
  <2>2. QED
    BY <2>1, <1>3 DEF AddsUpTo
<1>10. t.total = Total(v, DOMAIN v)
  <2>1. Total(v, DOMAIN v) = Total(v, DOMAIN v \ {k}) + v[k].size
    BY <1>8, FiniteBucket, TotalOne
  <2>2. DOMAIN v \ {k} = DOMAIN w
    OBVIOUS
  <2>3. Total(v, DOMAIN w) = Total(w, DOMAIN w)
    <3>1. \A x \in DOMAIN w : w[x].size \in Nat /\ w[x].size = v[x].size
      BY FiniteBucket
    <3>2. QED
      BY <1>8, <3>1, TotalAgree
  <2>4. QED
    BY <1>3, <2>1, <2>2, <2>3 DEF AddsUpTo
<1> HIDE DEF t, o
<1>11. ASSUME NEW x \in DOMAIN v PROVE v[x].size <= t.biggest /\ v[x].date <= t.date
  <2>1. CASE x = k
    BY <1>1, <1>4, <1>5, <1>7, <2>1 DEF o
  <2>2. CASE x \in DOMAIN w
    <3>1. v[x].size <= s.biggest /\ v[x].date <= s.date /\ v[x].size \in Nat /\ v[x].date \in Nat
      BY <2>2, FiniteBucket DEF AddsUpTo
    <3>2. QED
      BY <1>1, <1>4, <1>5, <1>7, <3>1
  <2>3. QED
    BY <2>1, <2>2
<1>12. \E x \in DOMAIN v : v[x].size = t.biggest
  <2>1. CASE o.size > s.biggest
    BY <1>4, <2>1 DEF o
  <2>2. CASE ~(o.size > s.biggest) /\ DOMAIN w # {}
    BY <1>4, <2>2 DEF AddsUpTo
  <2>3. CASE ~(o.size > s.biggest) /\ DOMAIN w = {}
    <3>1. s.biggest = 0
      BY <2>3 DEF AddsUpTo, NoSum
    <3>2. o.size = t.biggest
      BY <1>1, <1>4, <2>3, <3>1
    <3>3. QED
      BY <3>2 DEF o
  <2>4. QED
    BY <2>1, <2>2, <2>3
<1>13. \E x \in DOMAIN v : v[x].date = t.date /\ v[x].size = t.lastSize
  <2>1. CASE o.date > s.date
    BY <1>5, <1>6, <2>1 DEF o
  <2>2. CASE ~(o.date > s.date)
    <3>1. s = NoSum => s.date = 0
      BY DEF NoSum, ZeroTime
    <3>2. DOMAIN w # {}
      BY <1>1, <2>2, <3>1 DEF AddsUpTo
    <3>3. QED
      BY <1>5, <1>6, <2>2, <3>2 DEF AddsUpTo
  <2>3. QED
    BY <2>1, <2>2
<1>14. DOMAIN v # {}
  OBVIOUS
<1>15. AddsUpTo(v, t)
  BY <1>2, <1>9, <1>10, <1>11, <1>12, <1>13, <1>14 DEF AddsUpTo
<1>16. QED
  BY <1>15 DEF t, o

\* The objects of a page more.
LEMMA PageAddsUp ==
  ASSUME objects \in Buckets, NEW page, page \subseteq DOMAIN objects,
         NEW w \in Buckets, page \cap DOMAIN w = {}, NEW s, AddsUpTo(w, s)
  PROVE  AddsUpTo(Joined(w, page), SumUp(s, page))
<1> DEFINE B == {P \in SUBSET page : ~AddsUpTo(Joined(w, P), SumUp(s, P))}
<1>1. SUFFICES ASSUME B # {} PROVE FALSE
  OBVIOUS
<1>2. DOMAIN objects \subseteq Keys /\ \A k \in DOMAIN objects : objects[k] \in Backups
  BY BucketParts
<1>3. IsFiniteSet(page) /\ page \in SUBSET Keys
  BY <1>2, BucketAssumption, FS_Subset
<1>4. PICK P \in B : \A U \in B : ~(U \subseteq P /\ U # P)
  <2>1. B \subseteq SUBSET page
    OBVIOUS
  <2> HIDE DEF B
  <2>2. QED
    BY <1>1, <1>3, <2>1, LeastSet
<1>5. P \in SUBSET page /\ ~AddsUpTo(Joined(w, P), SumUp(s, P))
  OBVIOUS
<1>6. s \in Sums
  BY DEF AddsUpTo
<1>7. ASSUME NEW U \in SUBSET page
      PROVE  /\ U \in SUBSET Keys /\ \A k \in U : objects[k] \in Backups
             /\ Joined(w, U) \in Buckets /\ DOMAIN Joined(w, U) = DOMAIN w \cup U
  <2>1. U \in SUBSET Keys /\ \A k \in U : objects[k] \in Backups
    BY <1>2, <1>3
  <2>2. DOMAIN w \subseteq Keys /\ \A k \in DOMAIN w : w[k] \in Backups
    BY BucketParts
  <2>3. DOMAIN Joined(w, U) = DOMAIN w \cup U /\ DOMAIN Joined(w, U) \subseteq Keys
    BY <2>1, <2>2 DEF Joined
  <2>4. \A k \in DOMAIN Joined(w, U) : Joined(w, U)[k] \in Backups
    BY <2>1, <2>2 DEF Joined
  <2>5. Joined(w, U) = [k \in DOMAIN Joined(w, U) |-> Joined(w, U)[k]]
    BY DEF Joined
  <2>6. QED
    BY <2>1, <2>3, <2>4, <2>5, BucketParts
<1>8. P # {}
  <2>1. SUFFICES ASSUME P = {} PROVE FALSE
    OBVIOUS
  <2>2. Joined(w, P) = w
    <3>1. w = [k \in DOMAIN w |-> w[k]]
      BY BucketParts
    <3>2. QED
      BY <2>1, <3>1 DEF Joined
  <2>3. SumUp(s, P) = s
    BY <1>5, <1>6, <1>7, <2>1, SumUpFold
  <2>4. QED
    BY <1>5, <2>2, <2>3
<1> DEFINE k == Max(P)
           U == P \ {k}
<1>9. k \in P /\ k \in Keys /\ U \in SUBSET page
  BY <1>5, <1>7, <1>8, LastKey
<1>10. AddsUpTo(Joined(w, U), SumUp(s, U))
  BY <1>4, <1>9
<1>11. SumUp(s, P) = Accumulate(SumUp(s, U), objects[k])
  BY <1>5, <1>6, <1>7, <1>8, SumUpFold
<1> HIDE DEF k
<1>12. /\ k \notin DOMAIN Joined(w, U) /\ DOMAIN Joined(w, P) = DOMAIN Joined(w, U) \cup {k}
       /\ Joined(w, P)[k] = objects[k]
       /\ \A x \in DOMAIN Joined(w, U) : Joined(w, P)[x] = Joined(w, U)[x]
  BY <1>5, <1>9 DEF Joined
<1>13. AddsUpTo(Joined(w, P), Accumulate(SumUp(s, U), Joined(w, P)[k]))
  BY <1>5, <1>7, <1>9, <1>10, <1>12, OneMoreObject
<1>14. QED
  BY <1>5, <1>11, <1>12, <1>13

-----------------------------------------------------------------------------
(* The list of a bucket                                                    *)

Listings == [pc : {"idle", "list", "emit"}, marker : Keys \cup {0}, sum : Sums]

\* The keys that the pages have come to.
Seen(k) == listing.pc = "emit" \/ k <= listing.marker

\* The sum is that of the objects of w: they were there at first or are touched,
\* and w has all untouched objects that the pages have come to.
SummedAs(w) ==
    /\ w \in Buckets /\ AddsUpTo(w, listing.sum)
    /\ \A k \in DOMAIN w : Seen(k) /\ (k \in DOMAIN before \/ k \in touched)
    /\ \A k \in DOMAIN before \ touched : Seen(k) => k \in DOMAIN w /\ w[k] = before[k]

UntouchedStay ==
    \A k \in Keys \ touched :
        /\ k \in DOMAIN objects <=> k \in DOMAIN before
        /\ k \in DOMAIN before => objects[k] = before[k]

BucketShapes ==
    objects \in Buckets /\ before \in Buckets /\ touched \subseteq Keys /\ listing \in Listings

BucketInv == BucketShapes /\ UntouchedStay /\ \E w : SummedAs(w)

\* Nothing has been read.
FreshBucket ==
    /\ objects \in Buckets /\ before = objects /\ touched = {} /\ listing \in Listings
    /\ listing.pc # "emit" /\ listing.marker = 0 /\ listing.sum = NoSum

LEMMA PositiveKeys == \A k \in Keys : k \in Nat /\ k > 0
BY BucketAssumption

LEMMA EmptyBucket == NoObjects \in Buckets /\ DOMAIN NoObjects = {} /\ AddsUpTo(NoObjects, NoSum)
<1>1. DOMAIN NoObjects = {} /\ NoObjects = [k \in DOMAIN NoObjects |-> NoObjects[k]]
  BY DEF NoObjects
<1>2. NoObjects \in Buckets
  BY <1>1, BucketParts
<1>3. NoSum \in Sums /\ NoSum.count = 0 /\ NoSum.total = 0
  BY DEF NoSum, Sums, ZeroTime
<1>4. Cardinality({}) = 0 /\ IsFiniteSet({})
  BY FS_EmptySet
<1>5. Total(NoObjects, {}) = 0
  BY <1>4, TotalFold
<1> HIDE DEF NoObjects, NoSum
<1>6. QED
  BY <1>1, <1>2, <1>3, <1>4, <1>5 DEF AddsUpTo

LEMMA IdleIsFresh ==
  /\ IdleListing \in Listings /\ IdleListing.pc = "idle"
  /\ IdleListing.marker = 0 /\ IdleListing.sum = NoSum
  /\ [IdleListing EXCEPT !.pc = "list"] = [pc |-> "list", marker |-> 0, sum |-> NoSum]
BY DEF IdleListing, Listings, NoSum, Sums, ZeroTime

LEMMA FreshSums == FreshBucket => BucketInv
<1> SUFFICES ASSUME FreshBucket PROVE BucketInv
  OBVIOUS
<1>1. BucketShapes
  BY DEF FreshBucket, BucketShapes
<1>2. UntouchedStay
  BY DEF FreshBucket, UntouchedStay
<1>3. \A k \in DOMAIN before : ~Seen(k)
  <2>1. DOMAIN before \subseteq Keys
    BY BucketParts DEF FreshBucket
  <2>2. QED
    BY <2>1, PositiveKeys DEF FreshBucket, Seen
<1>4. SummedAs(NoObjects)
  BY <1>3, EmptyBucket DEF SummedAs, FreshBucket
<1>5. QED
  BY <1>1, <1>2, <1>4 DEF BucketInv

LEMMA FreshSumsNext == FreshBucket' => BucketInv'
BY FreshSums, PTL

LEMMA BeginSums ==
  ASSUME BeginBucket PROVE BucketInv'
<1>1. FreshBucket'
  <2>1. listing' = [pc |-> "list", marker |-> 0, sum |-> NoSum]
    BY IdleIsFresh DEF BeginBucket
  <2>2. NoSum \in Sums
    BY EmptyBucket DEF AddsUpTo
  <2>3. listing' \in Listings
    BY <2>1, <2>2 DEF Listings
  <2>4. QED
    BY <2>1, <2>3 DEF BeginBucket, FreshBucket
<1>2. QED
  BY <1>1, FreshSumsNext

LEMMA EndSums ==
  ASSUME EndListing PROVE BucketInv'
<1>1. FreshBucket'
  BY IdleIsFresh, EmptyBucket DEF EndListing, FreshBucket
<1>2. QED
  BY <1>1, FreshSumsNext

LEMMA ChangeSums ==
  ASSUME BucketInv, BucketChanges PROVE BucketInv'
<1>1. PICK k \in Keys :
        /\ objects' \in {b \in Buckets : \A x \in Keys \ {k} :
                (x \in DOMAIN objects <=> x \in DOMAIN b) /\ (x \in DOMAIN b => b[x] = objects[x])}
        /\ touched' = touched \cup {k}
  BY DEF BucketChanges
<1>2. UNCHANGED <<listing, before>>
  BY DEF BucketChanges
<1>3. BucketShapes'
  BY <1>1, <1>2 DEF BucketInv, BucketShapes
<1>4. UntouchedStay'
  BY <1>1, <1>2 DEF BucketInv, UntouchedStay
<1>5. PICK w : SummedAs(w)
  BY DEF BucketInv
<1>6. SummedAs(w)'
  BY <1>1, <1>2, <1>5 DEF SummedAs, Seen
<1>7. QED
  BY <1>3, <1>4, <1>6 DEF BucketInv

LEMMA PageSums ==
  ASSUME BucketInv, ListPage PROVE BucketInv'
<1> DEFINE rest == {k \in DOMAIN objects : k > listing.marker}
<1>1. PICK page \in SUBSET rest :
        /\ \A k \in page, l \in rest \ page : k < l
        /\ page = {} => rest = {}
        /\ listing' = [pc |-> IF page = rest THEN "emit" ELSE "list",
                       marker |-> IF page = rest THEN 0 ELSE Max(page),
                       sum |-> SumUp(listing.sum, page)]
  BY DEF ListPage
<1>2. listing.pc = "list" /\ UNCHANGED <<objects, before, touched>>
  BY DEF ListPage
<1>3. PICK w : SummedAs(w)
  BY DEF BucketInv
<1>4. /\ objects \in Buckets /\ before \in Buckets /\ w \in Buckets
      /\ DOMAIN objects \subseteq Keys /\ DOMAIN before \subseteq Keys /\ DOMAIN w \subseteq Keys
  BY <1>3, BucketParts DEF BucketInv, BucketShapes, SummedAs
<1>5. listing.marker \in Nat
  BY PositiveKeys DEF BucketInv, BucketShapes, Listings
<1>6. \A k \in DOMAIN w : k <= listing.marker
  BY <1>2, <1>3 DEF SummedAs, Seen
<1>7. page \subseteq DOMAIN objects /\ page \in SUBSET Keys /\ \A k \in page : k > listing.marker
  BY <1>4
<1>8. page \cap DOMAIN w = {}
  BY <1>4, <1>5, <1>6, <1>7, PositiveKeys
<1> DEFINE v == Joined(w, page)
<1>9. AddsUpTo(v, SumUp(listing.sum, page))
  BY <1>3, <1>4, <1>7, <1>8, PageAddsUp DEF SummedAs
<1>10. /\ DOMAIN v = DOMAIN w \cup page
       /\ \A k \in DOMAIN v : v[k] = IF k \in page THEN objects[k] ELSE w[k]
  BY DEF Joined
<1>11. v \in Buckets
  <2>1. v = [k \in DOMAIN v |-> v[k]]
    BY DEF Joined
  <2>2. \A k \in DOMAIN v : v[k] \in Backups
    BY <1>4, <1>7, <1>10, BucketParts
  <2> HIDE DEF v
  <2>3. QED
    BY <1>4, <1>7, <1>10, <2>1, <2>2, BucketParts
<1>12. page # rest => page # {} /\ Max(page) \in page /\ \A k \in page : k <= Max(page)
  BY <1>1, <1>7, LastKey
<1>13. listing' \in Listings
  <2>1. SumUp(listing.sum, page) \in Sums
    BY <1>9 DEF AddsUpTo
  <2>2. QED
    BY <1>1, <1>7, <1>12, <2>1 DEF Listings
<1>14. BucketShapes' /\ UntouchedStay'
  BY <1>2, <1>13 DEF BucketInv, BucketShapes, UntouchedStay
<1>15. ASSUME NEW k \in Keys
       PROVE  Seen(k)' <=> page = rest \/ k <= Max(page)
  BY <1>1 DEF Seen
<1>16. ASSUME NEW k \in Keys, Seen(k)'
       PROVE  k <= listing.marker \/ k \notin rest \/ k \in page
  <2>1. CASE page = rest
    BY <2>1
  <2>2. CASE page # rest
    <3>1. k <= Max(page) /\ Max(page) \in page
      BY <1>12, <1>15, <1>16, <2>2
    <3>2. Max(page) \in Nat /\ k \in Nat
      BY <1>7, <3>1, PositiveKeys
    <3>3. k \in rest \ page => Max(page) < k
      BY <1>1, <3>1
    <3>4. QED
      BY <3>1, <3>2, <3>3
  <2>3. QED
    BY <2>1, <2>2
<1>17. ASSUME NEW k \in DOMAIN v
       PROVE  Seen(k)' /\ (k \in DOMAIN before \/ k \in touched)
  <2>1. k \in Keys /\ k \in Nat
    BY <1>4, <1>7, <1>10, PositiveKeys
  <2>2. Seen(k)'
    <3>1. CASE page = rest
      BY <1>15, <2>1, <3>1
    <3>2. CASE page # rest
      <4>1. Max(page) \in Nat /\ Max(page) > listing.marker
        BY <1>7, <1>12, <3>2, PositiveKeys
      <4>2. k <= Max(page)
        BY <1>5, <1>6, <1>10, <1>12, <2>1, <3>2, <4>1
      <4>3. QED
        BY <1>15, <2>1, <4>2
    <3>3. QED
      BY <3>1, <3>2
  <2>3. k \in DOMAIN before \/ k \in touched
    <3>1. CASE k \in DOMAIN w
      BY <1>3, <3>1 DEF SummedAs
    <3>2. CASE k \in page
      BY <1>7, <2>1, <3>2 DEF BucketInv, UntouchedStay
    <3>3. QED
      BY <1>10, <3>1, <3>2
  <2>4. QED
    BY <2>2, <2>3
<1>18. ASSUME NEW k \in DOMAIN before \ touched, Seen(k)'
       PROVE  k \in DOMAIN v /\ v[k] = before[k]
  <2>1. k \in Keys /\ k \in Nat
    BY <1>4, PositiveKeys
  <2>2. k \in DOMAIN objects /\ objects[k] = before[k]
    BY <2>1 DEF BucketInv, UntouchedStay
  <2>3. CASE k <= listing.marker
    <3>1. k \in DOMAIN w /\ w[k] = before[k]
      BY <1>3, <2>3 DEF SummedAs, Seen
    <3>2. QED
      BY <1>8, <1>10, <3>1
  <2>4. CASE ~(k <= listing.marker)
    <3>1. k \in rest
      BY <1>5, <2>1, <2>2, <2>4
    <3>2. k \in page
      BY <1>16, <1>18, <2>1, <2>4, <3>1
    <3>3. QED
      BY <1>10, <2>2, <3>2
  <2>5. QED
    BY <2>3, <2>4
<1>19. SummedAs(v)'
  <2>1. listing'.sum = SumUp(listing.sum, page)
    BY <1>1
  <2>2. v' = v
    BY <1>2, <1>3 DEF Joined
  <2> HIDE DEF v
  <2>3. QED
    BY <1>2, <1>9, <1>11, <1>17, <1>18, <2>1, <2>2 DEF SummedAs
<1>20. QED
  BY <1>14, <1>19 DEF BucketInv

LEMMA BucketInvariant == Spec => []BucketInv
<1>1. Init => BucketInv
  <2> SUFFICES ASSUME Init PROVE BucketInv
    OBVIOUS
  <2>1. FreshBucket
    BY IdleIsFresh, EmptyBucket DEF Init, BucketInit, FreshBucket
  <2>2. QED
    BY <2>1, FreshSums
<1>2. BucketInv /\ [Next]_processVars => BucketInv'
  <2> SUFFICES ASSUME BucketInv, [Next]_processVars PROVE BucketInv'
    OBVIOUS
  <2>1. CASE BucketStep(conf.provider)
    BY <2>1, BeginSums, PageSums, EndSums, ChangeSums DEF BucketStep, BucketFails, EndBucket
  <2>2. CASE UNCHANGED bucketVars
    BY <2>2 DEF bucketVars, BucketInv, BucketShapes, UntouchedStay, SummedAs, Seen
  <2>3. CASE Die
    BY <2>3, EndSums DEF Die
  <2>4. QED
    BY <2>1, <2>2, <2>3 DEF Next, Start, Rotation, HealthRequest, BucketRequest, processVars
<1>3. QED
  BY <1>1, <1>2, PTL DEF Spec

\* What the responses of the bucket collector say, whatever pages the provider
\* makes: in a bucket that does not change, how many objects there are, how large
\* they are together, the largest size, and date and size of one that was modified
\* last; in one that changes, every object that nobody touches is counted, once.
THEOREM BucketIsSummed == Spec => []BucketResponse
<1>1. BucketInv => BucketResponse
  <2> SUFFICES ASSUME BucketInv, listing.pc = "emit"
               PROVE  StableBucketIsSummed /\ UntouchedObjectsAreCounted
    BY DEF BucketResponse, StableBucketIsSummed, UntouchedObjectsAreCounted
  <2> DEFINE sum == listing.sum
             kept == DOMAIN before \ touched
  <2>1. PICK w : SummedAs(w)
    BY DEF BucketInv
  <2>2. /\ w \in Buckets /\ before \in Buckets /\ touched \subseteq Keys
        /\ w = [k \in DOMAIN w |-> w[k]] /\ before = [k \in DOMAIN before |-> before[k]]
    BY <2>1, BucketParts DEF BucketInv, BucketShapes, SummedAs
  <2>3. /\ AddsUpTo(w, sum) /\ kept \subseteq DOMAIN w /\ DOMAIN w \subseteq kept \cup touched
        /\ \A k \in kept : w[k] = before[k]
    BY <2>1 DEF SummedAs, Seen
  <2> HIDE DEF kept
  <2>4. UntouchedObjectsAreCounted
    <3>1. IsFiniteSet(DOMAIN w) /\ IsFiniteSet(kept \cup touched) /\ IsFiniteSet(kept)
      <4>1. kept \cup touched \subseteq Keys
        BY <2>2, BucketParts DEF kept
      <4>2. QED
        BY <4>1, <2>3, BucketAssumption, FS_Subset
    <3>2. /\ sum.count = Cardinality(DOMAIN w) /\ Cardinality(DOMAIN w) \in Nat
          /\ Cardinality(kept) <= Cardinality(DOMAIN w)
          /\ Cardinality(DOMAIN w) <= Cardinality(kept \cup touched)
          /\ Cardinality(kept) \in Nat /\ Cardinality(kept \cup touched) \in Nat
      BY <2>3, <3>1, FS_Subset, FS_CardinalityType DEF AddsUpTo
    <3>3. sum.total >= Total(before, kept)
      <4>1. \A k \in DOMAIN w : w[k].size \in Nat
        BY <2>2, FiniteBucket
      <4>2. Total(w, kept) = Total(before, kept)
        BY <2>3, <3>1, <4>1, TotalAgree
      <4>3. Total(w, kept) <= Total(w, DOMAIN w)
        BY <2>3, <3>1, <4>1, TotalPart
      <4>4. Total(w, kept) \in Nat /\ Total(w, DOMAIN w) \in Nat
        BY <2>3, <3>1, <4>1, TotalFold
      <4>5. QED
        BY <2>3, <4>2, <4>3, <4>4 DEF AddsUpTo
    <3>4. \A k \in kept : before[k].size <= sum.biggest /\ before[k].date <= sum.date
      BY <2>3 DEF AddsUpTo
    <3>5. QED
      BY <3>2, <3>3, <3>4 DEF UntouchedObjectsAreCounted, kept
  <2>5. StableBucketIsSummed
    <3> SUFFICES ASSUME touched = {} PROVE StableBucketIsSummed
      BY DEF StableBucketIsSummed
    <3>1. DOMAIN w = DOMAIN before /\ \A k \in DOMAIN w : w[k] = before[k]
      BY <2>3 DEF kept
    <3>2. w = before
      BY <2>2, <3>1
    <3>3. AddsUpTo(before, sum)
      BY <2>3, <3>2
    <3>4. QED
      BY <3>3 DEF AddsUpTo, StableBucketIsSummed
  <2>6. QED
    BY <2>4, <2>5
<1>2. QED
  BY <1>1, BucketInvariant, PTL

\* The types of the three parts together; no sum names a size or a date that no
\* object has, and none counts more objects than there are keys.
THEOREM ExporterTypes == Spec => []TypeOK
<1>1. BucketInv => BucketTypeOK
  <2> SUFFICES ASSUME BucketInv PROVE BucketTypeOK
    OBVIOUS
  <2>1. PICK w : SummedAs(w)
    BY DEF BucketInv
  <2>2. w \in Buckets /\ AddsUpTo(w, listing.sum) /\ DOMAIN w \subseteq Keys
    BY <2>1, BucketParts DEF SummedAs
  <2>3. BucketShapes
    BY DEF BucketInv
  <2> DEFINE sum == listing.sum
  <2>4. sum \in Sums /\ sum.total \in Nat /\ sum.count \in Nat
    BY <2>2 DEF AddsUpTo, Sums
  <2>5. sum.count <= Cardinality(Keys) /\ Cardinality(Keys) \in Nat
    BY <2>2, BucketAssumption, FS_Subset, FS_CardinalityType DEF AddsUpTo
  <2>6. /\ sum.biggest \in Sizes \cup {0} /\ sum.date \in Dates \cup {ZeroTime}
        /\ sum.lastSize \in Sizes \cup {0}
    <3>1. CASE DOMAIN w = {}
      <4>1. sum = NoSum
        BY <2>2, <3>1 DEF AddsUpTo
      <4>2. QED
        BY <4>1 DEF NoSum
    <3>2. CASE DOMAIN w # {}
      BY <2>2, <3>2, FiniteBucket DEF AddsUpTo
    <3>3. QED
      BY <3>1, <3>2
  <2> HIDE DEF sum
  <2>7. sum \in [count : 0 .. Cardinality(Keys), total : Nat, biggest : Sizes \cup {0},
                 date : Dates \cup {ZeroTime}, lastSize : Sizes \cup {0}]
    BY <2>4, <2>5, <2>6 DEF Sums
  <2>8. QED
    BY <2>3, <2>7 DEF BucketTypeOK, BucketShapes, Listings, sum
<1>2. Spec => [](endpoint \in {"/metrics", "/bucket"})
  <2>1. Init => endpoint \in {"/metrics", "/bucket"}
    BY DEF Init
  <2>2. endpoint \in {"/metrics", "/bucket"} /\ [Next]_processVars
          => (endpoint \in {"/metrics", "/bucket"})'
    BY DEF Next, Start, Rotation, HealthRequest, BucketRequest, Die, processVars
  <2>3. QED
    BY <2>1, <2>2, PTL DEF Spec
<1>3. QED
  BY <1>1, <1>2, ProcessTypes, BucketInvariant, PTL DEF TypeOK

-----------------------------------------------------------------------------
(* The delays of the retries                                               *)

\* The recursion over the numbers is the one over the sets 1 .. n.
LEMMA PowerIs ==
  ASSUME NEW b \in Nat
  PROVE  \A n \in 0 .. MaxAttempts : Power(b)[n] = IF n = 0 THEN 1 ELSE b * Power(b)[n - 1]
<1> DEFINE S == 1 .. MaxAttempts
           Step(p) == [n \in 0 .. MaxAttempts |-> IF n = 0 THEN 1 ELSE b * p[n - 1]]
           h == [s \in SUBSET S |-> [v \in Nat |-> b * v]]
           r == WithoutLast(S)
<1>1. MaxAttempts \in Nat /\ IsFiniteSet(S)
  BY RetryAssumption, FS_Interval
<1>2. ASSUME NEW s \in SUBSET S, s # {} PROVE Max(s) \in s /\ \A x \in s : x <= Max(s)
  <2>1. IsFiniteSet(s)
    BY <1>1, FS_Subset
  <2>2. \A x \in s : x \in Int
    OBVIOUS
  <2>3. QED
    BY <1>2, <2>1, <2>2, MaxOfFinite
<1>3. Reduces(r, S)
  BY <1>2 DEF Reduces, WithoutLast
<1>4. Maps(h, S, Nat)
  <2>1. \A v \in Nat : b * v \in Nat
    OBVIOUS
  <2>2. QED
    BY <2>1 DEF Maps
<1>5. PICK f : Recursive(f, S, Nat, 1, h, r)
  <2> HIDE DEF S, h, r
  <2>1. 1 \in Nat
    OBVIOUS
  <2>2. QED
    BY <1>1, <1>3, <1>4, <2>1, SomeRecursive
<1> DEFINE q == [n \in 0 .. MaxAttempts |-> f[1 .. n]]
<1>6. ASSUME NEW n \in 0 .. MaxAttempts, n # 0 PROVE q[n] = b * q[n - 1]
  <2> DEFINE s == 1 .. n
  <2>1. s \in SUBSET S /\ s # {} /\ n \in s /\ n \in Nat /\ n - 1 \in 0 .. MaxAttempts
    BY <1>1, <1>6
  <2>2. Max(s) = n
    <3>1. Max(s) \in s /\ \A x \in s : x <= Max(s)
      BY <1>2, <2>1
    <3>2. n <= Max(s)
      BY <2>1, <3>1
    <3>3. QED
      BY <2>1, <3>1, <3>2
  <2>3. r[s] = 1 .. n - 1
    <3>1. s \ {n} = 1 .. n - 1
      BY <2>1
    <3>2. QED
      BY <2>1, <2>2, <3>1 DEF WithoutLast
  <2>4. 1 .. n - 1 \in SUBSET S
    BY <2>1
  <2>5. f[1 .. n - 1] \in Nat
    BY <1>5, <2>4 DEF Recursive
  <2>6. f[s] = h[s][f[1 .. n - 1]]
    BY <1>5, <2>1, <2>3 DEF Recursive
  <2>7. f[s] = b * f[1 .. n - 1]
    BY <2>1, <2>5, <2>6
  <2>8. QED
    BY <2>1, <2>7
<1>7. q[0] = 1
  <2>1. 1 .. 0 = {} /\ 0 \in 0 .. MaxAttempts
    BY <1>1
  <2>2. f[{}] = 1
    BY <1>5 DEF Recursive
  <2>3. QED
    BY <2>1, <2>2
<1>8. q = Step(q)
  <2>1. q = [n \in 0 .. MaxAttempts |-> q[n]]
    OBVIOUS
  <2> HIDE DEF q
  <2>2. QED
    BY <1>6, <1>7, <2>1
<1> HIDE DEF q
<1>9. Power(b) = CHOOSE p : p = Step(p)
  BY DEF Power
<1>10. Power(b) = Step(Power(b))
  <2> HIDE DEF Step
  <2>1. QED
    BY <1>8, <1>9
<1>11. QED
  BY <1>10

\* In the n-th delay, and after n of them.
Backoff(n) ==
    /\ n \in 0 .. MaxAttempts /\ Power(2)[n] \in Nat /\ Power(3)[n] \in Nat
    /\ retry.waited >= (Power(2)[n] - 1) * BaseSleep
    /\ 4 * retry.waited <= 3 * (Power(3)[n] - 1) * BaseSleep
    /\ retry.asleep =>
         /\ n = retry.attempt
         /\ 2 * retry.sleep >= Power(2)[n] * BaseSleep
         /\ 2 * retry.sleep <= Power(3)[n] * BaseSleep
    /\ ~retry.asleep =>
         /\ n = retry.attempt - 1
         /\ retry.sleep >= Power(2)[n] * BaseSleep
         /\ retry.sleep <= Power(3)[n] * BaseSleep

BackoffInv == phase \in {"login", "read"} => \E n : Backoff(n)

LEMMA BaseIsTime == BaseSleep \in Nat /\ BaseSleep > 0
BY RetryAssumption DEF BaseSleep

LEMMA FirstDelay ==
  ASSUME retry' = NewRetry(BaseSleep') PROVE BackoffInv'
<1>1. 0 \in 0 .. MaxAttempts /\ 2 \in Nat /\ 3 \in Nat
  BY RetryAssumption
<1>2. Power(2)[0] = 1 /\ Power(3)[0] = 1
  BY <1>1, PowerIs
<1>3. BaseSleep' \in Nat
  BY RetryAssumption DEF BaseSleep
<1>4. /\ retry'.waited = 0 /\ retry'.sleep = BaseSleep' /\ ~retry'.asleep
      /\ retry'.attempt = 1
  BY DEF NewRetry
<1>5. Backoff(0)'
  BY <1>1, <1>2, <1>3, <1>4 DEF Backoff
<1>6. QED
  BY <1>5 DEF BackoffInv

LEMMA WakeBacksOff ==
  ASSUME StartupInv, BackoffInv, WakeUp PROVE BackoffInv'
<1> SUFFICES ASSUME phase \in {"login", "read"} PROVE BackoffInv'
  BY DEF WakeUp, BackoffInv
<1>1. retry \in Retries /\ retry.asleep /\ retry.attempt < MaxAttempts
  BY DEF WakeUp, StartupInv, RetryInv
<1>2. retry.attempt + 1 \in Nat /\ UintMax + 1 \in Nat /\ retry.attempt + 1 < UintMax + 1
  BY <1>1, RetryAssumption DEF Retries
<1>3. (retry.attempt + 1) % (UintMax + 1) = retry.attempt + 1
  BY <1>2, NoWrap
<1>4. /\ retry'.attempt = retry.attempt + 1 /\ ~retry'.asleep
      /\ retry'.sleep = 2 * retry.sleep /\ retry'.waited = retry.waited
  BY <1>1, <1>3 DEF WakeUp, Retries
<1>5. PICK n : Backoff(n)
  BY DEF BackoffInv
<1>6. BaseSleep' = BaseSleep /\ n = retry'.attempt - 1
  BY <1>1, <1>4, <1>5 DEF WakeUp, BaseSleep, Backoff, Retries
<1>7. Backoff(n)'
  BY <1>1, <1>4, <1>5, <1>6 DEF Backoff
<1>8. QED
  BY <1>7 DEF BackoffInv

\* A delay more: of s, and up to half of it again by the jitter.
LEMMA OneDelayMore ==
  ASSUME NEW two \in Nat, NEW three \in Nat, NEW base \in Nat,
         NEW waited \in Nat, NEW s \in Nat, NEW j \in 0 .. s - 1,
         waited >= (two - 1) * base, 4 * waited <= 3 * (three - 1) * base,
         s >= two * base, s <= three * base
  PROVE  LET t == s + j \div 2 IN
         /\ waited + t >= (2 * two - 1) * base
         /\ 4 * (waited + t) <= 3 * (3 * three - 1) * base
         /\ 2 * t >= (2 * two) * base /\ 2 * t <= (3 * three) * base
<1> DEFINE x == two * base
           y == three * base
           t == s + j \div 2
<1>1. x \in Nat /\ y \in Nat
  OBVIOUS
<1>2. /\ (two - 1) * base = x - base /\ 3 * (three - 1) * base = 3 * y - 3 * base
      /\ (2 * two - 1) * base = 2 * x - base /\ 3 * (3 * three - 1) * base = 9 * y - 3 * base
      /\ (2 * two) * base = 2 * x /\ (3 * three) * base = 3 * y
  OBVIOUS
<1>3. t \in Nat /\ t >= s /\ 2 * t <= 3 * s
  OBVIOUS
<1>4. waited >= x - base /\ 4 * waited <= 3 * y - 3 * base /\ s >= x /\ s <= y
  BY <1>2
<1> HIDE DEF x, y, t
<1>5. /\ waited + t >= 2 * x - base /\ 4 * (waited + t) <= 9 * y - 3 * base
      /\ 2 * t >= 2 * x /\ 2 * t <= 3 * y
  BY <1>1, <1>3, <1>4
<1>6. QED
  BY <1>2, <1>5 DEF t

LEMMA AttemptBacksOff ==
  ASSUME StartupInv, BackoffInv, AttemptFails PROVE BackoffInv'
<1>1. CASE LastAttempt /\ GiveUp
  BY <1>1 DEF GiveUp, Exit, BackoffInv
<1>2. CASE ~(LastAttempt /\ GiveUp)
  <2>1. PICK jitter \in 0 .. retry.sleep - 1 :
          LET sleep == retry.sleep + jitter \div 2 IN
          retry' = [retry EXCEPT !.asleep = TRUE, !.sleep = sleep, !.waited = @ + sleep]
    BY <1>2 DEF AttemptFails
  <2>2. ~LastAttempt /\ UNCHANGED phase /\ phase \in {"login", "read"} /\ ~retry.asleep
    BY <1>2 DEF AttemptFails, Trying
  <2>3. /\ retry \in Retries /\ retry.attempt \in 1 .. MaxAttempts
        /\ retry.sleep \in Nat /\ retry.waited \in Nat
    BY DEF StartupInv, RetryInv, Retries
  <2> DEFINE t == retry.sleep + jitter \div 2
  <2>4. retry'.asleep /\ retry'.sleep = t /\ retry'.waited = retry.waited + t
        /\ retry'.attempt = retry.attempt
    BY <2>1, <2>3 DEF Retries
  <2>5. PICK n : Backoff(n)
    BY <2>2 DEF BackoffInv
  <2> DEFINE two == Power(2)[n]
             three == Power(3)[n]
  <2>6. /\ n + 1 \in 0 .. MaxAttempts /\ n + 1 # 0 /\ (n + 1) - 1 = n /\ n + 1 = retry.attempt
        /\ 2 \in Nat /\ 3 \in Nat /\ two \in Nat /\ three \in Nat
    BY <2>2, <2>3, <2>5, RetryAssumption DEF Backoff
  <2>7. Power(2)[n + 1] = 2 * two /\ Power(3)[n + 1] = 3 * three
    BY <2>6, PowerIs
  <2>8. BaseSleep' = BaseSleep /\ BaseSleep \in Nat
    BY <2>2, BaseIsTime DEF BaseSleep
  <2>9. /\ retry.waited >= (two - 1) * BaseSleep
        /\ 4 * retry.waited <= 3 * (three - 1) * BaseSleep
        /\ retry.sleep >= two * BaseSleep /\ retry.sleep <= three * BaseSleep
    BY <2>2, <2>5 DEF Backoff
  <2>10. /\ retry.waited + t >= (2 * two - 1) * BaseSleep
         /\ 4 * (retry.waited + t) <= 3 * (3 * three - 1) * BaseSleep
         /\ 2 * t >= (2 * two) * BaseSleep /\ 2 * t <= (3 * three) * BaseSleep
    <3> HIDE DEF two, three
    <3>1. QED
      BY <2>3, <2>6, <2>8, <2>9, OneDelayMore
  <2> HIDE DEF t, two, three
  <2>11. 2 * two \in Nat /\ 3 * three \in Nat
    BY <2>6
  <2>12. Backoff(n + 1)'
    BY <2>4, <2>6, <2>7, <2>8, <2>10, <2>11 DEF Backoff
  <2>13. QED
    BY <2>12 DEF BackoffInv
<1>3. QED
  BY <1>1, <1>2

\* RetryOnErr backs off: n delays are together at least 2^n - 1 times the base and
\* at most 3/4 (3^n - 1) times, for as many attempts as are allowed.
THEOREM RetriesBackOff == Spec => []BackoffBounds
<1>1. Init => BackoffInv
  BY DEF Init, StartupInit, BackoffInv
<1>2. StartupInv /\ BackoffInv /\ [Next]_processVars => BackoffInv'
  <2> SUFFICES ASSUME StartupInv, BackoffInv, [Next]_processVars PROVE BackoffInv'
    OBVIOUS
  <2>1. CASE UNCHANGED <<phase, retry>>
    BY <2>1 DEF BackoffInv, Backoff, BaseSleep
  <2>2. CASE Exit
    BY <2>2 DEF Exit, BackoffInv
  <2>3. CASE Boot \/ Login \/ ReadSecret
    <3>1. retry' = NewRetry(BaseSleep')
      BY <2>3 DEF Boot, Login, ReadSecret, Trying, BaseSleep
    <3>2. QED
      BY <3>1, FirstDelay
  <2>4. CASE phase' \in {"start", "running"}
    BY <2>4 DEF BackoffInv
  <2>5. CASE Starting
    BY <2>2, <2>3, <2>4, <2>5, AttemptBacksOff, WakeBacksOff
       DEF Starting, BootFails, CredentialsRead, UselessAnswer, StartExporter
  <2>6. QED
    BY <2>1, <2>2, <2>5 DEF Next, Start, Rotation, Rotate, HealthRequest, BucketRequest, Die,
       startupVars, processVars
<1>3. BackoffInv => BackoffBounds
  BY DEF BackoffInv, Backoff, BackoffBounds
<1>4. QED
  BY <1>1, <1>2, <1>3, StartupHolds, PTL DEF Spec
=============================================================================
