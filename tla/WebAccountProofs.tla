-------------------------- MODULE WebAccountProofs ---------------------------
(***************************************************************************)
(* Proofs about WebAccount, for any number of clients and any passwords    *)
(* and clock.                                                              *)
(***************************************************************************)
EXTENDS WebAccount, TLAPS

\* What the stages of the handlers guarantee.
StagesSound ==
    /\ gameData => user # None
    /\ \A c \in Clients : pc[c] = "addGame" => user = PW[c] /\ ~gameData
    /\ \A c \in Clients : pc[c] = "created" => user = PW[c] /\ gameData
    /\ \A c \in Clients :
         pc[c] \in {"addToken", "loggedIn", "getData", "loaded"} => user = PW[c]
    /\ \A c \in Clients : token[c] # None => user = PW[c]

Creates(c) == pc[c] \in {"addGame", "created"} \/ created[c] = TRUE

\* Of all requests to create the user one got past AddUser.
OneCreator == \A c, d \in Clients : Creates(c) /\ Creates(d) => c = d

\* The client that wrote the stored token holds it, or is just being told.
Wrote(c) == IF pc[c] = "loggedIn" THEN authToken[c] = session ELSE token[c] = session

LastWriter == session # None => (faulted = TRUE \/ \E c \in Clients : Wrote(c))

IInv ==
    /\ TypeOK
    /\ StagesSound
    /\ OneCreator
    /\ LastWriter
    /\ CreatedOnce
    /\ HalfUserOnlyByFault
    /\ LoadNeedsPassword

-----------------------------------------------------------------------------

LEMMA InitHolds == Init => IInv
<1> SUFFICES ASSUME Init PROVE IInv
  OBVIOUS
<1>1. TypeOK  BY DEF Init, TypeOK, Stages, Optional
<1> QED
  BY <1>1 DEF Init, IInv, StagesSound, OneCreator, Creates, LastWriter, CreatedOnce,
              HalfUserOnlyByFault, LoadNeedsPassword

LEMMA GoFacts ==
    ASSUME TypeOK, NEW c \in Clients, NEW stage \in Stages, Go(c, stage)
    PROVE  /\ pc' \in [Clients -> Stages]
           /\ pc'[c] = stage
           /\ \A d \in Clients : d # c => pc'[d] = pc[d]
BY DEF TypeOK, Go

\* The stages a request may go to without having changed anything.
Early == {"idle", "find", "addUser", "getUser", "check"}

\* A step that only moves a request, and not from where it would be missed.
LEMMA QuietKeeps ==
    ASSUME IInv, NEW c \in Clients, NEW stage \in Stages, Go(c, stage),
           UNCHANGED <<stores, authToken, clients, faulted>>,
           pc[c] \notin {"addGame", "loggedIn"},
           stage \in Early \/ (stage \in {"getData", "loaded"} /\ user = PW[c])
    PROVE  IInv'
<1>1. /\ pc' \in [Clients -> Stages]
      /\ pc'[c] = stage
      /\ \A d \in Clients : d # c => pc'[d] = pc[d]
  BY GoFacts DEF IInv
<1>2. /\ user' = user /\ gameData' = gameData /\ session' = session
      /\ authToken' = authToken /\ token' = token /\ created' = created
      /\ loaded' = loaded /\ faulted' = faulted
  BY DEF stores, clients
<1>3. stage \notin {"addGame", "created", "addToken", "loggedIn"}  BY DEF Early
<1>4. TypeOK'
  <2>1. \A d \in Clients : pc'[d] \in {"addToken", "loggedIn"} => authToken'[d] \in Ticks
    BY <1>1, <1>2, <1>3 DEF IInv, TypeOK
  <2> QED  BY <1>1, <1>2, <2>1, Zenon DEF IInv, TypeOK
<1>5. StagesSound'  BY <1>1, <1>2, <1>3 DEF IInv, StagesSound, Early
<1>6. \A d \in Clients : Creates(d)' => Creates(d)  BY <1>1, <1>2, <1>3 DEF Creates
<1>7. OneCreator'
  <2> SUFFICES ASSUME NEW d \in Clients, NEW e \in Clients, Creates(d)', Creates(e)'
               PROVE  d = e
    BY DEF OneCreator
  <2> QED  BY <1>6 DEF IInv, OneCreator
<1>8. \A d \in Clients : Wrote(d) => Wrote(d)'  BY <1>1, <1>2, <1>3 DEF Wrote
<1>9. LastWriter'
  <2>1. (\E d \in Clients : Wrote(d)) => \E d \in Clients : Wrote(d)'  BY <1>8
  <2> QED  BY <1>2, <2>1 DEF IInv, LastWriter
<1>10. CreatedOnce' /\ LoadNeedsPassword'
  BY <1>2 DEF IInv, CreatedOnce, LoadNeedsPassword
<1>11. HalfUserOnlyByFault'
  BY <1>1, <1>2 DEF IInv, HalfUserOnlyByFault
<1> QED  BY <1>4, <1>5, <1>7, <1>9, <1>10, <1>11 DEF IInv

\* Reading and refusing: everything that leaves the data alone.
LEMMA ReadersKeep ==
    ASSUME IInv, NEW c \in Clients,
           \/ Request(c) \/ FindUser(c) \/ CheckToken(c) \/ GetGameData(c)
           \/ ReadFails(c)
    PROVE  IInv'
<1>1. PICK stage \in Early \union {"getData", "loaded"} :
        /\ Go(c, stage)
        /\ pc[c] \notin {"addGame", "loggedIn"}
        /\ stage = "getData" => TokenMatches(c)
        /\ stage = "loaded" => pc[c] = "getData"
        /\ UNCHANGED <<stores, authToken, clients, faulted>>
  <2>1. CASE Request(c)  BY <2>1 DEF Request, At, Early
  <2>2. CASE FindUser(c)  BY <2>2 DEF FindUser, At, Early
  <2>3. CASE CheckToken(c)  BY <2>3 DEF CheckToken, At, Early
  <2>4. CASE GetGameData(c)  BY <2>4 DEF GetGameData, At, Early
  <2>5. CASE ReadFails(c)  BY <2>5 DEF ReadFails, Early
  <2> QED  BY <2>1, <2>2, <2>3, <2>4, <2>5
<1>2. stage \in Early \/ (stage \in {"getData", "loaded"} /\ user = PW[c])
  BY <1>1 DEF TokenMatches, IInv, StagesSound
<1>3. stage \in Stages  BY <1>1 DEF Early, Stages
<1> QED  BY <1>1, <1>2, <1>3, QuietKeeps

LEMMA AddUserKeeps == ASSUME IInv, NEW c \in Clients, AddUser(c) PROVE IInv'
<1>1. CASE user # None
  <2>1. Go(c, "idle") /\ UNCHANGED <<stores, authToken, clients, faulted>> /\ pc[c] = "addUser"
    BY <1>1 DEF AddUser, At, stores
  <2> QED  BY <2>1, QuietKeeps DEF Early, Stages
<1>2. CASE user = None
  <2>1. /\ pc[c] = "addUser" /\ Go(c, "addGame") /\ user' = PW[c]
        /\ gameData' = gameData /\ session' = session /\ authToken' = authToken
        /\ token' = token /\ created' = created /\ loaded' = loaded
        /\ faulted' = faulted
    BY <1>2 DEF AddUser, At, clients
  <2>2. /\ pc' \in [Clients -> Stages]
        /\ pc'[c] = "addGame"
        /\ \A d \in Clients : d # c => pc'[d] = pc[d]
    BY <2>1, GoFacts DEF IInv, Stages
  <2>3. \A d \in Clients : user # PW[d]  BY <1>2, PasswordAssumption
  <2>4. \A d \in Clients : ~Creates(d)
    BY <2>3 DEF Creates, IInv, StagesSound, CreatedOnce
  <2>5. \A d \in Clients : token[d] = None /\ loaded[d] # TRUE
    BY <2>3 DEF IInv, StagesSound, LoadNeedsPassword
  <2>6. ~gameData /\ PW[c] # None  BY <1>2, PasswordAssumption DEF IInv, StagesSound
  <2>7. TypeOK'
    <3>1. user' \in Optional(Passwords)  BY <2>1, PasswordAssumption DEF Optional
    <3>2. \A d \in Clients : pc'[d] \in {"addToken", "loggedIn"} => authToken'[d] \in Ticks
      BY <2>1, <2>2 DEF IInv, TypeOK
    <3> QED  BY <2>1, <2>2, <3>1, <3>2, Zenon DEF IInv, TypeOK
  <2>8. StagesSound'
    BY <2>1, <2>2, <2>3, <2>5, <2>6 DEF IInv, StagesSound
  <2>9. OneCreator'
    <3>1. \A d \in Clients : Creates(d)' => d = c  BY <2>1, <2>2, <2>4 DEF Creates
    <3> QED  BY <3>1 DEF OneCreator
  <2>10. LastWriter'
    <3>1. \A d \in Clients : Wrote(d) => Wrote(d)'  BY <2>1, <2>2 DEF Wrote
    <3>2. (\E d \in Clients : Wrote(d)) => \E d \in Clients : Wrote(d)'  BY <3>1
    <3> QED  BY <2>1, <3>2 DEF IInv, LastWriter
  <2>11. CreatedOnce'  BY <2>1, <2>4 DEF CreatedOnce, Creates, IInv, TypeOK
  <2>12. HalfUserOnlyByFault'  BY <2>2 DEF HalfUserOnlyByFault
  <2>13. LoadNeedsPassword'  BY <2>1, <2>5 DEF LoadNeedsPassword, IInv, TypeOK
  <2> QED  BY <2>7, <2>8, <2>9, <2>10, <2>11, <2>12, <2>13 DEF IInv
<1> QED  BY <1>1, <1>2

\* Game data is inserted, and the answer is on its way (created) or lost (idle).
LEMMA GameDataKeeps ==
    ASSUME IInv, NEW c \in Clients, NEW stage \in {"idle", "created"},
           pc[c] = "addGame", Go(c, stage), gameData' \in BOOLEAN,
           gameData' = TRUE \/ (faulted' = TRUE /\ stage = "idle"),
           faulted' \in {faulted, TRUE},
           UNCHANGED <<user, session, authToken, clients>>
    PROVE  IInv'
<1>1. /\ user' = user /\ session' = session /\ authToken' = authToken
      /\ token' = token /\ created' = created /\ loaded' = loaded
  BY DEF clients
<1>2. /\ pc' \in [Clients -> Stages]
      /\ pc'[c] = stage
      /\ \A d \in Clients : d # c => pc'[d] = pc[d]
  BY GoFacts DEF IInv, Stages
<1>3. user = PW[c] /\ ~gameData /\ user # None
  BY PasswordAssumption DEF IInv, StagesSound
<1>4. \A d \in Clients : d # c => ~Creates(d)
  BY DEF IInv, OneCreator, Creates
<1>5. TypeOK'
  <2>1. \A d \in Clients : pc'[d] \in {"addToken", "loggedIn"} => authToken'[d] \in Ticks
    BY <1>1, <1>2 DEF IInv, TypeOK
  <2>2. faulted' \in BOOLEAN  BY DEF IInv, TypeOK
  <2> QED  BY <1>1, <1>2, <2>1, <2>2, Zenon DEF IInv, TypeOK
<1>6. StagesSound'
  BY <1>1, <1>2, <1>3, <1>4 DEF IInv, StagesSound, Creates
<1>7. OneCreator'
  <2>1. \A d \in Clients : Creates(d)' => d = c
    BY <1>1, <1>2, <1>4 DEF Creates
  <2> QED  BY <2>1 DEF OneCreator
<1>8. LastWriter'
  <2>1. \A d \in Clients : Wrote(d) => Wrote(d)'  BY <1>1, <1>2 DEF Wrote
  <2>2. (\E d \in Clients : Wrote(d)) => \E d \in Clients : Wrote(d)'  BY <2>1
  <2> QED  BY <1>1, <2>2 DEF IInv, LastWriter
<1>9. CreatedOnce'
  <2>1. \A d \in Clients : created[d] # TRUE
    BY <1>3 DEF IInv, CreatedOnce
  <2> QED  BY <1>1, <2>1 DEF CreatedOnce, IInv, TypeOK
<1>10. HalfUserOnlyByFault'  BY DEF HalfUserOnlyByFault
<1>11. LoadNeedsPassword'  BY <1>1 DEF IInv, LoadNeedsPassword
<1> QED  BY <1>5, <1>6, <1>7, <1>8, <1>9, <1>10, <1>11 DEF IInv

LEMMA AddGameDataKeeps == ASSUME IInv, NEW c \in Clients, AddGameData(c) PROVE IInv'
<1>1. pc[c] = "addGame" /\ ~gameData
  BY DEF AddGameData, At, IInv, StagesSound
<1>2. /\ Go(c, "created") /\ gameData' = TRUE /\ faulted' = faulted
      /\ UNCHANGED <<user, session, authToken, clients>>
  BY <1>1 DEF AddGameData
<1> QED  BY <1>1, <1>2, GameDataKeeps

LEMMA CheckPasswordKeeps ==
    ASSUME IInv, NEW c \in Clients, CheckPassword(c) PROVE IInv'
<1>1. CASE user # PW[c]
  <2>1. Go(c, "idle") /\ UNCHANGED <<stores, authToken, clients, faulted>> /\ pc[c] = "getUser"
    BY <1>1 DEF CheckPassword, At
  <2> QED  BY <2>1, QuietKeeps DEF Early, Stages
<1>2. CASE user = PW[c]
  <2>1. PICK t \in Ticks : authToken' = [authToken EXCEPT ![c] = t]
    BY <1>2 DEF CheckPassword
  <2>2. /\ pc[c] = "getUser" /\ Go(c, "addToken")
        /\ user' = user /\ gameData' = gameData /\ session' = session
        /\ token' = token /\ created' = created /\ loaded' = loaded
        /\ faulted' = faulted
    BY <1>2 DEF CheckPassword, At, stores, clients
  <2>3. /\ pc' \in [Clients -> Stages]
        /\ pc'[c] = "addToken"
        /\ \A d \in Clients : d # c => pc'[d] = pc[d]
    BY <2>2, GoFacts DEF IInv, Stages
  <2>4. /\ authToken' \in [Clients -> Optional(Ticks)]
        /\ authToken'[c] = t
        /\ \A d \in Clients : d # c => authToken'[d] = authToken[d]
    BY <2>1 DEF IInv, TypeOK, Optional
  <2>5. TypeOK'
    <3>1. \A d \in Clients : pc'[d] \in {"addToken", "loggedIn"} => authToken'[d] \in Ticks
      BY <2>1, <2>3, <2>4 DEF IInv, TypeOK
    <3> QED  BY <2>2, <2>3, <2>4, <3>1, Zenon DEF IInv, TypeOK
  <2>6. StagesSound'  BY <1>2, <2>2, <2>3 DEF IInv, StagesSound
  <2>7. OneCreator'
    <3>1. \A d \in Clients : Creates(d)' => Creates(d)  BY <2>2, <2>3 DEF Creates
    <3>2. \A d, e \in Clients : Creates(d)' /\ Creates(e)' => d = e
      BY <3>1 DEF IInv, OneCreator
    <3> QED  BY <3>2 DEF OneCreator
  <2>8. LastWriter'
    <3>1. \A d \in Clients : Wrote(d) => Wrote(d)'  BY <2>2, <2>3, <2>4 DEF Wrote
    <3>2. (\E d \in Clients : Wrote(d)) => \E d \in Clients : Wrote(d)'  BY <3>1
    <3> QED  BY <2>2, <3>2 DEF IInv, LastWriter
  <2>9. CreatedOnce' /\ LoadNeedsPassword'
    BY <2>2 DEF IInv, CreatedOnce, LoadNeedsPassword
  <2>10. HalfUserOnlyByFault'  BY <2>2, <2>3 DEF IInv, HalfUserOnlyByFault
  <2> QED  BY <2>5, <2>6, <2>7, <2>8, <2>9, <2>10 DEF IInv
<1> QED  BY <1>1, <1>2

LEMMA AddTokenKeeps == ASSUME IInv, NEW c \in Clients, AddToken(c) PROVE IInv'
<1>1. /\ pc[c] = "addToken" /\ Go(c, "loggedIn")
      /\ user' = user /\ gameData' = gameData /\ authToken' = authToken
      /\ token' = token /\ created' = created /\ loaded' = loaded
      /\ \/ session' = authToken[c] /\ faulted' = faulted
         \/ session' = session /\ faulted' = TRUE
  BY DEF AddToken, At, clients
<1>2. /\ pc' \in [Clients -> Stages]
      /\ pc'[c] = "loggedIn"
      /\ \A d \in Clients : d # c => pc'[d] = pc[d]
  BY <1>1, GoFacts DEF IInv, Stages
<1>3. TypeOK'
  <2>1. \A d \in Clients : pc'[d] \in {"addToken", "loggedIn"} => authToken'[d] \in Ticks
    BY <1>1, <1>2 DEF IInv, TypeOK
  <2>2. session' \in Optional(Ticks)  BY <1>1 DEF IInv, TypeOK
  <2>3. faulted' \in BOOLEAN  BY <1>1 DEF IInv, TypeOK
  <2> QED  BY <1>1, <1>2, <2>1, <2>2, <2>3, Zenon DEF IInv, TypeOK
<1>4. StagesSound'  BY <1>1, <1>2 DEF IInv, StagesSound
<1>5. OneCreator'
  <2>1. \A d \in Clients : Creates(d)' => Creates(d)  BY <1>1, <1>2 DEF Creates
  <2>2. \A d, e \in Clients : Creates(d)' /\ Creates(e)' => d = e
    BY <2>1 DEF IInv, OneCreator
  <2> QED  BY <2>2 DEF OneCreator
<1>6. LastWriter'
  <2>1. session' = authToken[c] => Wrote(c)'  BY <1>1, <1>2 DEF Wrote
  <2> QED  BY <1>1, <2>1 DEF LastWriter
<1>7. CreatedOnce' /\ LoadNeedsPassword'
  BY <1>1 DEF IInv, CreatedOnce, LoadNeedsPassword
<1>8. HalfUserOnlyByFault'  BY <1>1, <1>2 DEF IInv, HalfUserOnlyByFault
<1> QED  BY <1>3, <1>4, <1>5, <1>6, <1>7, <1>8 DEF IInv

LEMMA AnswerLoginKeeps == ASSUME IInv, NEW c \in Clients, AnswerLogin(c) PROVE IInv'
<1>1. /\ pc[c] = "loggedIn" /\ Go(c, "idle")
      /\ user' = user /\ gameData' = gameData /\ session' = session
      /\ created' = created /\ loaded' = loaded /\ faulted' = faulted
      /\ token' = [token EXCEPT ![c] = authToken[c]]
      /\ authToken' = [authToken EXCEPT ![c] = None]
  BY DEF AnswerLogin, At, stores
<1>2. /\ pc' \in [Clients -> Stages]
      /\ pc'[c] = "idle"
      /\ \A d \in Clients : d # c => pc'[d] = pc[d]
  BY <1>1, GoFacts DEF IInv, Stages
<1>3. /\ authToken' \in [Clients -> Optional(Ticks)]
      /\ \A d \in Clients : d # c => authToken'[d] = authToken[d]
      /\ token' \in [Clients -> Optional(Ticks)]
      /\ token'[c] = authToken[c]
      /\ \A d \in Clients : d # c => token'[d] = token[d]
  BY <1>1 DEF IInv, TypeOK, Optional
<1>4. TypeOK'
  <2>1. \A d \in Clients : pc'[d] \in {"addToken", "loggedIn"} => authToken'[d] \in Ticks
    BY <1>2, <1>3 DEF IInv, TypeOK
  <2> QED  BY <1>1, <1>2, <1>3, <2>1, Zenon DEF IInv, TypeOK
<1>5. StagesSound'
  <2>1. user = PW[c]  BY <1>1 DEF IInv, StagesSound
  <2> QED  BY <1>1, <1>2, <1>3, <2>1 DEF IInv, StagesSound
<1>6. OneCreator'
  <2>1. \A d \in Clients : Creates(d)' => Creates(d)  BY <1>1, <1>2 DEF Creates
  <2>2. \A d, e \in Clients : Creates(d)' /\ Creates(e)' => d = e
    BY <2>1 DEF IInv, OneCreator
  <2> QED  BY <2>2 DEF OneCreator
<1>7. LastWriter'
  <2>1. \A d \in Clients : Wrote(d) => Wrote(d)'  BY <1>1, <1>2, <1>3 DEF Wrote
  <2>2. (\E d \in Clients : Wrote(d)) => \E d \in Clients : Wrote(d)'  BY <2>1
  <2> QED  BY <1>1, <2>2 DEF IInv, LastWriter
<1>8. CreatedOnce' /\ LoadNeedsPassword'
  BY <1>1 DEF IInv, CreatedOnce, LoadNeedsPassword
<1>9. HalfUserOnlyByFault'  BY <1>1, <1>2 DEF IInv, HalfUserOnlyByFault
<1> QED  BY <1>4, <1>5, <1>6, <1>7, <1>8, <1>9 DEF IInv

\* The other two answers: the client hears what its stage guarantees.
LEMMA AnswersKeep ==
    ASSUME IInv, NEW c \in Clients, AnswerCreate(c) \/ AnswerLoad(c) PROVE IInv'
<1>1. /\ Go(c, "idle") /\ pc[c] \in {"created", "loaded"}
      /\ user' = user /\ gameData' = gameData /\ session' = session
      /\ authToken' = authToken /\ token' = token /\ faulted' = faulted
      /\ created' = IF pc[c] = "created" THEN [created EXCEPT ![c] = TRUE] ELSE created
      /\ loaded' = IF pc[c] = "loaded" THEN [loaded EXCEPT ![c] = TRUE] ELSE loaded
  BY DEF AnswerCreate, AnswerLoad, At, stores
<1>2. /\ pc' \in [Clients -> Stages]
      /\ pc'[c] = "idle"
      /\ \A d \in Clients : d # c => pc'[d] = pc[d]
  BY <1>1, GoFacts DEF IInv, Stages
<1>3. /\ created' \in [Clients -> BOOLEAN]
      /\ \A d \in Clients :
           created'[d] = TRUE => created[d] = TRUE \/ (d = c /\ pc[c] = "created")
      /\ loaded' \in [Clients -> BOOLEAN]
      /\ \A d \in Clients :
           loaded'[d] = TRUE => loaded[d] = TRUE \/ (d = c /\ pc[c] = "loaded")
  BY <1>1 DEF IInv, TypeOK
<1>4. TypeOK'
  <2>1. \A d \in Clients : pc'[d] \in {"addToken", "loggedIn"} => authToken'[d] \in Ticks
    BY <1>1, <1>2 DEF IInv, TypeOK
  <2> QED  BY <1>1, <1>2, <1>3, <2>1, Zenon DEF IInv, TypeOK
<1>5. StagesSound'  BY <1>1, <1>2 DEF IInv, StagesSound
<1>6. \A d \in Clients : Creates(d)' => Creates(d)  BY <1>1, <1>2, <1>3 DEF Creates
<1>7. OneCreator'
  <2>2. \A d, e \in Clients : Creates(d)' /\ Creates(e)' => d = e
    BY <1>6 DEF IInv, OneCreator
  <2> QED  BY <2>2 DEF OneCreator
<1>8. LastWriter'
  <2>1. \A d \in Clients : Wrote(d) => Wrote(d)'  BY <1>1, <1>2 DEF Wrote
  <2>2. (\E d \in Clients : Wrote(d)) => \E d \in Clients : Wrote(d)'  BY <2>1
  <2> QED  BY <1>1, <2>2 DEF IInv, LastWriter
<1>9. CreatedOnce'
  <2> SUFFICES ASSUME NEW d \in Clients, created'[d] = TRUE
               PROVE  /\ user' = PW[d] /\ gameData'
                      /\ \A e \in Clients : created'[e] = TRUE => d = e
    BY <1>3 DEF CreatedOnce
  <2>1. user' = PW[d] /\ gameData'
    BY <1>1, <1>3 DEF IInv, StagesSound, CreatedOnce
  <2>2. \A e \in Clients : created'[e] = TRUE => Creates(e)  BY <1>3 DEF Creates
  <2> QED  BY <2>1, <2>2 DEF IInv, OneCreator
<1>10. LoadNeedsPassword'
  BY <1>1, <1>3 DEF IInv, StagesSound, LoadNeedsPassword
<1>11. HalfUserOnlyByFault'  BY <1>1, <1>2 DEF IInv, HalfUserOnlyByFault
<1> QED  BY <1>4, <1>5, <1>7, <1>8, <1>9, <1>10, <1>11 DEF IInv

LEMMA InsertFailsKeeps == ASSUME IInv, NEW c \in Clients, InsertFails(c) PROVE IInv'
<1>1. CASE pc[c] = "addGame"
  <2>1. /\ gameData' \in BOOLEAN /\ Go(c, "idle") /\ faulted' = TRUE
        /\ UNCHANGED <<user, session, authToken, clients>>
    BY <1>1 DEF InsertFails, At, IInv, TypeOK
  <2> QED  BY <1>1, <2>1, GameDataKeeps
<1>2. CASE pc[c] = "addUser"
  <2>1. /\ Go(c, "idle") /\ faulted' = TRUE
        /\ user' \in {user, IF user = None THEN PW[c] ELSE user}
        /\ gameData' = gameData /\ session' = session /\ authToken' = authToken
        /\ token' = token /\ created' = created /\ loaded' = loaded
    BY <1>2 DEF InsertFails, At, clients
  <2>2. /\ pc' \in [Clients -> Stages]
        /\ pc'[c] = "idle"
        /\ \A d \in Clients : d # c => pc'[d] = pc[d]
    BY <2>1, GoFacts DEF IInv, Stages
  <2>3. user' = user \/ (user = None /\ user' = PW[c])  BY <2>1
  <2>4. user' \in Optional(Passwords)
    BY <2>3, PasswordAssumption DEF IInv, TypeOK, Optional
  <2>5. \A d \in Clients : user = PW[d] => user' = PW[d]
    BY <2>3, PasswordAssumption
  <2>6. TypeOK'
    <3>1. \A d \in Clients : pc'[d] \in {"addToken", "loggedIn"} => authToken'[d] \in Ticks
      BY <2>1, <2>2 DEF IInv, TypeOK
    <3> QED  BY <2>1, <2>2, <2>4, <3>1, Zenon DEF IInv, TypeOK
  <2>7. StagesSound'
    BY <2>1, <2>2, <2>3, <2>5 DEF IInv, StagesSound
  <2>8. OneCreator'
    <3>1. \A d \in Clients : Creates(d)' => Creates(d)  BY <2>1, <2>2 DEF Creates
    <3>2. \A d, e \in Clients : Creates(d)' /\ Creates(e)' => d = e
      BY <3>1 DEF IInv, OneCreator
    <3> QED  BY <3>2 DEF OneCreator
  <2>9. LastWriter' /\ HalfUserOnlyByFault'
    BY <2>1 DEF LastWriter, HalfUserOnlyByFault
  <2>10. CreatedOnce' /\ LoadNeedsPassword'
    BY <2>1, <2>5 DEF IInv, CreatedOnce, LoadNeedsPassword
  <2> QED  BY <2>6, <2>7, <2>8, <2>9, <2>10 DEF IInv
<1> QED  BY <1>1, <1>2 DEF InsertFails, At

LEMMA CrashKeeps == ASSUME IInv, Crash PROVE IInv'
<1>1. /\ \A d \in Clients : pc'[d] = "idle"
      /\ pc' \in [Clients -> Stages]
      /\ authToken' \in [Clients -> Optional(Ticks)]
      /\ faulted' = TRUE
      /\ user' = user /\ gameData' = gameData /\ session' = session
      /\ token' = token /\ created' = created /\ loaded' = loaded
  BY DEF Crash, Stages, Optional, stores, clients
<1>2. TypeOK'
  <2>1. \A d \in Clients : pc'[d] \in {"addToken", "loggedIn"} => authToken'[d] \in Ticks
    BY <1>1
  <2> QED  BY <1>1, <2>1, Zenon DEF IInv, TypeOK
<1>3. StagesSound'  BY <1>1 DEF IInv, StagesSound
<1>4. OneCreator'  BY <1>1 DEF IInv, OneCreator, Creates
<1>5. LastWriter' /\ HalfUserOnlyByFault'
  BY <1>1 DEF LastWriter, HalfUserOnlyByFault
<1>6. CreatedOnce' /\ LoadNeedsPassword'
  BY <1>1 DEF IInv, CreatedOnce, LoadNeedsPassword
<1> QED  BY <1>2, <1>3, <1>4, <1>5, <1>6 DEF IInv

LEMMA StepKeeps == ASSUME IInv, [Next]_vars PROVE IInv'
<1>1. CASE Crash  BY <1>1, CrashKeeps
<1>2. ASSUME NEW c \in Clients, Request(c) \/ Handle(c) PROVE IInv'
  BY <1>2, ReadersKeep, AddUserKeeps, AddGameDataKeeps, CheckPasswordKeeps,
     AddTokenKeeps, AnswerLoginKeeps, AnswersKeep, InsertFailsKeeps
  DEF Handle
<1>3. CASE UNCHANGED vars
  BY <1>3 DEF vars, stores, clients, IInv, TypeOK, StagesSound, OneCreator, Creates,
       LastWriter, Wrote, CreatedOnce, HalfUserOnlyByFault, LoadNeedsPassword
<1> QED  BY <1>1, <1>2, <1>3 DEF Next

-----------------------------------------------------------------------------

\* The invariants of the account handlers, with what they rest on, hold for any
\* clients, passwords and clock, through every fault of the databases modelled.
THEOREM AccountInvariance == Spec => []IInv
BY InitHolds, StepKeeps, PTL DEF Spec

\* Every variable keeps its type; a login past the password has a token.
THEOREM AccountTypeCorrect == Spec => []TypeOK
<1>1. IInv => TypeOK  BY DEF IInv
<1> QED  BY <1>1, AccountInvariance, PTL

\* At most one client is told that it created the user, and truly.
THEOREM CreatedByOne == Spec => []CreatedOnce
<1>1. IInv => CreatedOnce  BY DEF IInv
<1> QED  BY <1>1, AccountInvariance, PTL

\* Without a fault a user lacks game data only while it is being created.
THEOREM HalfUsersAreFaults == Spec => []HalfUserOnlyByFault
<1>1. IInv => HalfUserOnlyByFault  BY DEF IInv
<1> QED  BY <1>1, AccountInvariance, PTL

\* Game data goes only to clients that know the password.
THEOREM LoadsKnowThePassword == Spec => []LoadNeedsPassword
<1>1. IInv => LoadNeedsPassword  BY DEF IInv
<1> QED  BY <1>1, AccountInvariance, PTL

\* Some client holds the stored token or is being told it, unless a write was lost.
THEOREM TokensAreHeld == Spec => []StoredTokenIsHeld
<1>1. IInv => StoredTokenIsHeld  BY DEF IInv, LastWriter, Wrote, StoredTokenIsHeld
<1> QED  BY <1>1, AccountInvariance, PTL

=============================================================================
