----------------------------- MODULE WebAccount ------------------------------
(***************************************************************************)
(* One user ID of the web API (WebAPI_Redis, Request/*.cs and Data/*.cs):  *)
(* creating the user, logging in and loading the game data, as requests of *)
(* several clients that run concurrently.  The account and the game data   *)
(* are documents in two MongoDB collections, the session's token is a      *)
(* string in Redis, and every access is a call of its own (an await).  A   *)
(* handler goes through                                                    *)
(*                                                                         *)
(*   create:  find -> addUser -> addGame -> created                        *)
(*   login:   getUser -> addToken -> loggedIn                              *)
(*   load:    check -> getData -> loaded                                   *)
(*                                                                         *)
(* and back to idle when it answers, is refused or fails.  A failed call   *)
(* to MongoDB ends the request with an exception, a failed call to Redis   *)
(* is swallowed (DB/Redis.cs), and the host may crash at any moment.       *)
(* Everything is keyed by the ID, so IDs do not meet; the empty ID is      *)
(* refused before any access and left out.                                 *)
(***************************************************************************)
EXTENDS Naturals

CONSTANTS
    Clients,    \* a client has one request at a time under way
    Passwords,
    PW,         \* the password a client sends
    Ticks,      \* what DateTime.Now.Ticks may return
    None        \* no document, no string, null

ASSUME PasswordAssumption == PW \in [Clients -> Passwords] /\ None \notin Passwords
ASSUME TicksAssumption == None \notin Ticks

VARIABLES
    user,      \* PW of the document in the account database
    gameData,  \* the game database has a document
    session,   \* AuthToken of the string in Redis
    pc,        \* how far a client's request is
    authToken, \* the local variable of Login
    token,     \* what the client was last told at a login, and sends with a load
    created,   \* the client was told that it has created the user
    loaded,    \* the client was given the game data
    faulted    \* history: a write was lost, or the answer to it, or the host crashed

stores == <<user, gameData, session>>
clients == <<token, created, loaded>>
vars == <<stores, pc, authToken, clients, faulted>>

Stages == {"idle", "find", "addUser", "addGame", "created", "getUser", "addToken",
           "loggedIn", "check", "getData", "loaded"}

Init ==
    /\ user = None
    /\ gameData = FALSE
    /\ session = None
    /\ pc = [c \in Clients |-> "idle"]
    /\ authToken = [c \in Clients |-> None]
    /\ token = [c \in Clients |-> None]
    /\ created = [c \in Clients |-> FALSE]
    /\ loaded = [c \in Clients |-> FALSE]
    /\ faulted = FALSE

At(c, stage) == pc[c] = stage
Go(c, stage) == pc' = [pc EXCEPT ![c] = stage]

Request(c) ==
    /\ At(c, "idle")
    /\ \E stage \in {"find", "getUser", "check"} : Go(c, stage)
    /\ UNCHANGED <<stores, authToken, clients, faulted>>

-----------------------------------------------------------------------------
\* CreateUser

\* FirstOrDefaultAsync gives null when there is no document.
FindUser(c) ==
    /\ At(c, "find")
    /\ Go(c, IF user # None THEN "idle" ELSE "addUser")
    /\ UNCHANGED <<stores, authToken, clients, faulted>>

\* Variant: the document is replaced when there is one.
AddUser_Upsert(c) ==
    /\ At(c, "addUser")
    /\ user' = PW[c]
    /\ Go(c, "addGame")
    /\ UNCHANGED <<gameData, session, authToken, clients, faulted>>

\* InsertOneAsync: a second document with the same _id is an exception.
AddUser(c) ==
    /\ At(c, "addUser")
    /\ IF user = None
         THEN user' = PW[c] /\ Go(c, "addGame")
         ELSE UNCHANGED user /\ Go(c, "idle")
    /\ UNCHANGED <<gameData, session, authToken, clients, faulted>>

\* Variant: the client is answered without game data.
AddGameData_Forgotten(c) ==
    /\ At(c, "addGame")
    /\ Go(c, "created")
    /\ UNCHANGED <<stores, authToken, clients, faulted>>

AddGameData(c) ==
    /\ At(c, "addGame")
    /\ gameData' = TRUE
    /\ Go(c, IF gameData THEN "idle" ELSE "created")
    /\ UNCHANGED <<user, session, authToken, clients, faulted>>

-----------------------------------------------------------------------------
\* Login

\* Variant: the token is read from the clock only when it is stored.
CheckPassword_NoToken(c) ==
    /\ At(c, "getUser")
    /\ Go(c, IF user = PW[c] THEN "addToken" ELSE "idle")
    /\ UNCHANGED <<stores, authToken, clients, faulted>>

\* GetUser, the comparison of the passwords and the reading of the clock.
CheckPassword(c) ==
    /\ At(c, "getUser")
    /\ IF user = PW[c]
         THEN /\ Go(c, "addToken")
              /\ \E t \in Ticks : authToken' = [authToken EXCEPT ![c] = t]
         ELSE Go(c, "idle") /\ UNCHANGED authToken
    /\ UNCHANGED <<stores, clients, faulted>>

\* AuthTokenRepository.Add: nobody looks whether the string was set.
AddToken(c) ==
    /\ At(c, "addToken")
    /\ \/ session' = authToken[c] /\ UNCHANGED faulted
       \/ UNCHANGED session /\ faulted' = TRUE
    /\ Go(c, "loggedIn")
    /\ UNCHANGED <<user, gameData, authToken, clients>>

-----------------------------------------------------------------------------
\* LoadBasicGameData.  The request lock around the reading is commented out.

\* Variant: a missing session is not told from one with the default token null.
TokenMatches_NoItem1(c) == session = token[c]

TokenMatches(c) == session # None /\ session = token[c]

\* AuthTokenRepository.Check: a failed read of Redis is an invalid token.
CheckToken(c) ==
    /\ At(c, "check")
    /\ \/ Go(c, "idle")
       \/ TokenMatches(c) /\ Go(c, "getData")
    /\ UNCHANGED <<stores, authToken, clients, faulted>>

GetGameData(c) ==
    /\ At(c, "getData")
    /\ Go(c, IF gameData THEN "loaded" ELSE "idle")
    /\ UNCHANGED <<stores, authToken, clients, faulted>>

-----------------------------------------------------------------------------
\* Answers and faults

AnswerCreate(c) ==
    /\ At(c, "created")
    /\ created' = [created EXCEPT ![c] = TRUE]
    /\ Go(c, "idle")
    /\ UNCHANGED <<stores, authToken, token, loaded, faulted>>

\* Variant: the answer reads the clock once more.
AnswerLogin_SecondClock(c) ==
    /\ At(c, "loggedIn")
    /\ \E t \in Ticks : token' = [token EXCEPT ![c] = t]
    /\ authToken' = [authToken EXCEPT ![c] = None]
    /\ Go(c, "idle")
    /\ UNCHANGED <<stores, created, loaded, faulted>>

AnswerLogin(c) ==
    /\ At(c, "loggedIn")
    /\ token' = [token EXCEPT ![c] = authToken[c]]
    /\ authToken' = [authToken EXCEPT ![c] = None]
    /\ Go(c, "idle")
    /\ UNCHANGED <<stores, created, loaded, faulted>>

AnswerLoad(c) ==
    /\ At(c, "loaded")
    /\ loaded' = [loaded EXCEPT ![c] = TRUE]
    /\ Go(c, "idle")
    /\ UNCHANGED <<stores, authToken, token, created, faulted>>

ReadFails(c) ==
    /\ pc[c] \in {"find", "getUser", "getData"}
    /\ Go(c, "idle")
    /\ UNCHANGED <<stores, authToken, clients, faulted>>

\* The insertion fails, before or after MongoDB has carried it out.
InsertFails(c) ==
    /\ \/ /\ At(c, "addUser")
          /\ user' \in {user, IF user = None THEN PW[c] ELSE user}
          /\ UNCHANGED gameData
       \/ /\ At(c, "addGame")
          /\ gameData' \in {gameData, TRUE}
          /\ UNCHANGED user
    /\ Go(c, "idle")
    /\ faulted' = TRUE
    /\ UNCHANGED <<session, authToken, clients>>

\* The host ends with every request under way; the databases stay.
Crash ==
    /\ pc' = [c \in Clients |-> "idle"]
    /\ authToken' = [c \in Clients |-> None]
    /\ faulted' = TRUE
    /\ UNCHANGED <<stores, clients>>

-----------------------------------------------------------------------------

Handle(c) ==
    \/ FindUser(c) \/ AddUser(c) \/ AddGameData(c) \/ AnswerCreate(c)
    \/ CheckPassword(c) \/ AddToken(c) \/ AnswerLogin(c)
    \/ CheckToken(c) \/ GetGameData(c) \/ AnswerLoad(c)
    \/ ReadFails(c) \/ InsertFails(c)

Next == Crash \/ \E c \in Clients : Request(c) \/ Handle(c)

\* No fairness: a request may be left at any point.
Spec == Init /\ [][Next]_vars

-----------------------------------------------------------------------------

Optional(S) == S \union {None}

\* Every variable has its type; a login that is past the password has a token.
TypeOK ==
    /\ user \in Optional(Passwords)
    /\ gameData \in BOOLEAN
    /\ session \in Optional(Ticks)
    /\ pc \in [Clients -> Stages]
    /\ authToken \in [Clients -> Optional(Ticks)]
    /\ token \in [Clients -> Optional(Ticks)]
    /\ created \in [Clients -> BOOLEAN]
    /\ loaded \in [Clients -> BOOLEAN]
    /\ faulted \in BOOLEAN
    /\ \A c \in Clients : pc[c] \in {"addToken", "loggedIn"} => authToken[c] \in Ticks

\* Whoever is told that it has created the user is the only one told so, the
\* account has its password and there is game data (CreateUser.cs:26-36): of two
\* requests that both find nobody one fails.
CreatedOnce ==
    \A c \in Clients : created[c] =>
        user = PW[c] /\ gameData /\ \A d \in Clients : created[d] => c = d

\* A user without game data is one that is being created, unless a fault struck
\* between the two insertions (CreateUser.cs:32); such a user stays, since
\* creating it again is refused.
HalfUserOnlyByFault ==
    (user # None /\ ~gameData) => (faulted \/ \E c \in Clients : pc[c] = "addGame")

\* Only clients that know the password get the game data (Login.cs:26,
\* AuthTokenRespository.cs:22), a client without a token never does.
LoadNeedsPassword == \A c \in Clients : loaded[c] => user = PW[c]

\* However logins race, some client holds the stored token or is being told it,
\* unless a write was lost (Login.cs:32).
StoredTokenIsHeld ==
    session # None =>
        \/ faulted
        \/ \E c \in Clients :
             token[c] = session \/ (pc[c] = "loggedIn" /\ authToken[c] = session)

=============================================================================
