----------------------------- MODULE ApiRequests -----------------------------
(***************************************************************************)
(* What a request to the API is answered and which method of the program   *)
(* it calls (ApiConnection::processRequest and its helpers).  A value in a *)
(* request is known by how the code treats it: absent, of the wrong type,  *)
(* refused by what it is passed to, or good.                               *)
(*                                                                         *)
(* An answer has a result, an error with a code, both or neither; Uncoded  *)
(* is an error without the member "code".                                  *)
(***************************************************************************)
EXTENDS Integers, Sequences, FiniteSets

Queries == {"miner_getstat1", "miner_getstatdetail", "miner_ping", "miner_getconnections",
            "miner_getscramblerinfo"}

Commands == {"miner_shuffle", "miner_restart", "miner_reboot"}

(* The members of "params" that a method reads.                            *)
Members == [api_authorize |-> {"psw"}, miner_addconnection |-> {"uri"},
            miner_setactiveconnection |-> {"index", "URI"}, miner_removeconnection |-> {"index"},
            miner_setscramblerinfo |-> {"noncescrambler", "segmentwidth"},
            miner_pausegpu |-> {"index", "pause"}, miner_setverbosity |-> {"verbosity"}]

Methods == Queries \union Commands \union DOMAIN Members \union {"other"}

(* A scrambler may also be an object, or text that is no number.           *)
Values == {"absent", "wrongType", "refused", "good"}
ValuesOf(member) == IF member = "noncescrambler" THEN Values \union {"object", "text"} ELSE Values

Headers == {"good", "notObject", "badId", "badVersion", "noMethod"}

NoParams == <<>>

(* "params" is missing, no object or empty, or it holds something.         *)
ParamsOf(method) == IF method \notin DOMAIN Members THEN {NoParams}
                    ELSE {p \in [Members[method] -> UNION {ValuesOf(m) : m \in Members[method]}] :
                            \A m \in Members[method] : p[m] \in ValuesOf(m)} \union {NoParams}

Requests == {[header |-> h, method |-> "other", params |-> NoParams] : h \in Headers \ {"good"}}
              \union UNION {{[header |-> "good", method |-> m, params |-> p] : p \in ParamsOf(m)}
                            : m \in Methods}

-----------------------------------------------------------------------------
NoError == 0
Uncoded == 1

(* getRequestValue: what an absent or mistyped value is answered.          *)
getRequestValue(r, member) == IF r.params[member] \in {"absent", "wrongType"} THEN -32602 ELSE NoError

(* An error of the called method, which catches it.                        *)
Refused(r, member) == IF r.params[member] = "refused" THEN -422 ELSE NoError

FirstError(codes) == LET bad == {i \in DOMAIN codes : codes[i] # NoError}
                     IN  IF bad = {} THEN NoError
                         ELSE codes[CHOOSE i \in bad : \A j \in bad : i <= j]

setactiveconnection(r) ==
    LET chosen == IF r.params["index"] # "absent" THEN "index" ELSE "URI"
    IN  IF r.params[chosen] = "good" THEN NoError ELSE -422

(* An object makes asString throw; text makes asUInt64 throw, whose        *)
(* handler stores the code in the request.                                 *)
NonceError(r) == CASE r.params["noncescrambler"] \in {"object", "text"} -> Uncoded
                   [] r.params["noncescrambler"] = "refused" -> -422
                   [] r.params["noncescrambler"] = "wrongType" -> -32602
                   [] OTHER -> NoError

(* A width out of range is limited, not refused.                           *)
WidthError(r) == IF r.params["segmentwidth"] = "wrongType" THEN -32602 ELSE NoError

SomeGiven(r) == IF \A m \in DOMAIN r.params : r.params[m] = "absent" THEN -32602 ELSE NoError

(* The errors of a method that changes something, once it may.             *)
ParamsError(r) ==
    IF r.method \in Commands THEN NoError
    ELSE IF r.params = NoParams THEN -32602
    ELSE CASE r.method = "miner_addconnection" -> FirstError(<<getRequestValue(r, "uri"), Refused(r, "uri")>>)
           [] r.method = "miner_removeconnection" ->
                FirstError(<<getRequestValue(r, "index"), Refused(r, "index")>>)
           [] r.method = "miner_setactiveconnection" -> setactiveconnection(r)
           [] r.method = "miner_setscramblerinfo" ->
                FirstError(<<NonceError(r), WidthError(r), SomeGiven(r)>>)
           [] r.method = "miner_pausegpu" ->
                FirstError(<<getRequestValue(r, "index"), getRequestValue(r, "pause"), Refused(r, "index")>>)
           [] r.method = "miner_setverbosity" ->
                FirstError(<<getRequestValue(r, "verbosity"), Refused(r, "verbosity")>>)

(* Mutant: a failed attempt leaves what was granted before.                *)
AuthorizeKeeps(auth, r) == auth \/ (r.params # NoParams /\ r.params["psw"] = "good")

(* api_authorize starts by withdrawing what was granted before.            *)
api_authorize(auth, r) == r.params # NoParams /\ r.params["psw"] = "good"

AuthorizeError(r) == IF r.params = NoParams THEN -32602
                     ELSE FirstError(<<getRequestValue(r, "psw"),
                                       IF r.params["psw"] = "refused" THEN -401 ELSE NoError>>)

checkApiWriteAccess(readonly) == IF readonly THEN -32601 ELSE NoError

HeaderError(r) == CASE r.header = "good" -> NoError
                    [] r.header = "notObject" -> Uncoded
                    [] OTHER -> -32600

(* processRequest on a connection that is authenticated or not: the error  *)
(* of the answer, whether it has a result, and whether m_is_authenticated  *)
(* holds afterwards.                                                       *)
Error(auth, readonly, r) ==
    IF r.header # "good" THEN HeaderError(r)
    ELSE IF r.method = "api_authorize" THEN AuthorizeError(r)
    ELSE IF ~auth THEN -403
    ELSE IF r.method = "other" THEN -32601
    ELSE IF r.method \in Queries THEN NoError
    ELSE IF readonly THEN checkApiWriteAccess(readonly)
    ELSE ParamsError(r)

HasResult(auth, readonly, r) == /\ Error(auth, readonly, r) = NoError
                                /\ r.method # "api_authorize"

Authenticated(auth, r) == IF r.header = "good" /\ r.method = "api_authorize"
                          THEN api_authorize(auth, r) ELSE auth

(* The change that is made, if any.                                        *)
Change(auth, readonly, r) ==
    IF /\ Error(auth, readonly, r) = NoError
       /\ r.method \in Commands \union (DOMAIN Members \ {"api_authorize"})
    THEN r.method ELSE "none"

=============================================================================
