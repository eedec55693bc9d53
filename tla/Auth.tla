--------------------------------- MODULE Auth ---------------------------------
(***************************************************************************)
(* Authentication between client and server: the credentials each puts in  *)
(* its headers, the challenges that renew the nonces, and the nonces that  *)
(* the account in the device tree keeps from one session to the next.      *)
(* Messages and stores may be lost, and the client may stop at any moment. *)
(*                                                                         *)
(* Digests are not computed: credentials are the type and the nonce they   *)
(* were made with, names and secrets being right on both sides.            *)
(***************************************************************************)
EXTENDS Integers

CONSTANTS SrvNonce,   \* the nonces of the server's challenges
          Length3,    \* the length of each, modulo 3
          CltNonce,   \* what the client's rand() gives
          Accounts,   \* pairs of AAuthType values, [clt, srv]
          Asks,       \* types of authentication a server may ask for
          MaxFaults   \* lost messages, lost stores and crashes

(* Nonces that are no challenge: the provisioned one, none of length 0, no *)
(* AAuthData at all, "0x00000000", and freed memory.                       *)
OddNonce == {"factory", "empty", "absent", "default", "freed"}
Nonce    == SrvNonce \cup CltNonce \cup OddNonce

(* DMCLT_AUTH_TYPE_BASIC, DMCLT_AUTH_TYPE_DIGEST, and all the others.      *)
AuthType == {"basic", "digest", "other"}

ASSUME AuthAssumption ==
  /\ SrvNonce \cap OddNonce = {} /\ CltNonce \cap (SrvNonce \cup OddNonce) = {}
  /\ SrvNonce # {} /\ CltNonce # {} /\ Length3 \in [SrvNonce -> 0 .. 2]
  /\ Accounts \subseteq [clt : AuthType, srv : AuthType]
  /\ Asks \subseteq {"basic", "digest"} /\ MaxFaults \in Nat

VARIABLES tree,           \* AAuthData of the account's CLCRED and SRVCRED
          account,        \* AAuthType of both
          toServerCred, toClientCred,
          clt_auth, srv_auth,
          answer,         \* the queued Status for the server's header
          net,            \* the message under way
          server,         \* the type it asks for, its last challenge, the last
                          \* one of the client, and whether the client is in
          phase,          \* where the application is
          unsaved,        \* levels whose last store failed
          faults

session == <<toServerCred, toClientCred, clt_auth, srv_auth>>
vars == <<tree, account, session, answer, net, server, phase, unsaved, faults>>

ACCEPTED == 212
INVALID_CREDENTIALS == 401
MISSING_CREDENTIALS == 407

Auth(type, data) == [type |-> type, data |-> data]
NoCred == Auth("none", "empty")
NoChal == Auth("none", "empty")
NoAnswer == [code |-> 0, chal |-> NoChal]
NoMessage == [to |-> "none", first |-> FALSE, cred |-> NoCred, code |-> 0, chal |-> NoChal]

(***************************************************************************)
(* Credentials and challenges.                                             *)
(***************************************************************************)
get_credentials(auth) ==
  CASE auth.type = "basic"  -> Auth("basic", "empty")
    [] auth.type = "digest" -> auth
    [] OTHER                -> NoCred

check_credentials(cred, auth) ==
  IF cred # NoCred /\ cred = get_credentials(auth) THEN ACCEPTED ELSE INVALID_CREDENTIALS

(* Mutant of get_challenge: the account keeps its nonce.                   *)
MutantNotKept(auth, nonce) ==
  [auth |-> auth,
   chal |-> IF auth.type = "digest" THEN Auth("digest", nonce) ELSE NoChal]

(* A new nonce, kept in the account; none for the other types.             *)
get_challenge(auth, nonce) ==
  CASE auth.type = "digest" -> [auth |-> Auth("digest", nonce), chal |-> Auth("digest", nonce)]
    [] auth.type = "basic"  -> [auth |-> auth, chal |-> Auth("basic", "empty")]
    [] OTHER                -> [auth |-> auth, chal |-> NoChal]

(* Mutant of decode_b64: the text is kept as it came.                      *)
MutantUndecoded(nonce) == "base64 text"

(* One padding character is taken for an error, and nothing is decoded.    *)
decode_b64(nonce) ==
  IF nonce \in SrvNonce /\ Length3[nonce] # 2 THEN nonce ELSE "empty"

(* Mutant of Challenged: the account keeps its type.                       *)
MutantTypeKept(auth, chal) == Auth(auth.type, decode_b64(chal.data))

Challenged(auth, chal) == Auth(chal.type, decode_b64(chal.data))

(* Mutant of store_nonce: the other level is written.                      *)
MutantOtherLevel(level, data) ==
  /\ tree' = [tree EXCEPT ![IF level = "CLCRED" THEN "SRVCRED" ELSE "CLCRED"] = data]
  /\ unsaved' = unsaved \ {level}
  /\ UNCHANGED faults

(* Nobody hears of a store that fails.                                     *)
store_nonce(level, data) ==
  \/ /\ tree' = [tree EXCEPT ![level] = data]
     /\ unsaved' = unsaved \ {level}
     /\ UNCHANGED faults
  \/ /\ faults < MaxFaults
     /\ faults' = faults + 1
     /\ unsaved' = unsaved \cup {level}
     /\ UNCHANGED tree

(***************************************************************************)
(* The session.                                                            *)
(***************************************************************************)
Authenticated == clt_auth = ACCEPTED /\ srv_auth = ACCEPTED

(* A session may be started: none yet, the last one came to its end, was   *)
(* broken off, or its package #0 was refused.                              *)
MayStart == phase \in {"closed", "lost", "refused"} \/ (phase = "send" /\ Authenticated)

(* prv_fill_credentials: without AAuthData the account cannot be read.     *)
Readable == tree["CLCRED"] # "absent" /\ tree["SRVCRED"] # "absent"

(* The same handle keeps what it thinks of the server and the queued       *)
(* Status.                                                                 *)
omadmclient_session_start ==
  /\ MayStart /\ Readable
  /\ toServerCred' = Auth(account.clt, tree["CLCRED"])
  /\ toClientCred' = Auth(account.srv, tree["SRVCRED"])
  /\ phase' = "start" /\ unsaved' = {}
  /\ UNCHANGED <<tree, account, clt_auth, srv_auth, answer, net, server, faults>>

omadmclient_session_start_fails ==
  /\ MayStart /\ ~Readable
  /\ phase' = "unreadable"
  /\ UNCHANGED <<tree, account, session, answer, net, server, unsaved, faults>>

(* The digest of a package #0, made of three hashes; buf_append_str writes *)
(* the last of them over the first and leaves its own place as it was.     *)
Digest(key, nonce, trigger) == <<key, nonce, trigger>>
buf_append_str(digest, trigger) == <<trigger, digest[2], "uninitialised">>
Computed(nonce) == buf_append_str(<<"key", nonce>>, "trigger")

(* The second try is meant for the default nonce, which is given to the    *)
(* other credentials: it reads the memory of the first nonce, now freed.   *)
omadmclient_session_start_on_alert ==
  /\ MayStart /\ Readable
  /\ unsaved' = {}
  /\ \E nonce \in {server.known, "default"} :
       LET pkg0 == Digest("key", nonce, "trigger")
       IN  IF pkg0 = Computed(tree["SRVCRED"])
           THEN /\ phase' = "start"
                /\ toServerCred' = Auth(account.clt, tree["CLCRED"])
                /\ toClientCred' = Auth(account.srv, tree["SRVCRED"])
           ELSE /\ phase' \in IF pkg0 = Computed("freed") THEN {"start"} ELSE {"refused", "corrupt"}
                /\ toServerCred' = Auth(account.clt, "default")
                /\ toClientCred' = Auth(account.srv, "freed")
  /\ UNCHANGED <<tree, account, clt_auth, srv_auth, answer, net, server, faults>>

(* Mutant of NeedsCred: credentials are sent once.                         *)
MutantAskedOnce == clt_auth = 0

(* prvGetHeader: credentials until the server has accepted us.             *)
NeedsCred == clt_auth \notin {ACCEPTED, 200}

omadmclient_get_next_packet ==
  /\ phase \in {"start", "send"}
  /\ net' = [to |-> "server", first |-> phase = "start",
             cred |-> IF NeedsCred THEN get_credentials(toServerCred) ELSE NoCred,
             code |-> answer.code, chal |-> answer.chal]
  /\ answer' = NoAnswer
  /\ phase' = "wait"
  /\ UNCHANGED <<tree, account, session, server, unsaved, faults>>

(* The header of a reply: its credentials are checked and answered with a  *)
(* new challenge, good or bad.                                             *)
prv_start_message_cb ==
  /\ phase = "wait" /\ net.to = "client"
  /\ phase' = "status"
  /\ IF net.cred = NoCred
     THEN /\ answer' = [code |-> srv_auth, chal |-> NoChal]
          /\ UNCHANGED <<tree, toClientCred, srv_auth, unsaved, faults>>
     ELSE \E nonce \in CltNonce :
            LET new == get_challenge(toClientCred, nonce)
            IN  /\ srv_auth' = check_credentials(net.cred, toClientCred)
                /\ toClientCred' = new.auth
                /\ answer' = [code |-> srv_auth', chal |-> new.chal]
                /\ store_nonce("SRVCRED", new.auth.data)
  /\ UNCHANGED <<account, toServerCred, clt_auth, net, server>>

(* The Status for our header; a challenge sets type and nonce, the type    *)
(* for this session only.                                                  *)
prv_status_cmd_cb ==
  /\ phase = "status"
  /\ phase' = "send" /\ net' = NoMessage
  /\ clt_auth' = net.code
  /\ IF net.chal = NoChal
     THEN UNCHANGED <<tree, toServerCred, unsaved, faults>>
     ELSE /\ toServerCred' = Challenged(toServerCred, net.chal)
          /\ store_nonce("CLCRED", Challenged(toServerCred, net.chal).data)
  /\ UNCHANGED <<account, toClientCred, srv_auth, answer, server>>

Fresh ==
  /\ clt_auth' = 0 /\ srv_auth' = 0 /\ answer' = NoAnswer
  /\ net' = NoMessage /\ phase' = "closed"
  /\ UNCHANGED <<tree, account, toServerCred, toClientCred, server, unsaved>>

(* prvFreeAuth frees the nonces; what package #0 freed is freed again.     *)
omadmclient_session_close ==
  /\ MayStart /\ phase # "closed"
  /\ UNCHANGED faults
  /\ IF toClientCred.data = "freed"
     THEN phase' = "corrupt" /\ UNCHANGED <<tree, account, session, answer, net, server, unsaved>>
     ELSE Fresh

(***************************************************************************)
(* The server, and what goes wrong.                                        *)
(***************************************************************************)
Challenges ==
  {Auth(server.ask, n) : n \in IF server.ask = "digest" THEN SrvNonce ELSE {"empty"}}

(* An honest server: it answers bad or missing credentials with a          *)
(* challenge, and may send the next nonce with good ones; it sends its own *)
(* until the client has accepted them in this session.                     *)
ServerReply ==
  LET been  == server.in /\ ~net.first
      good  == net.cred = get_credentials(Auth(server.ask, server.issued))
      let   == good \/ (net.cred = NoCred /\ been)
      known == IF net.chal.type = "digest" THEN net.chal.data ELSE server.known
      mine  == get_credentials(Auth(account.srv, known))
  IN  /\ net.to = "server"
      /\ \E chal \in Challenges \cup {c \in {NoChal} : let},
            cred \in {mine} \cup {c \in {NoCred} : net.code = ACCEPTED /\ ~net.first} :
           /\ net' = [to |-> "client", first |-> net.first, cred |-> cred, chal |-> chal,
                      code |-> IF let THEN ACCEPTED
                               ELSE IF net.cred = NoCred THEN MISSING_CREDENTIALS
                               ELSE INVALID_CREDENTIALS]
           /\ server' = [ask |-> server.ask,
                         issued |-> IF chal.type = "digest" THEN chal.data ELSE server.issued,
                         known |-> known, in |-> let]
      /\ UNCHANGED <<tree, account, session, answer, phase, unsaved, faults>>

(* The transport fails, on the way there or back.                          *)
Lose ==
  /\ net.to # "none" /\ phase = "wait" /\ faults < MaxFaults
  /\ faults' = faults + 1
  /\ net' = NoMessage /\ phase' = "lost"
  /\ UNCHANGED <<tree, account, session, answer, server, unsaved>>

Crash ==
  /\ phase \in {"start", "send", "wait", "status"} /\ faults < MaxFaults
  /\ faults' = faults + 1
  /\ Fresh

(* Provisioned nonces are known to both sides, or were lost by the client. *)
Init ==
  /\ account \in Accounts
  /\ tree \in {[CLCRED |-> n, SRVCRED |-> "factory"] : n \in {"factory", "empty", "absent"}}
  /\ server \in {[ask |-> a, issued |-> "factory", known |-> "factory", in |-> FALSE] :
                   a \in Asks}
  /\ toServerCred = NoCred /\ toClientCred = NoCred
  /\ clt_auth = 0 /\ srv_auth = 0 /\ answer = NoAnswer
  /\ net = NoMessage /\ phase = "closed" /\ unsaved = {} /\ faults = 0

Exchange ==
  \/ omadmclient_session_start \/ omadmclient_session_start_fails
  \/ omadmclient_get_next_packet
  \/ prv_start_message_cb \/ prv_status_cmd_cb
  \/ ServerReply

Next ==
  \/ Exchange
  \/ omadmclient_session_start_on_alert
  \/ omadmclient_session_close
  \/ Lose \/ Crash

AuthSpec == Init /\ [][Next]_vars

(* The application goes on with a session it has started and starts        *)
(* another one after it; the server answers.                               *)
FairAuthSpec == AuthSpec /\ WF_vars(Exchange)

(***************************************************************************)
(* Properties.                                                             *)
(***************************************************************************)
AuthTypeOK ==
  /\ tree \in [{"CLCRED", "SRVCRED"} -> Nonce]
  /\ toServerCred.data \in Nonce /\ toClientCred.data \in Nonce
  /\ clt_auth \in {0, ACCEPTED, INVALID_CREDENTIALS, MISSING_CREDENTIALS}
  /\ srv_auth \in {0, ACCEPTED, INVALID_CREDENTIALS}
  /\ faults \in 0 .. MaxFaults /\ unsaved \subseteq {"CLCRED", "SRVCRED"}

(* The nonces in the tree are the ones the session uses, at every step, so *)
(* a crash or a lost message never takes the account back behind a nonce   *)
(* the server has seen.  Left out: store_nonce failed, which nobody hears  *)
(* of, until the next store.                                               *)
NoncesStored ==
  phase \in {"start", "send", "wait", "status", "lost"} =>
    /\ "CLCRED" \in unsaved \/ tree["CLCRED"] = toServerCred.data
    /\ "SRVCRED" \in unsaved \/ tree["SRVCRED"] = toClientCred.data

(* An honest server is refused in the first exchange of a session at most, *)
(* whatever was lost before: the challenge in the Status that refused it   *)
(* is the one its next credentials are checked with.                       *)
ServerRefusedOnce ==
  [][phase = "wait" /\ phase' = "status" /\ net.cred # NoCred /\ ~net.first =>
       srv_auth' = ACCEPTED]_vars

(* The client's credentials are refused in the first exchange of a session *)
(* at most: the challenge (the new header of the resent commands) decides  *)
(* type and nonce of the next ones.                                        *)
ClientRefusedOnce ==
  [][net.to = "server" /\ net'.to = "client" /\ net.cred # NoCred /\ ~net.first =>
       net'.code = ACCEPTED]_vars

(* Client and server authenticate each other again and again, when losses  *)
(* and crashes come to an end, unless undefined behaviour or an account    *)
(* that cannot be read stops the application.                              *)
Authenticates == []<>(Authenticated \/ phase \in {"corrupt", "unreadable"})

(* A package #0 that carries the digest package0.c documents, over the     *)
(* nonce both sides have or over the default one, is accepted.             *)
NotificationAccepted ==
  [][omadmclient_session_start_on_alert /\ server.known = tree["SRVCRED"] =>
       phase' = "start"]_vars
===============================================================================
