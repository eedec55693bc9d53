------------------------------ MODULE AuthProofs ------------------------------
(***************************************************************************)
(* Proofs about Auth, for every set of nonces, every account and any       *)
(* number of faults.                                                       *)
(*                                                                         *)
(* Neither refusal property is inductive: each needs to know where the     *)
(* nonce is that the other side will use next, in the queued Status, in    *)
(* the message under way or already in the server.  Synced and Answered    *)
(* say so.                                                                 *)
(***************************************************************************)
EXTENDS Auth, TLAPS

Message ==
  [to : {"none", "server", "client"}, first : BOOLEAN,
   cred : [type : AuthType \cup {"none"}, data : Nonce],
   code : {0, ACCEPTED, INVALID_CREDENTIALS, MISSING_CREDENTIALS},
   chal : [type : AuthType \cup {"none"}, data : Nonce]]

Types ==
  /\ AuthTypeOK
  /\ account \in [clt : AuthType, srv : AuthType]
  /\ toServerCred \in [type : AuthType \cup {"none"}, data : Nonce]
  /\ toClientCred \in [type : AuthType \cup {"none"}, data : Nonce]
  /\ answer \in [code : {0, ACCEPTED, INVALID_CREDENTIALS, MISSING_CREDENTIALS},
                 chal : [type : AuthType \cup {"none"}, data : Nonce]]
  /\ server \in [ask : {"basic", "digest"}, issued : Nonce, known : Nonce, in : BOOLEAN]
  /\ net \in Message
  /\ phase \in {"closed", "start", "send", "wait", "status", "lost", "refused",
                "corrupt", "unreadable"}

(* Where messages are, and the type of the server's credentials.           *)
Places ==
  /\ net.to # "none" => phase \in {"wait", "status"}
  /\ phase = "status" => net.to = "client"
  /\ phase \in {"start", "send", "wait", "status"} => toClientCred.type = account.srv

(* The nonce the server will use once it has read chal.                    *)
Learnt(chal) == IF chal.type = "digest" THEN chal.data ELSE server.known

Fits(nonce) == toClientCred.type = "digest" => nonce = toClientCred.data

(* After the first exchange of a session the server's next credentials are *)
(* made with the nonce the client will check them with.                    *)
Synced ==
  /\ phase \in {"send", "status"} => Fits(Learnt(answer.chal))
  /\ phase = "wait" /\ net.to = "server" /\ ~net.first => Fits(Learnt(net.chal))
  /\ phase = "wait" /\ net.to = "client" /\ ~net.first => Fits(server.known)
  /\ net.to = "client" =>
       net.cred \in {NoCred, get_credentials(Auth(account.srv, server.known))}
  /\ net.to = "client" /\ net.cred = NoCred =>
       ~net.first \/ get_credentials(Auth(account.srv, server.known)) = NoCred

Inv == Types /\ Places /\ NoncesStored /\ Synced

(* The credentials a refused client sends next are the ones it was asked   *)
(* for.                                                                    *)
Wanted == get_credentials(Auth(server.ask, server.issued))

Answered ==
  /\ net.to = "client" /\ net.code # ACCEPTED =>
       /\ net.chal = Auth(server.ask, IF server.ask = "digest" THEN server.issued ELSE "empty")
       /\ server.ask = "digest" => server.issued \in SrvNonce
  /\ phase = "send" /\ NeedsCred => get_credentials(toServerCred) = Wanted
  /\ phase = "wait" /\ net.to = "server" /\ ~net.first => net.cred \in {NoCred, Wanted}

-----------------------------------------------------------------------------
(* The invariant, action by action.                                        *)

USE AuthAssumption
USE DEF Auth, NoCred, NoChal, AuthType, Nonce, OddNonce

(* It holds before the first session.                                      *)
LEMMA InitInv == Init => Inv
<1> SUFFICES ASSUME Init PROVE Inv
  OBVIOUS
<1>1. AuthTypeOK
  BY DEF Init, AuthTypeOK
<1>2. account \in [clt : AuthType, srv : AuthType]
  BY DEF Init
<1>3. server \in [ask : {"basic", "digest"}, issued : Nonce, known : Nonce, in : BOOLEAN]
  <2> PICK a \in Asks : server = [ask |-> a, issued |-> "factory", known |-> "factory", in |-> FALSE]
    BY DEF Init
  <2>1. a \in {"basic", "digest"}
    OBVIOUS
  <2> QED
    BY <2>1
<1>4. net \in Message
  BY DEF Init, Message, NoMessage
<1>5. Types
  BY <1>1, <1>2, <1>3, <1>4 DEF Init, Types, NoAnswer
<1>6. Places /\ NoncesStored /\ Synced
  BY DEF Init, Places, NoncesStored, Synced, NoMessage
<1> QED
  BY <1>5, <1>6 DEF Inv

(* No package #0 has the digest the client computes.                       *)
LEMMA NeverFits == \A n, m : Digest("key", n, "trigger") # Computed(m)
<1> TAKE n, m
<1>1. Digest("key", n, "trigger")[1] = "key" /\ Computed(m)[1] = "trigger"
  BY DEF Digest, Computed, buf_append_str
<1> QED
  BY <1>1

LEMMA StartedInv == Inv /\ omadmclient_session_start => Inv'
<1> SUFFICES ASSUME Inv, omadmclient_session_start PROVE Inv'
  OBVIOUS
<1>1. Types'
  BY DEF Inv, Types, AuthTypeOK, Message, ACCEPTED, INVALID_CREDENTIALS, MISSING_CREDENTIALS,
         omadmclient_session_start, MayStart, Readable
<1>2. Places'
  BY DEF Inv, Types, Places, Message, omadmclient_session_start, MayStart, Readable
<1>3. NoncesStored'
  BY DEF Inv, Types, AuthTypeOK, NoncesStored, omadmclient_session_start, MayStart, Readable
<1>4. Synced'
  BY DEF Inv, Types, Places, Synced, Fits, Learnt, Message, omadmclient_session_start, MayStart, Readable
<1> QED
  BY <1>1, <1>2, <1>3, <1>4 DEF Inv

LEMMA StartFailsInv == Inv /\ omadmclient_session_start_fails => Inv'
<1> SUFFICES ASSUME Inv, omadmclient_session_start_fails PROVE Inv'
  OBVIOUS
<1>1. Types'
  BY DEF Inv, Types, AuthTypeOK, Message, ACCEPTED, INVALID_CREDENTIALS, MISSING_CREDENTIALS,
         omadmclient_session_start_fails, MayStart, session
<1>2. Places'
  BY DEF Inv, Types, Places, Message, omadmclient_session_start_fails, MayStart, session
<1>3. NoncesStored'
  BY DEF Inv, Types, AuthTypeOK, NoncesStored, omadmclient_session_start_fails, MayStart, session
<1>4. Synced'
  BY DEF Inv, Types, Places, Synced, Fits, Learnt, Message, omadmclient_session_start_fails, MayStart, session
<1> QED
  BY <1>1, <1>2, <1>3, <1>4 DEF Inv

LEMMA NotifiedInv == Inv /\ omadmclient_session_start_on_alert => Inv'
<1> SUFFICES ASSUME Inv, omadmclient_session_start_on_alert PROVE Inv'
  OBVIOUS
<1>1. Types'
  BY DEF Inv, Types, AuthTypeOK, Message, ACCEPTED, INVALID_CREDENTIALS, MISSING_CREDENTIALS,
         omadmclient_session_start_on_alert, MayStart, Readable
<1>2. Places'
  BY DEF Inv, Types, Places, Message, omadmclient_session_start_on_alert, MayStart, Readable
<1>3. NoncesStored'
  BY NeverFits DEF NoncesStored, omadmclient_session_start_on_alert
<1>4. Synced'
  BY DEF Inv, Types, Places, Synced, Fits, Learnt, Message, omadmclient_session_start_on_alert, MayStart, Readable
<1> QED
  BY <1>1, <1>2, <1>3, <1>4 DEF Inv

LEMMA PacketInv == Inv /\ omadmclient_get_next_packet => Inv'
<1> SUFFICES ASSUME Inv, omadmclient_get_next_packet PROVE Inv'
  OBVIOUS
<1>1. Types'
  BY DEF Inv, Types, AuthTypeOK, Message, ACCEPTED, INVALID_CREDENTIALS, MISSING_CREDENTIALS,
         omadmclient_get_next_packet, session, NoAnswer, get_credentials
<1>2. Places'
  BY DEF Inv, Types, Places, Message, omadmclient_get_next_packet, session, NoAnswer, get_credentials
<1>3. NoncesStored'
  BY DEF Inv, Types, AuthTypeOK, NoncesStored, omadmclient_get_next_packet, session, NoAnswer, get_credentials
<1>4. Synced'
  BY DEF Inv, Types, Places, Synced, Fits, Learnt, Message, omadmclient_get_next_packet, session, NoAnswer, get_credentials
<1> QED
  BY <1>1, <1>2, <1>3, <1>4 DEF Inv

LEMMA HeaderInv == Inv /\ prv_start_message_cb => Inv'
<1> SUFFICES ASSUME Inv, prv_start_message_cb PROVE Inv'
  OBVIOUS
<1>1. Types'
  BY DEF Inv, Types, AuthTypeOK, Message, ACCEPTED, INVALID_CREDENTIALS, MISSING_CREDENTIALS,
         prv_start_message_cb, store_nonce, get_challenge, check_credentials, get_credentials
<1>2. Places'
  BY DEF Inv, Types, Places, Message, prv_start_message_cb, store_nonce, get_challenge, check_credentials, get_credentials
<1>3. NoncesStored'
  BY DEF Inv, Types, AuthTypeOK, NoncesStored, prv_start_message_cb, store_nonce, get_challenge, check_credentials, get_credentials
<1>4. Synced'
  BY DEF Inv, Types, Places, Synced, Fits, Learnt, Message, prv_start_message_cb, store_nonce, get_challenge, check_credentials, get_credentials
<1> QED
  BY <1>1, <1>2, <1>3, <1>4 DEF Inv

LEMMA StatusReadInv == Inv /\ prv_status_cmd_cb => Inv'
<1> SUFFICES ASSUME Inv, prv_status_cmd_cb PROVE Inv'
  OBVIOUS
<1>1. Types'
  <2>1. /\ net.code \in {0, ACCEPTED, INVALID_CREDENTIALS, MISSING_CREDENTIALS}
        /\ net.chal \in [type : AuthType \cup {"none"}, data : Nonce]
    BY DEF Inv, Types, Message
  <2>2. decode_b64(net.chal.data) \in Nonce
    BY DEF decode_b64
  <2>3. Challenged(toServerCred, net.chal) \in [type : AuthType \cup {"none"}, data : Nonce]
    BY <2>1, <2>2 DEF Challenged
  <2>4. toServerCred' \in [type : AuthType \cup {"none"}, data : Nonce]
    BY <2>3 DEF Inv, Types, prv_status_cmd_cb
  <2>5. /\ tree' \in [{"CLCRED", "SRVCRED"} -> Nonce]
        /\ faults' \in 0 .. MaxFaults /\ unsaved' \subseteq {"CLCRED", "SRVCRED"}
    <3>1. CASE net.chal = NoChal
      BY <3>1 DEF Inv, Types, AuthTypeOK, prv_status_cmd_cb
    <3>2. CASE net.chal # NoChal
      <4>1. Challenged(toServerCred, net.chal).data \in Nonce
        BY <2>3
      <4>2. store_nonce("CLCRED", Challenged(toServerCred, net.chal).data)
        BY <3>2 DEF prv_status_cmd_cb
      <4> QED
        <5>1. tree \in [{"CLCRED", "SRVCRED"} -> Nonce] /\ unsaved \subseteq {"CLCRED", "SRVCRED"}
          BY DEF Inv, Types, AuthTypeOK
        <5>2. tree' \in [{"CLCRED", "SRVCRED"} -> Nonce] /\ unsaved' \subseteq {"CLCRED", "SRVCRED"}
          BY <4>1, <4>2, <5>1 DEF store_nonce
        <5>3. faults' \in 0 .. MaxFaults
          BY <4>2 DEF Inv, Types, AuthTypeOK, store_nonce
        <5> QED
          BY <5>2, <5>3
    <3> QED
      BY <3>1, <3>2
  <2>6. AuthTypeOK'
    BY <2>1, <2>4, <2>5 DEF Inv, Types, AuthTypeOK, prv_status_cmd_cb
  <2>7. net' \in Message
    BY DEF prv_status_cmd_cb, NoMessage, Message
  <2> QED
    BY <2>4, <2>6, <2>7 DEF Inv, Types, prv_status_cmd_cb
<1>2. Places'
  BY DEF Inv, Types, Places, Message, prv_status_cmd_cb, store_nonce, Challenged, decode_b64, NoMessage
<1>3. NoncesStored'
  BY DEF Inv, Types, AuthTypeOK, NoncesStored, prv_status_cmd_cb, store_nonce, Challenged, decode_b64, NoMessage
<1>4. Synced'
  BY DEF Inv, Types, Places, Synced, Fits, Learnt, Message, prv_status_cmd_cb, store_nonce, Challenged, decode_b64, NoMessage
<1> QED
  BY <1>1, <1>2, <1>3, <1>4 DEF Inv

LEMMA ClosedInv == Inv /\ omadmclient_session_close => Inv'
<1> SUFFICES ASSUME Inv, omadmclient_session_close PROVE Inv'
  OBVIOUS
<1>1. Types'
  <2>1. AuthTypeOK'
    BY DEF Inv, Types, AuthTypeOK, omadmclient_session_close, Fresh, session, NoMessage, NoAnswer
  <2>2. net' \in Message
    <3>1. NoMessage \in Message
      BY DEF NoMessage, Message
    <3>2. net' = net \/ net' = NoMessage
      BY DEF omadmclient_session_close, Fresh
    <3> QED
      BY <3>1, <3>2 DEF Inv, Types
  <2>3. server' \in [ask : {"basic", "digest"}, issued : Nonce, known : Nonce, in : BOOLEAN]
    BY DEF Inv, Types, Message, omadmclient_session_close, Fresh, session, NoMessage, NoAnswer
  <2>4. answer' \in [code : {0, ACCEPTED, INVALID_CREDENTIALS, MISSING_CREDENTIALS},
                     chal : [type : AuthType \cup {"none"}, data : Nonce]]
    BY DEF Inv, Types, omadmclient_session_close, Fresh, session, NoMessage, NoAnswer
  <2> QED
    BY <2>1, <2>2, <2>3, <2>4 DEF Inv, Types, omadmclient_session_close, Fresh, session, NoMessage, NoAnswer
<1>2. Places'
  BY DEF Inv, Types, Places, Message, omadmclient_session_close, Fresh, session, MayStart, NoMessage, NoAnswer
<1>3. NoncesStored'
  BY DEF Inv, Types, AuthTypeOK, NoncesStored, omadmclient_session_close, Fresh, session, MayStart, NoMessage, NoAnswer
<1>4. Synced'
  BY DEF Inv, Types, Places, Synced, Fits, Learnt, Message, omadmclient_session_close, Fresh, session, MayStart, NoMessage, NoAnswer
<1> QED
  BY <1>1, <1>2, <1>3, <1>4 DEF Inv

LEMMA RepliedInv == Inv /\ ServerReply => Inv'
<1> SUFFICES ASSUME Inv, ServerReply PROVE Inv'
  OBVIOUS
<1>1. Types'
  <2>1. AuthTypeOK'
    BY DEF Inv, Types, AuthTypeOK, ServerReply, Challenges, get_credentials, session
  <2>2. net' \in Message
    BY DEF Inv, Types, Message, ServerReply, Challenges, get_credentials, session, ACCEPTED, INVALID_CREDENTIALS, MISSING_CREDENTIALS
  <2>3. server' \in [ask : {"basic", "digest"}, issued : Nonce, known : Nonce, in : BOOLEAN]
    BY DEF Inv, Types, Message, ServerReply, Challenges, get_credentials, session
  <2>4. answer' \in [code : {0, ACCEPTED, INVALID_CREDENTIALS, MISSING_CREDENTIALS},
                     chal : [type : AuthType \cup {"none"}, data : Nonce]]
    BY DEF Inv, Types, ServerReply, Challenges, get_credentials, session
  <2> QED
    BY <2>1, <2>2, <2>3, <2>4 DEF Inv, Types, ServerReply, Challenges, get_credentials, session
<1>2. Places'
  BY DEF Inv, Types, Places, Message, ServerReply, Challenges, get_credentials, session
<1>3. NoncesStored'
  BY DEF Inv, Types, AuthTypeOK, NoncesStored, ServerReply, Challenges, get_credentials, session
<1>4. Synced'
  BY DEF Inv, Types, Places, Synced, Fits, Learnt, Message, ServerReply, Challenges, get_credentials, session
<1> QED
  BY <1>1, <1>2, <1>3, <1>4 DEF Inv

LEMMA LostInv == Inv /\ Lose => Inv'
<1> SUFFICES ASSUME Inv, Lose PROVE Inv'
  OBVIOUS
<1>1. Types'
  BY DEF Inv, Types, AuthTypeOK, Message, ACCEPTED, INVALID_CREDENTIALS, MISSING_CREDENTIALS,
         Lose, session, NoMessage
<1>2. Places'
  BY DEF Inv, Types, Places, Message, Lose, session, NoMessage
<1>3. NoncesStored'
  BY DEF Inv, Types, AuthTypeOK, NoncesStored, Lose, session, NoMessage
<1>4. Synced'
  BY DEF Inv, Types, Places, Synced, Fits, Learnt, Message, Lose, session, NoMessage
<1> QED
  BY <1>1, <1>2, <1>3, <1>4 DEF Inv

LEMMA CrashedInv == Inv /\ Crash => Inv'
<1> SUFFICES ASSUME Inv, Crash PROVE Inv'
  OBVIOUS
<1>1. Types'
  BY DEF Inv, Types, AuthTypeOK, Message, ACCEPTED, INVALID_CREDENTIALS, MISSING_CREDENTIALS,
         Crash, Fresh, NoMessage, NoAnswer
<1>2. Places'
  BY DEF Inv, Types, Places, Message, Crash, Fresh, NoMessage, NoAnswer
<1>3. NoncesStored'
  BY DEF Inv, Types, AuthTypeOK, NoncesStored, Crash, Fresh, NoMessage, NoAnswer
<1>4. Synced'
  BY DEF Inv, Types, Places, Synced, Fits, Learnt, Message, Crash, Fresh, NoMessage, NoAnswer
<1> QED
  BY <1>1, <1>2, <1>3, <1>4 DEF Inv

(* Every step keeps the invariant.                                         *)
LEMMA StepInv == Inv /\ [Next]_vars => Inv'
<1> SUFFICES ASSUME Inv, [Next]_vars PROVE Inv'
  OBVIOUS
<1>1. ASSUME UNCHANGED vars PROVE Inv'
  BY <1>1 DEF Inv, Types, AuthTypeOK, Places, NoncesStored, Synced, Fits, Learnt, vars, session
<1> QED
  BY <1>1, StartedInv, StartFailsInv, NotifiedInv, PacketInv, HeaderInv, StatusReadInv,
     ClosedInv, RepliedInv, LostInv, CrashedInv DEF Next, Exchange

LEMMA AlwaysInv == AuthSpec => []Inv
BY InitInv, StepInv, PTL DEF AuthSpec

-----------------------------------------------------------------------------
(* Every nonce the client holds or keeps is one that was provisioned, that *)
(* a challenge brought, or that the code makes up: store_nonce never       *)
(* writes anything else, and the authentication codes stay in their range. *)
THEOREM AuthTypeCorrect == AuthSpec => []AuthTypeOK
<1>1. Inv => AuthTypeOK
  BY DEF Inv, Types
<1> QED
  BY <1>1, AlwaysInv, PTL

(* The tree keeps the nonces the session uses at every step of every       *)
(* session (store_nonce is called for each one that get_challenge or a     *)
(* Status brings), whatever is lost and wherever the client stops.         *)
THEOREM StoredNonces == AuthSpec => []NoncesStored
<1>1. Inv => NoncesStored
  BY DEF Inv
<1> QED
  BY <1>1, AlwaysInv, PTL

(* prv_start_message_cb accepts an honest server's credentials in every    *)
(* exchange of a session but the first.                                    *)
THEOREM HonestServerRefusedOnce == AuthSpec => ServerRefusedOnce
<1>1. Inv /\ [Next]_vars =>
        [phase = "wait" /\ phase' = "status" /\ net.cred # NoCred /\ ~net.first =>
           srv_auth' = ACCEPTED]_vars
  <2> SUFFICES ASSUME Inv, Next, phase = "wait", phase' = "status", net.cred # NoCred, ~net.first
               PROVE  srv_auth' = ACCEPTED
    OBVIOUS
  <2>1. prv_start_message_cb
    BY DEF Next, Exchange, omadmclient_session_start, omadmclient_session_start_fails,
           omadmclient_get_next_packet, prv_status_cmd_cb, ServerReply, Lose, Crash, Fresh,
           omadmclient_session_close, omadmclient_session_start_on_alert, MayStart
  <2>2. /\ srv_auth' = check_credentials(net.cred, toClientCred)
        /\ net.to = "client"
    BY <2>1 DEF prv_start_message_cb
  <2>3. net.cred = get_credentials(Auth(account.srv, server.known))
    BY <2>2 DEF Inv, Synced
  <2>4. toClientCred.type = account.srv
    BY DEF Inv, Places
  <2>5. get_credentials(toClientCred) = get_credentials(Auth(account.srv, server.known))
    BY <2>2, <2>4 DEF Inv, Types, Synced, Fits, get_credentials
  <2> QED
    BY <2>2, <2>3, <2>5 DEF check_credentials
<1> QED
  BY <1>1, AlwaysInv, PTL DEF AuthSpec, ServerRefusedOnce

-----------------------------------------------------------------------------
(* The other direction, where decode_b64 decodes every nonce.              *)
Decodable == \A n \in SrvNonce : Length3[n] # 2

LEMMA InitAnswered == Init => Answered
BY DEF Init, Answered, NoMessage

LEMMA AnsweredStep == Decodable /\ Inv /\ Answered /\ [Next]_vars => Answered'
<1> SUFFICES ASSUME Decodable, Inv, Answered, [Next]_vars PROVE Answered'
  OBVIOUS
<1> USE DEF Answered, Wanted, get_credentials
<1>1. CASE omadmclient_session_start
  BY <1>1 DEF omadmclient_session_start, MayStart, Inv, Places
<1>2. CASE omadmclient_session_start_fails
  BY <1>2 DEF omadmclient_session_start_fails, MayStart, Inv, Places
<1>3. CASE omadmclient_session_start_on_alert
  BY <1>3, NeverFits DEF omadmclient_session_start_on_alert, MayStart, Inv, Places
<1>4. CASE omadmclient_get_next_packet
  <2>1. /\ net'.to = "server" /\ phase' = "wait" /\ server' = server
        /\ net'.cred = IF NeedsCred THEN get_credentials(toServerCred) ELSE NoCred
    BY <1>4 DEF omadmclient_get_next_packet
  <2>2. ~net'.first => phase = "send"
    BY <1>4 DEF omadmclient_get_next_packet
  <2> QED
    BY <2>1, <2>2
<1>5. CASE prv_start_message_cb
  BY <1>5 DEF prv_start_message_cb
<1>6. CASE prv_status_cmd_cb
  <2>1. net.to = "client"
    BY <1>6 DEF prv_status_cmd_cb, Inv, Places
  <2>2. ASSUME NeedsCred' PROVE get_credentials(toServerCred') = Wanted'
    <3>1. net.code # ACCEPTED
      BY <1>6, <2>2 DEF prv_status_cmd_cb, NeedsCred
    <3>2. /\ net.chal = Auth(server.ask, IF server.ask = "digest" THEN server.issued ELSE "empty")
          /\ server.ask = "digest" => server.issued \in SrvNonce
      BY <2>1, <3>1
    <3>3. server.ask \in {"basic", "digest"}
      BY DEF Inv, Types
    <3>4. net.chal # NoChal
      BY <3>2, <3>3
    <3>5. toServerCred' = Auth(server.ask, decode_b64(net.chal.data)) /\ server' = server
      BY <1>6, <3>2, <3>4 DEF prv_status_cmd_cb, Challenged
    <3>6. server.ask = "digest" => decode_b64(net.chal.data) = server.issued
      BY <3>2 DEF decode_b64, Decodable
    <3> QED
      BY <3>3, <3>5, <3>6
  <2> QED
    BY <1>6, <2>2 DEF prv_status_cmd_cb, NoMessage
<1>7. CASE omadmclient_session_close
  BY <1>7 DEF omadmclient_session_close, Fresh, session, MayStart, NoMessage, NeedsCred
<1>8. CASE ServerReply
  BY <1>8 DEF ServerReply, Challenges, Inv, Types, Places, session, ACCEPTED
<1>9. CASE Lose
  BY <1>9 DEF Lose, NoMessage
<1>10. CASE Crash
  BY <1>10 DEF Crash, Fresh, NoMessage
<1>11. CASE UNCHANGED vars
  BY <1>11 DEF vars, session, NeedsCred
<1> QED
  BY <1>1, <1>2, <1>3, <1>4, <1>5, <1>6, <1>7, <1>8, <1>9, <1>10, <1>11 DEF Next, Exchange

(* Where decode_b64 decodes every nonce the server sends, the server       *)
(* refuses the client's credentials in the first exchange of a session at  *)
(* most: what prv_status_cmd_cb takes from the challenge is what the next  *)
(* header is made with.                                                    *)
THEOREM ClientAnswersChallenge ==
  ASSUME Decodable PROVE AuthSpec => ClientRefusedOnce
<1>1. Inv /\ Answered /\ [Next]_vars =>
        [net.to = "server" /\ net'.to = "client" /\ net.cred # NoCred /\ ~net.first =>
           net'.code = ACCEPTED]_vars
  <2> SUFFICES ASSUME Inv, Answered, Next, net.to = "server", net'.to = "client",
                      net.cred # NoCred, ~net.first
               PROVE  net'.code = ACCEPTED
    OBVIOUS
  <2>1. ServerReply
    BY DEF Next, Exchange, omadmclient_session_start, omadmclient_session_start_fails,
           omadmclient_get_next_packet, prv_start_message_cb, prv_status_cmd_cb, Lose, Crash,
           Fresh, omadmclient_session_close, omadmclient_session_start_on_alert, NoMessage
  <2>2. phase = "wait"
    BY DEF Inv, Places
  <2>3. net.cred = get_credentials(Auth(server.ask, server.issued))
    BY <2>2 DEF Answered, Wanted
  <2> QED
    BY <2>1, <2>3 DEF ServerReply
<1>2. AuthSpec => []Answered
  BY InitAnswered, AnsweredStep, AlwaysInv, PTL DEF AuthSpec
<1> QED
  BY <1>1, <1>2, AlwaysInv, PTL DEF AuthSpec, ClientRefusedOnce

==============================================================================
