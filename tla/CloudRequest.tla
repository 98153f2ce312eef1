---------------------------- MODULE CloudRequest ----------------------------
(***************************************************************************)
(* One request to the Aqara cloud: what is signed, what is sent, and what  *)
(* is made of the answer (aqara_ble/kdf.py, and the signer of              *)
(* aqara_ble/cloud_crypto.py).  Module CloudAccount sends them.            *)
(*                                                                         *)
(* A call of _request_json is [query, payload, encrypted, token, user]:    *)
(* the URL's query or None, the JSON payload as a sequence (<<>> is {}) or *)
(* None, whether the body is to be encrypted, and what the signer was made *)
(* with.  A hash stands for its preimage, of which Appid, Nonce, Time and  *)
(* Appkey are left out: every request sends or shares them.                *)
(***************************************************************************)
EXTENDS Integers, Sequences

CONSTANT None

\* compute_sign: a request without a token is signed without the field.
ComputeSign(token, body) == IF token = None THEN <<body>> ELSE <<token, body>>

\* The text that is signed: the query, or the JSON of a payload that is not
\* empty, or nothing; the clear text even of an encrypted body.
BodyStr(req) ==
    IF req.query # None THEN req.query
    ELSE IF req.payload = None THEN <<>>
    ELSE req.payload

Sealed(body) == <<"gcm">> \o body
Opened(body) == Tail(body)

\* The bytes of the body: none beside a query or for an empty text.
Data(req) ==
    IF req.query # None \/ BodyStr(req) = <<>> THEN None
    ELSE IF req.encrypted THEN Sealed(BodyStr(req))
    ELSE BodyStr(req)

\* Variant of Signed that signs the body as it is sent.
SignedAsSent(req) == ComputeSign(req.token, IF Data(req) = None THEN BodyStr(req) ELSE Data(req))

Signed(req) == ComputeSign(req.token, BodyStr(req))

\* The request on the wire; the signer names nobody without a token.
Prepared(req) ==
    [query  |-> req.query,
     data   |-> Data(req),
     sealed |-> req.encrypted /\ Data(req) # None,
     token  |-> req.token,
     user   |-> IF req.token = None THEN None ELSE req.user,
     sign   |-> Signed(req)]

\* The signature the cloud computes from what it receives.
CloudSign(msg) ==
    ComputeSign(msg.token,
                IF msg.query # None THEN msg.query
                ELSE IF msg.data = None THEN <<>>
                ELSE IF msg.sealed THEN Opened(msg.data)
                ELSE msg.data)
-----------------------------------------------------------------------------
(* Answers: [kind, code, result].  A code is [form, value], a number or a  *)
(* text, or None; a result is a record of the fields it has, none when it  *)
(* is no object.                                                           *)

\* What a caller of _request_json may catch.
Errors == {"RuntimeError", "UnicodeDecodeError", "CloudServiceError"}

NoFields == [field \in {} |-> None]

Raised(what) == [raised |-> what, code |-> None, result |-> NoFields]

IsCode(code, value) == code # None /\ code.value = value

\* _unwrap_aqara_result: a code other than 0, in either form.
Unwrapped(ans) ==
    IF ans.code # None /\ ans.code.value # 0
    THEN [raised |-> "CloudServiceError", code |-> ans.code, result |-> NoFields]
    ELSE [raised |-> None, code |-> None, result |-> ans.result]

\* _request_json: no answer, an HTTP error and an answer that is not JSON are a
\* RuntimeError; bytes that do not decode escape as they come.
Interpreted(ans) ==
    CASE ans.kind \in {"http error", "unreachable", "timeout", "not json"} -> Raised("RuntimeError")
      [] ans.kind = "undecodable" -> Raised("UnicodeDecodeError")
      [] ans.kind = "json"        -> Unwrapped(ans)

\* A field of the result, None when it is missing.
Got(result, name) ==
    IF name \in DOMAIN result THEN result[name] ELSE None
=============================================================================
