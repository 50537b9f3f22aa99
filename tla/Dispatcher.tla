----------------------------- MODULE Dispatcher -----------------------------
(***************************************************************************)
(* The request handlers of request.py (Request.execute of every subclass) *)
(* together with the opcode routing of NetworkManager.infer_payload.      *)
(*                                                                         *)
(* Execute(r) is one whole handler: every DB and file-store call it makes *)
(* is composed into one step, and `response` is what execute() returned: *)
(* a response record, NoReply (execute returned None) or Raised (an       *)
(* exception escaped execute()).                                          *)
(***************************************************************************)
EXTENDS Store

VARIABLE response

OP_REGISTER == 825
OP_SEND_PUBLIC_KEY == 826
OP_RECONNECT == 827
OP_SEND_FILE == 828
OP_CRC_OK == 900
OP_CRC_NOT_OK == 901
OP_CRC_TERMINATE == 902

(* RequestHeader.possible_codes *)
PossibleCodes == {OP_REGISTER, OP_SEND_PUBLIC_KEY, OP_RECONNECT, OP_SEND_FILE,
                  OP_CRC_OK, OP_CRC_NOT_OK, OP_CRC_TERMINATE}

CODE_REGISTER_SUCCESS == 1600
CODE_REGISTER_FAILURE == 1601
CODE_SEND_AES == 1602
CODE_ACCEPTED_FILE == 1603
CODE_MESSAGE_CONFIRM == 1604
CODE_RECONNECT_SUCCESS == 1605
CODE_RECONNECT_FAILURE == 1606
CODE_FAILURE == 1607


(* A response; fields a code does not carry are None.  The wrapped AES    *)
(* key is carried as the key itself: the client unwraps it with its       *)
(* private key, and wrapping only succeeds under a valid public key.      *)
Resp(code, id, key, crc) == [code |-> code, id |-> id, key |-> key, crc |-> crc]

(* execute() returned None / raised: pseudo-responses with code 0 and 1.  *)
NoReply == Resp(0, None, None, None)
Raised == Resp(1, None, None, None)

(* A parsed request: header id and opcode, and the payload fields.        *)
Request == [op : PossibleCodes, id : Ids \cup {None}, name : Names,
            pub : PubKeys, fname : FileNames, piece : Piece,
            no : Nat, total : Nat, csize : {0, 1}]

dispVars == <<storeVars, response>>

DispatcherInit == StoreInit /\ response = NoReply

(* RegisterRequest.execute and DatabaseManager.create_client.             *)
Register(r) ==
  IF CheckClientNameExists(clients, r.name)
  THEN /\ response' = Resp(CODE_REGISTER_FAILURE, None, None, None)
       /\ UNCHANGED storeVars
  ELSE \E id \in FreshIds(clients) :
         /\ clients' = AddClient(clients, id, r.name)
         /\ response' = Resp(CODE_REGISTER_SUCCESS, id, None, None)
         /\ UNCHANGED <<files, disk, nextKey>>

(* SendPublicKeyRequest.execute: the public key is stored before the wrap *)
(* result is tested; the AES key only when the wrap succeeded.            *)
SendPublicKey(r) ==
  IF GetClient(clients, r.id, r.name) = None
  THEN /\ response' = Resp(CODE_REGISTER_FAILURE, None, None, None)
       /\ UNCHANGED storeVars
  ELSE LET withPub == UpdateRsaPublicKey(clients, r.id, r.pub)
           wrapped == RsaEncrypt(r.pub, nextKey)
       IN  IF wrapped # None
           THEN /\ clients' = UpdateAesKey(withPub, r.id, nextKey)
                /\ nextKey' = nextKey + 1
                /\ response' = Resp(CODE_SEND_AES, r.id, wrapped, None)
                /\ UNCHANGED <<files, disk>>
           ELSE /\ clients' = withPub
                /\ response' = Resp(CODE_REGISTER_FAILURE, None, None, None)
                /\ UNCHANGED <<files, disk, nextKey>>

(* Mutant: generate_aes called once for the row and once for the wrap.    *)
ReconnectTwoKeys(r) ==
  LET client == GetClient(clients, r.id, r.name)
  IN  IF client = None \/ client.pub = None
      THEN /\ response' = Resp(CODE_RECONNECT_FAILURE, r.id, None, None)
           /\ UNCHANGED storeVars
      ELSE /\ clients' = UpdateAesKey(clients, r.id, nextKey)
           /\ nextKey' = nextKey + 2
           /\ response' = IF RsaEncrypt(client.pub, nextKey + 1) # None
                          THEN Resp(CODE_RECONNECT_SUCCESS, r.id,
                                    RsaEncrypt(client.pub, nextKey + 1), None)
                          ELSE Resp(CODE_RECONNECT_FAILURE, r.id, None, None)
           /\ UNCHANGED <<files, disk>>

(* ReconnectRequest.execute: the new AES key is stored before it is       *)
(* wrapped under the stored public key.                                   *)
Reconnect(r) ==
  LET client == GetClient(clients, r.id, r.name)
  IN  IF client = None \/ client.pub = None
      THEN /\ response' = Resp(CODE_RECONNECT_FAILURE, r.id, None, None)
           /\ UNCHANGED storeVars
      ELSE /\ clients' = UpdateAesKey(clients, r.id, nextKey)
           /\ nextKey' = nextKey + 1
           /\ response' = IF RsaEncrypt(client.pub, nextKey) # None
                          THEN Resp(CODE_RECONNECT_SUCCESS, r.id,
                                    RsaEncrypt(client.pub, nextKey), None)
                          ELSE Resp(CODE_RECONNECT_FAILURE, r.id, None, None)
           /\ UNCHANGED <<files, disk>>

(* SendFileRequest.execute.  The fragment is saved at the basenamed path; *)
(* on the last packet the file open(get_path) reaches is decrypted with   *)
(* the current key of the header id, recorded under get_path, and its CRC *)
(* returned.                                                               *)
SendFile(r) ==
  IF r.csize <= 0
  THEN /\ response' = Resp(CODE_FAILURE, None, None, None)
       /\ UNCHANGED storeVars
  ELSE LET saved == SaveInDir(disk, r.id, r.fname, r.piece, r.no = 1)
           path == OpenPath(r.id, r.fname)
       IN  IF r.no # r.total
           THEN /\ disk' = saved
                /\ response' = NoReply
                /\ UNCHANGED <<clients, files, nextKey>>
           ELSE \E out \in DecryptFile(saved, path, GetAesKey(clients, r.id)) :
                  IF out = None
                  THEN /\ disk' = saved
                       /\ response' = Raised
                       /\ UNCHANGED <<clients, files, nextKey>>
                  ELSE /\ disk' = out
                       /\ files' = CreateFile(files, clients, r.id, r.fname)
                       /\ response' = Resp(CODE_ACCEPTED_FILE, r.id, None,
                                           FileCrc(out, path))
                       /\ UNCHANGED <<clients, nextKey>>

(* CRCOkRequest.execute *)
CrcOk(r) ==
  /\ files' = VerifyFile(files, GetPath(r.id, r.fname))
  /\ response' = Resp(CODE_MESSAGE_CONFIRM, r.id, None, None)
  /\ UNCHANGED <<clients, disk, nextKey>>

(* Mutant: 901/902 handled like 900 (the file is marked verified).        *)
CrcTerminateVerifies(r) ==
  /\ files' = VerifyFile(files, GetPath(r.id, r.fname))
  /\ response' = Resp(CODE_MESSAGE_CONFIRM, r.id, None, None)
  /\ UNCHANGED <<clients, disk, nextKey>>

(* CRCTerminateRequest.execute *)
CrcTerminate(r) ==
  /\ response' = Resp(CODE_MESSAGE_CONFIRM, r.id, None, None)
  /\ UNCHANGED storeVars

(* CRCNotOkRequest.execute: no response.  Unreachable in the code, since  *)
(* infer_payload never passes send_confirm=True to bad_crc_requests.      *)
CrcNotOk(r) ==
  /\ response' = NoReply
  /\ UNCHANGED storeVars

(* Mutant: bad_crc_requests called with send_confirm=True for both 901    *)
(* and 902, so 902 gets the silent handler.                               *)
ExecuteBadCrcSilent(r) ==
  \/ r.op = OP_REGISTER /\ Register(r)
  \/ r.op = OP_SEND_PUBLIC_KEY /\ SendPublicKey(r)
  \/ r.op = OP_RECONNECT /\ Reconnect(r)
  \/ r.op = OP_SEND_FILE /\ SendFile(r)
  \/ r.op = OP_CRC_OK /\ CrcOk(r)
  \/ r.op \in {OP_CRC_NOT_OK, OP_CRC_TERMINATE} /\ CrcNotOk(r)

(* NetworkManager.infer_payload: 901 and 902 both go to                   *)
(* bad_crc_requests(..., False), which builds a CRCTerminateRequest.      *)
Execute(r) ==
  \/ r.op = OP_REGISTER /\ Register(r)
  \/ r.op = OP_SEND_PUBLIC_KEY /\ SendPublicKey(r)
  \/ r.op = OP_RECONNECT /\ Reconnect(r)
  \/ r.op = OP_SEND_FILE /\ SendFile(r)
  \/ r.op = OP_CRC_OK /\ CrcOk(r)
  \/ r.op \in {OP_CRC_NOT_OK, OP_CRC_TERMINATE} /\ CrcTerminate(r)

=============================================================================
