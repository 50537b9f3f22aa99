------------------------------- MODULE Store -------------------------------
(***************************************************************************)
(* Persistent state (database_manager.py) and file store                  *)
(* (file_handler.py, crypto_manager.aes_decrypt) of the gyf server.       *)
(*                                                                         *)
(* The in-memory mirror (DatabaseManager.clients / .transferred_files) and *)
(* the sqlite tables are written in lockstep inside one call, and the     *)
(* server is single-threaded, so one variable stands for both.  Every DB  *)
(* primitive is an operator from an old value to a new one, so a handler *)
(* that calls several of them composes them in the order of the code.    *)
(*                                                                         *)
(* last_seen is written by almost every handler but read by nothing but   *)
(* the startup printout; it is abstracted away.                           *)
(***************************************************************************)
EXTENDS Naturals, Sequences, FiniteSets, TLC

CONSTANTS
  Ids,        \* values secrets.token_bytes(16).hex() can return
  Names,      \* client names that appear on the wire
  FileNames,  \* file names that appear on the wire
  Basename,   \* os.path.basename on FileNames
  Traversal,  \* f -> j when f is "../j/<base>", else None
  PubKeys,    \* 160-byte public-key blocks a client may send
  ValidPubKeys, \* those RSA.import_key accepts (rsa_encrypt succeeds)
  Contents,   \* plaintexts of uploaded files
  Checksum,   \* check_sum.calculate on a decrypted file's content
  MaxKeys,    \* bound on generated AES keys (keys are 1..MaxKeys)
  None        \* Python None

ASSUME Basename \in [FileNames -> FileNames]
ASSUME Traversal \in [FileNames -> Ids \cup {None}]
ASSUME ValidPubKeys \subseteq PubKeys
ASSUME MaxKeys \in Nat \ {0}

VARIABLES
  clients,    \* id -> [name, pub, aes]            (table clients)
  files,      \* <<id, file name>> -> [owner, name, verified] (table files)
  disk,       \* <<id, file name>> -> Seq(Piece)    (transferred_files/)
  nextKey     \* the next fresh AES key generate_aes returns

storeVars == <<clients, files, disk, nextKey>>

Keys == 1..MaxKeys

(* Garbage is what AES-CBC with the wrong key or a mis-assembled           *)
(* ciphertext yields when the PKCS#7 unpad happens to succeed.            *)
Garbage == "garbage"

(* A file on disk is a sequence of pieces: ciphertext fragments as        *)
(* written by save_in_dir, or the plaintext decrypt_file wrote back.      *)
Frag(k, p, i, n) == [key |-> k, data |-> p, no |-> i, of |-> n]
Plain(x) == [key |-> None, data |-> x, no |-> 0, of |-> 0]
Piece == [key : Keys, data : Contents, no : Nat, of : Nat]
           \cup {Plain(x) : x \in Contents \cup {Garbage}}

ClientRec == [name : Names, pub : PubKeys \cup {None}, aes : Keys \cup {None}]
FileRec == [owner : Ids, name : FileNames, verified : BOOLEAN]
Path == Ids \X FileNames

StoreTypeOK ==
  /\ DOMAIN clients \subseteq Ids
  /\ \A id \in DOMAIN clients : clients[id] \in ClientRec
  /\ DOMAIN files \subseteq Path
  /\ \A p \in DOMAIN files : files[p] \in FileRec
  /\ DOMAIN disk \subseteq Path
  /\ \A p \in DOMAIN disk : disk[p] \in Seq(Piece)
  /\ nextKey \in 1..(MaxKeys + 1)

(* load_up on an empty database file: both tables empty.                  *)
StoreInit ==
  /\ clients = <<>>
  /\ files = <<>>
  /\ disk = <<>>
  /\ nextKey = 1

(*************************** CryptoManager ********************************)

(* generate_uuid: secrets.token_bytes(16).hex(), any id at all.           *)
GenerateUuid == Ids

(* rsa_encrypt: PKCS1_OAEP under the imported key, or None when           *)
(* RSA.import_key (or the encryption) raises ValueError.  The wrapped key *)
(* is represented by the key it wraps.                                     *)
RsaEncrypt(pk, k) == IF pk \in ValidPubKeys THEN k ELSE None

(*************************** DatabaseManager ******************************)

GetClient(cs, id, name) ==
  IF id \in DOMAIN cs /\ name = cs[id].name THEN cs[id] ELSE None

(* Mutant: the name is looked up among the ids instead of the names.      *)
CheckClientNameAmongIds(cs, name) == \E id \in DOMAIN cs : id = name

CheckClientNameExists(cs, name) == \E id \in DOMAIN cs : cs[id].name = name

(* Mutant: the generate_uuid result is used without the retry loop.       *)
FreshIdsNoRetry(cs) == GenerateUuid

(* The retry loop around generate_uuid: the id finally used is one not    *)
(* yet in use.                                                             *)
FreshIds(cs) == GenerateUuid \ DOMAIN cs

AddClient(cs, id, name) ==
  (id :> [name |-> name, pub |-> None, aes |-> None]) @@ cs

UpdateAesKey(cs, id, k) ==
  IF id \in DOMAIN cs THEN [cs EXCEPT ![id].aes = k] ELSE cs

UpdateRsaPublicKey(cs, id, pk) ==
  IF id \in DOMAIN cs THEN [cs EXCEPT ![id].pub = pk] ELSE cs

GetAesKey(cs, id) == IF id \in DOMAIN cs THEN cs[id].aes ELSE None

(* FileHandler.get_path: root/clientid/file_name, file_name NOT basenamed *)
(* (the files table keys rows by this string).                            *)
GetPath(id, f) == <<id, f>>

(* The file open(get_path(id, f)) reaches: the OS resolves                *)
(* "root/id/../j/b" to "root/j/b", the file save_in_dir keeps for j.       *)
OpenPath(id, f) ==
  IF Traversal[f] = None THEN GetPath(id, f) ELSE <<Traversal[f], Basename[f]>>

(* Mutant: an upsert that keeps the verified flag of an existing row.     *)
CreateFileKeepVerified(fs, cs, id, f) ==
  LET p == GetPath(id, f)
  IN  IF id \in DOMAIN cs
      THEN (p :> [owner |-> id, name |-> f,
                  verified |-> p \in DOMAIN fs /\ fs[p].verified]) @@ fs
      ELSE fs

(* create_file: INSERT OR REPLACE at get_path with verified = False.      *)
CreateFile(fs, cs, id, f) ==
  IF id \in DOMAIN cs
  THEN (GetPath(id, f) :> [owner |-> id, name |-> f, verified |-> FALSE]) @@ fs
  ELSE fs

VerifyFile(fs, path) ==
  IF path \in DOMAIN fs THEN [fs EXCEPT ![path].verified = TRUE] ELSE fs

(*************************** FileHandler **********************************)

(* save_in_dir: the path is built from basename(file_name); mode "wb"     *)
(* truncates, "ab" appends (creating the file when it does not exist).    *)
SaveInDir(d, id, f, piece, truncate) ==
  LET p == <<id, Basename[f]>>
      old == IF p \in DOMAIN d /\ ~truncate THEN d[p] ELSE <<>>
  IN  (p :> Append(old, piece)) @@ d

(* The pieces decrypt to one plaintext exactly when they are the          *)
(* fragments 1..n, in order, of one file encrypted under key k.           *)
Assembled(s, k) ==
  /\ Len(s) > 0
  /\ Len(s) = s[1].of
  /\ \A i \in 1..Len(s) : s[i] = Frag(k, s[1].data, i, s[1].of)

(* decrypt_file(path, k): the set of outcomes.  An outcome is the new     *)
(* disk, or None when the call raises: open() on a missing path           *)
(* (FileNotFoundError), AES.new with key None (TypeError), or unpad on a  *)
(* wrong padding (ValueError).  With a wrong key or mis-assembled         *)
(* ciphertext unpad may fail or pass and leave garbage.                   *)
DecryptFile(d, path, k) ==
  IF path \notin DOMAIN d \/ k = None THEN {None}
  ELSE IF Assembled(d[path], k)
       THEN {[d EXCEPT ![path] = <<Plain(d[path][1].data)>>]}
       ELSE {None, [d EXCEPT ![path] = <<Plain(Garbage)>>]}

(* check_sum.calculate over the file at path (after decryption).          *)
FileCrc(d, path) == Checksum[d[path][1].data]

=============================================================================
