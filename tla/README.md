# TLA+ models of the gyf file-transfer server

This directory holds TLA+ models of the Python server in `src/server/`. They are
checked with TLC. The server registers clients, exchanges an AES key with each
client under the client's RSA key, receives encrypted files in fragments,
decrypts and stores them, and records whether the client confirmed each file's
CRC.

## 1. Inventory of the system

| Component | Source | State it keeps | Operations |
|---|---|---|---|
| Connection server | `server.py`, `network_manager.py` | selector registrations (open sockets), the listening socket | `_accept`, `_read` (header, validity check, payload, execute, send), `close_connection` |
| Request dispatcher | `request.py`, `network_manager.infer_payload` | none of its own | `execute` of 825 register, 826 send-public-key, 827 reconnect, 828 send-file, 900 crc-ok, 901/902 (both routed to `CRCTerminateRequest`) |
| Persistent state | `database_manager.py`, `client.py`, `transferred_file.py` | the `clients` and `files` sqlite tables and their in-memory mirror | `create_client` (with name check and id retry loop), `get_client`, `update_*`, `create_file`, `verify_file`, `load_up` |
| File store | `file_handler.py` | files under `transferred_files/<id>/` | `save_in_dir` (basename, `wb`/`ab`), `get_path` (no basename), `decrypt_file` |
| Crypto | `crypto_manager.py` | none | `generate_uuid`, `generate_aes`, `rsa_encrypt` (None on a bad key), `aes_decrypt` (zero IV, unpad may raise) |
| Wire codec | `protocol_handler.py`, `response.py`, `RequestHeader` | none | header unpacking, `remove_null`, response packing |
| Startup | `main.py`, `port_retriever.py` | port | read `port.info`, start the server; any exception out of `start()` ends the process |

How the parts interact: one thread runs a `selectors` loop. Each readable
connection gets a `_read` callback. The callback reads one request with
blocking `recv` calls, runs its `execute()`, and sends the response if there
is one. All handlers share the `DatabaseManager` and `FileHandler` singletons.
There are no threads. Requests of different connections therefore interleave
only between whole requests, in whatever order the selector reports them.
Across connections the shared state is the database and the files.

What makes the system hard:
- **Stale requests.** A client that quits leaves whatever it already sent
  buffered on its socket. The server still reads and executes those requests,
  possibly after the same client's requests on a new connection.
- **Key rotation.** The last fragment of an upload is decrypted with whatever
  AES key the client holds at that moment. Every 826 and every 827 rotates
  that key.
- **Uncaught exceptions end the process.** `_read` only catches
  `ConnectionResetError` and `ConnectionAbortedError`. Errors such as unpad's
  `ValueError`, `TypeError` for a missing key, `FileNotFoundError` and
  `BrokenPipeError` leave `Server.start` and end the process. The database
  and the files keep whatever was already written.
- **Multi-step file state.** A file is truncated by its first fragment,
  appended by later ones, and decrypted and recorded on the last one. Its
  `verified` flag changes only on 900 and on a completed upload.
- **Byte-stream parsing.** The code makes one `recv` per field. Nothing
  reads the payload of an invalid opcode. `remove_null` mishandles a field
  that has no zero byte.

The properties that make each part correct:
- **Dispatcher and state.**
  - Names are unique.
  - A client's row is never replaced.
  - `verified` is set only by the owner's 900 and reset by a completed upload.
  - A verified file holds the content that was confirmed.
  - The key stored for a client is the key `send_response` sent it.
  - 901 is silent.
- **Server.**
  - No request kills the process.
  - Every fully received request is eventually executed.
  - A stalled peer does not block the others.
- **Codec.** A conforming request decodes to the fields its client encoded.
  A response parses back to the fields its handler set.
  Fields are truncated at the first zero byte.

## 2. Modules

| Module | Models | State (VARIABLES) | Actions |
|---|---|---|---|
| `Store` | database + mirror, file store, AES decrypt | `clients`, `files`, `disk`, `nextKey` | operators from an old value to a new one, one per DB or file call |
| `Dispatcher` (EXTENDS Store) | `Request.execute` of every opcode and `infer_payload` | `response` (what `execute()` returned: response, `NoReply` or `Raised`) | `Register`, `SendPublicKey`, `Reconnect`, `SendFile`, `CrcOk`, `CrcTerminate`, `Execute` |
| `Server` (EXTENDS Dispatcher) | selector loop, process death, restart | `running`, `cstate`, `inbox`, `outbox`, `delivered` (history) | `Read(c)`, `PeerLeft(c)`, `Restart` |
| `FileTransfer` (EXTENDS Server) | the server together with its clients (the environment) | `cl`, `keyReqs`, `confirmed` (history) | `Connect` (= `_accept`), client steps, `RogueSend`, `Next`, `Spec`, properties |
| `Stream` | `_read` as a byte stream: one `recv` per field, the validity check, `execute`, the send, RST and BrokenPipe | `running`, `wpos`, `rpos`, `pstate`, `sock`, `srv`, `phase`, `executed` | `StartRead(c)` (accept and header), `RecvField(c)`, `Finish(c)`, `PeerWrite(c)`, `PeerClose(c)`, `RstArrives(c)` |
| `RequestChannel` | the contract of the connection server: whole requests, served in order, once | `arrived`, `done`, `alive`, `accepting`, `peerGone` | `Arrive`, `Leave`, `Serve`, `Drop`, `Die` |
| `Codec` | `remove_null`, `unpack_request_header`, the `get_*_payload` readers, `ResponseHeader.pack`, every `create_packet`, the payload sizes `request.py` declares; the client side of spec.md §4.1 as the reference | none (operators) | `DecodeRequest`, `create_packet`, and the reference `EncodeRequest`, `ParseResponse` |
| `MCFileTransfer`, `MCStream`, `MCCodec` | model constants, scripts and codec inputs | | |

`Stream` is a separate module because it answers questions that the
request-level model assumes away. It keeps the byte stream and abstracts
what is in the requests:
- **Bytes are "parts".** A part is tagged with its message, field and
  position. The header is 2 parts and each payload field is 1 part, except
  the file content of a 828, which is 2. `recv(n)` returns
  `min(n, available)` parts (`Recv`). It blocks when nothing has arrived and
  the peer has neither closed nor reset. After a FIN it returns `b""`.
- **Who writes what.** Each connection's peer sends the requests of
  `Script[c]`. `SplitFields` names the fields it sends as two TCP segments.
  `CloseMidMessage` lets it close inside a request. `PeersFinish` says
  whether every peer eventually writes its whole script.
- **The header the server parses** is a function of the parts it got. A
  header whose parts belong to one header gives that request's opcode.
  Misframed bytes give any code (`ParsedCodes`).
- **The declared ciphertext size.** The header's `payload_size` is carried
  as `size`, the number of ciphertext parts a send-file declares. For an
  intact header it is the one the peer wrote (2 in every script). Misframed
  bytes give any size in `-1..3`. `get_send_file_payload` computes
  `payload_size - 267` without a check, so the model has three cases:
  - a negative size makes `recv` raise `ValueError`, and the server ends;
  - a size of 0 makes `recv(0)` return `b""` at once;
  - other sizes read that many parts.

  A field counts as read whole (`Whole`) only when it is exactly the parts
  the peer wrote for it.
- **Sending** to a peer that has closed sets an RST in flight. Once the RST
  has arrived, `send` raises `ConnectionResetError`, which `_read` catches
  and turns into a close, or `BrokenPipeError`, which ends the server (`Crash`).

How the modules correspond to the code:
- **`Read(c)` is one whole `_read`.** It takes a request from the head of
  `inbox[c]`, then runs `Execute`. If `Execute` raised, the process is gone:
  every connection closes and the unread requests are lost. Otherwise the
  response is appended to `outbox[c]`, unless the peer has already closed.
- **Each handler composes the DB and file-store operators in code order.**
  For example, `SendPublicKey` stores the public key first. It stores the
  AES key only when the wrap succeeded.
- **The database and its mirror are one variable.** Every write updates both
  in the same call, and only one thread writes. `load_up` after a restart
  therefore yields the same state, which is why `Restart` leaves the stored
  state unchanged.
- **Abstracted data.**
  - `last_seen` is written by almost every handler but read by nothing, so
    it is left out.
  - A response carries the AES key itself, not the wrapped key. The client
    unwraps it with its private key. `RsaEncrypt` (`rsa_encrypt`) returns
    the key when the public key is in `ValidPubKeys`, else None.
  - `GenerateUuid` (`generate_uuid`) can return any id. `FreshIds` is the
    retry loop in `create_client` that keeps the first one not in use.
  - A file on disk is a sequence of pieces. A piece is either a fragment
    `Frag(key, plaintext, i, n)` or the plaintext that decryption wrote back.
  - Decryption gives back the plaintext only when the pieces are fragments
    1..n of one file under the current key. Otherwise unpad fails (`Raised`)
    or passes on garbage. Both happen with a wrong key, and the model keeps
    both as a nondeterministic outcome.
  - CRC-32 (`check_sum`, which is not in `src/`) is an injective constant
    function.
- **Clients follow spec.md §4.5.** The client program is not in this
  repository, so it is modelled as the environment:
  - It registers, sends its public key (valid or not), and uploads its file
    in 1..`MaxPackets` fragments.
  - It answers a 1603 with 900 when the CRC matches. Otherwise it sends 901
    and uploads again, up to `MaxTries` times, then sends 902.
  - It reconnects with 827 after restarting.
  - It may quit at any moment. Quitting closes the socket with FIN, so the
    requests it already sent are still executed.
  - A response it did not expect makes it drop the connection.
- **`RogueSend` is a misbehaving peer.** It opens a connection, sends one
  request from `RogueRequests` and closes.

## 3. Runs

All runs use `MCFileTransfer` with these bounds: two clients (one in
`adversary`), three ids (two in `adversary`), three connection slots, at most 3 AES keys (2 in
`adversary`), at most 2 fragments per upload, and 1 retry. Ids and
connections are interchangeable model values, so `core` uses symmetry over
them. None of the properties name a particular id or connection.

| Run | cfg | Expect | Properties | What it shows |
|---|---|---|---|---|
| `core` | `MCFileTransfer.cfg` | pass (≈2.7M states) | `TypeOK`, `NameUnique`, `StoredKeyDelivered`, `ResponsesParse`, `ClientRecordsStable`, `VerificationGate` | These hold with quitting clients, stale requests, crashes and restarts. Every response built reaches the client byte-exact. |
| `adversary` | `MCAdversary.cfg` | pass (≈620k states) | `NameUnique`, `ClientRecordsStable`, `VerificationGate`, `AwaitAnswered` | These also hold with a peer that sends 826 under guessed ids, empty (`content_size` 0) fragments, and a registration of a second name. This run also exercises the handler branches that protocol-following clients never reach. Under the server's fairness, every request a client waits on is answered, or the server died. |
| `server_crash` | `MCServerCrash.cfg` | violation | `NoServerCrash` | A client quits after sending its final fragment, then reconnects on a new connection. Its 827 is executed first and rotates the key. The stale fragment then fails to unpad, and the exception ends the server. |
| `crc_not_ok_reply` | `MCCrcNotOk.cfg` | violation | `CrcNotOkSilent` | 901 is answered with 1604. |
| `verified_intact` | `MCVerifiedIntact.cfg` | violation | `VerifiedMeansIntact` | A re-upload truncates a verified file, and its row stays verified. |
| `path_escape` | `MCPathEscape.cfg` | violation | `Sandbox` | A file name with `../<id>/` makes the last-fragment decrypt rewrite another client's file (see below). |

Why the bounds are enough:
- **Three key rotations.** A 826 and two 827s are needed for the stale-827
  and stale-fragment interleavings.
- **Two fragments.** They separate the truncating first fragment from the
  appending, decrypting last one.
- **Three connection slots.** A client can abandon a connection with
  requests still buffered, open a second one, and a peer or the other
  client still has one left.
- **Three ids (two in `adversary`).** A re-registration can receive a
  fresh id, and the mutant without the retry loop can collide with an
  existing one. `adversary` has a single client plus the rogue peer's
  second name, so two ids suffice there. They keep its liveness check
  short.

Runs of `MCStream` (all `CHECK_DEADLOCK FALSE`, since the peers stop once
their scripts are written):

| Run | cfg | Expect | Properties | What it shows |
|---|---|---|---|---|
| `stream` | `MCStream.cfg` | pass | `Framing`, `RequestsDecode`, `RequestsServed`, `ChannelRefinement` | With whole segments and peers that finish, every request is executed in the order it was sent, decoded to the fields its client wrote, and every request written is eventually served. `Stream` implements `RequestChannel` (see below). |
| `stream_adversary` | `MCStreamAdversary.cfg` | pass | `StreamTypeOK`, `RequestsRead` | An invalid opcode, split headers and content, and peers that close mid-message do not stop the server from reading what was sent. |
| `stream_stall` | `MCStreamStall.cfg` | violation | `RequestsServed` | A peer that stops inside a request blocks the single thread in `recv`. Requests already on the other connection are never served, although spec.md promises concurrent clients. |
| `stream_invalid_opcode` | `MCStreamInvalidOp.cfg` | violation | `Framing` | An invalid opcode gets a 1607, but its payload is not read. The next header is parsed from payload bytes. |
| `stream_short_read` | `MCStreamShortRead.cfg` | violation | `Framing` | File content that arrives in two segments is read with one `recv`. The rest is parsed as the next header. |
| `stream_broken_pipe` | `MCStreamBrokenPipe.cfg` | violation | `ServerSurvives` | A reply to a peer that reset raises `BrokenPipeError`, which `_read` does not catch. The server ends. |

**The codec.** `Codec` works on real bytes. A byte is an integer in 0..255,
a byte string is a sequence of them, and the widths are the code's (16, 23,
255, 160; `'<BHI'` and `'<IIHH'` as field widths). Two translations matter:
- `remove_null` is `data[:data.find(b'\0')]`, with Python's slice, so a
  `find` of -1 cuts the last byte (`find_zero`, `SliceTo`).
- Each response's `payload_size` is written in `request.py` (for example
  16 + 4 + 255 + 4 for 1603). The bytes come from `create_packet` in
  `response.py`. `MakeResponse` and `create_packet` keep the two apart, as
  the code does.

The client is not in this repository, so its encoder (`EncodeRequest`) and
its parser (`ParseResponse`, which cuts a name at its first zero) are
written from the layout tables of spec.md §4.1. They are the reference.
`MCCodec` enumerates the inputs:
- the integer fields at 0, 1 and their largest value (2^31 - 1 for a u32,
  because TLC's integers stop there);
- names of 0, 1 and 254 bytes, and one of two bytes above 127;
- ids, public keys and ciphertexts containing zero bytes;
- wrapped keys of 0 and 128 bytes.

It precomputes each round trip once per opcode and once per response code.
The properties tie them to the system's behaviour:
- **`RequestsDecode` (`stream`).** For every opcode the server executes,
  every conforming request of that opcode decodes to exactly what the
  client encoded.
- **`ResponsesParse` (`core`).** For every response code the dispatcher
  produces, every response of that code is framed by its declared size and
  parses back to its fields.

Their mutants keep the terminating zero in `remove_null`, and leave the crc
out of the 1603 size.

**Refinement.** `ChannelRefinement` is `RequestChannel`'s `ChannelSpec`,
taken through `INSTANCE ... WITH` (`Stream`'s `Chan`). The mapping:
- `arrived` counts the requests whose parts have all arrived.
- `done` is `executed`, `alive` is `running`.
- `accepting` means `srv` is still `"open"`.
- `peerGone` means the peer has sent FIN.

Parts in flight, `rpos`, the `_read` in progress and the RST are internal
and map to stuttering steps. Abstractly, a `Finish` is `Serve`, possibly
together with the close or crash of a reply to a peer that has gone. The
abstract spec has weak fairness of `Serve`, so the refinement includes
liveness. It holds in `stream`. In the configurations of the violation runs
it fails, in the same way as the properties listed there: misframing breaks
the in-order `Serve`, and a stalled peer breaks the fairness of `Serve`.

Two more `FileTransfer` properties:
- **`StoredKeyDelivered` (core).** The AES key stored for a client is the
  key that `send_response` sent it, wrapped, in the 1602 or 1605 of the
  handler that stored it. `delivered` records what was sent, not what was
  read. A peer that has already closed gets the bytes and never reads them.
  The one exception is a stored public key that cannot wrap. There, 827
  stores the new key, then fails to wrap it and answers 1606
  (`request.py:159`). spec.md §4.5 prescribes that order, so the property
  excepts the case rather than claiming to catch it, and the hazard has no
  property. The mutant wraps a different key from the one it stores.
- **`Sandbox` (`path_escape`, violation).** A send-file only changes files
  under its own id. `MCPathEscape.cfg` adds a file name `t` standing for
  `../<i2>/f2`. `save_in_dir` stores the fragment under its basename.
  `get_path`, used by `decrypt_file`, keeps the directory part, so `OpenPath`
  resolves to `<i2, f2>`. TLC finds the trace: client u2 (id i2) has sent
  the first fragment of `f2`, then u1's last fragment of `t` decrypts
  `i2/f2` with u1's key and rewrites it with garbage.

`CHECK_DEADLOCK FALSE`: the server legitimately idles in `select()` once
the clients are done or out of budget.

Fairness in `FileTransfer`:
- **Weak fairness of `Read(c)` and `PeerLeft(c)`.** `Server.start`'s
  `select()` reports every ready socket on each iteration, and `_read`
  handles each of them.
- **Weak fairness of `Receive(u)` and `NoticeClosed(u)`, only while client
  `u` awaits a response.** A waiting client is blocked in `recv`, so it
  reads whatever arrives, or sees the reset of a server that died.
- **No fairness for anything else.** Nothing obliges a client to send, quit
  or reconnect, nor the operator to restart the server.

Under these assumptions, `AwaitAnswered` says that a client waiting for a
response eventually stops waiting, unless the server process has died.
This holds because `infer_payload` routes each awaited opcode (825, 826,
827, the last 828, 900, 902) to a handler that answers. Its mutant routes
901 and 902 to `CRCNotOkRequest`, the silent handler that
`bad_crc_requests(..., send_confirm=True)` would pick. That leaves a client
that sent 902 waiting forever. Symmetry is not used in this run, because it
checks liveness.

The liveness of `Stream` assumes weak fairness, per connection, of `StartRead`,
`RecvField`, `Finish` and `RstArrives`:
- The selector reports every ready socket on each iteration, and `_read`
  handles each of them, so a request that stays ready is eventually read.
- Within a read, the server steps on as long as `recv` does not block.
- An RST in flight is eventually delivered.

The peers are the environment. Only when `PeersFinish` is TRUE does the
model assume weak fairness of `PeerWrite` and `PeerClose`. `stream_stall`
drops that assumption, which is how a blocking `recv` shows up.

## 4. Not modelled (yet), and why

- **Bytes on the wire, inside `FileTransfer`.** Requests arrive there parsed
  and whole. Byte-level effects are checked separately in `Stream`, whose
  requests carry no data. The two models are not composed. A misframed
  request in `Stream` is a different request in `FileTransfer`, and that
  state space is beyond TLC.
- **`remove_null` on a field without a zero byte** (hazard at
  `protocol_handler.py:10`). `find` gives -1 there, so a 255-byte name
  loses its last byte. spec.md §2 allows at most 254 bytes and a
  terminator, so such a block is a malformed request, and the codec
  properties cover only conforming ones. The code truncates such a block
  rather than rejecting it. No property states that.
- **UTF-8.** Names are carried as bytes, and `.decode()` is left out. A
  name that is not valid UTF-8 raises `UnicodeDecodeError`, which `_read`
  does not catch. That is the same ending as the `ValueError` of
  `server_crash`. `bytes.fromhex` of the hex ids is also left out: ids are
  their 16 bytes.
- **The codec inside `Stream` and `FileTransfer`.** Their requests carry no
  bytes. `Codec` is checked on the requests and responses those runs
  produce, by opcode and code.
- **Port range (hazard at `port_retriever.py:25`).** spec.md §1 puts
  reading `port.info` out of scope. `int()` accepts 0, negative values and
  values above 65535. `bind` then raises
  `OverflowError`, or with 0 binds a random port. This is one call before
  any server state exists, with no interleaving to explore, so it is a
  case for a unit test, not for TLC.
- **Two `Stream` cases kept out of the run list.** A header split across
  segments and a connection closed mid-request are explored in
  `stream_adversary`, where they break no property. They have no violation
  run of their own.
- **`last_seen`.** It is written but never read.
- **A sqlite commit failing after the mirror was updated.**
- **`BrokenPipeError` inside `FileTransfer`.** That model drops responses
  to closed peers silently. `Stream` covers the error instead.
- **Printing** (`print_clients`, `print_files`, the `<Info>` lines). This
  is pure output.

## 5. Plan

Done:
- The core: `Store`, `Dispatcher`, `Server`, `FileTransfer`.
- Path handling (`Sandbox`).
- Delivered keys (`StoredKeyDelivered`).
- The byte-stream module `Stream`, with its liveness under fairness, and its
  refinement of `RequestChannel`.
- The header-declared ciphertext size in `Stream`.
- Crypto operators `GenerateUuid` and `RsaEncrypt`.
- Fairness of the server in `FileTransfer`, and `AwaitAnswered`.

- The codec (`Codec`, `RequestsDecode`, `ResponsesParse`).

Next:
1. **UTF-8 names.** A `Utf8Valid` predicate on names, with decoding failure as one more way for `_read` to raise.
2. **`AbstractStore`.** An abstract specification of atomic per-request
   record updates, implemented by `FileTransfer`.
3. Not pursued: **`ClientKeyCurrent`** ("a keyed client holds the server's
   key"). A stale 827 of the same client, executed after its new
   connection's key exchange, breaks it without any request left buffered.
   The consequence of that is the `server_crash` violation.
