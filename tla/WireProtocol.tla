------------------------------ MODULE WireProtocol ------------------------------
(***************************************************************************)
(* The JSON frames between handset and bridge, and the codecs that must    *)
(* agree on them.  To the handset the bridge writes (server/src/index.ts,  *)
(* JSON.stringify of a ServerMsg) and Protocol.kt reads.  From it, three   *)
(* parsers must accept the same: the bridge's (server/src/protocol.ts),    *)
(* telepathos-proto's (proto/src/lib.rs) and the writer's own rules.       *)
(*                                                                         *)
(* A frame is a type and the fields it has; a string is known by its       *)
(* lengths and the kinds of characters in it.  A number keeps its JSON     *)
(* form, for the three read it differently: serde takes integers only,     *)
(* JavaScript takes every number for a double, exact up to MaxSafe.        *)
(***************************************************************************)
EXTENDS Integers, SequencesExt

CONSTANTS
  MaxSafe,    \* MAX_SAFE_SEQUENCE
  Good,       \* field :> a value every codec takes
  Values      \* values a field may have instead

\* Strings, as a codec sees them: UTF-16 units, UTF-8 bytes, the kinds of
\* characters, and whether the first and the last are letters or digits.
Kinds == {"alnum",    \* ASCII letters and digits
          "mark",     \* : _ -
          "space",    \* blank, not a control character
          "tab",      \* blank and a control character
          "control",  \* the other C0 and C1 controls
          "pair",     \* beyond the basic plane: two units each
          "other",
          "lone"}     \* half of a surrogate pair

VARIABLES
  step,    \* how far the exchange is
  message, \* the frame the bridge began with
  frame,   \* the frame on the socket
  heard,   \* what the handset read
  own,     \* the last control frame was written by the handset
  rust,    \* what telepathos-proto reads in it
  node     \* what the bridge reads in it

vars == <<step, message, frame, heard, own, rust, node>>

-----------------------------------------------------------------------------
(* Fields *)

Receipt == {"lane_id", "reply_to", "after_seq", "through_seq", "turn_token", "interaction_id"}

\* ControlMsg
ControlFields ==
  [hello |-> {"device", "installation_id", "token"},
   command |-> {"command", "turn_token"},
   utterance_end |-> {"turn_token"},
   meta_mode |-> {"turn_token"},
   lane |-> {"id", "revision", "turn_token"},
   reply_received |-> Receipt, reply_ack |-> Receipt, reply_ack_retire |-> Receipt]

\* What the bridge writes: ServerMsg, with agent_end in its two forms.
Turn == {"turn_token", "interaction_id"}
ServerForms ==
  {[type |-> t, fields |-> {}] : t \in {"ready", "speech_start", "listening"}} \cup
  {[type |-> "utterance", fields |-> {"samples"}],
   [type |-> "phase", fields |-> {"value"}],
   [type |-> "error", fields |-> {"message"}],
   [type |-> "stt", fields |-> {"text", "confidence", "repo"} \cup Turn],
   [type |-> "agent_delta", fields |-> {"text"} \cup Turn],
   [type |-> "agent_end", fields |-> {"text"} \cup Turn],
   [type |-> "agent_end", fields |-> {"text"} \cup Receipt]}

Optional == {"token", "revision", "confidence", "repo"}
Delivery == {"lane_id", "reply_to", "after_seq", "through_seq"}

Frame(type, body) == [type |-> type, body |-> body]
Has(f, field) == field \in DOMAIN f.body
Null == [kind |-> "null"]
None == [kind |-> "none"]
Refused == [type |-> "refused"]

IsText(v) == v.kind = "text"
IsInt(v) == v.kind = "int"

-----------------------------------------------------------------------------
(* The parser of telepathos-proto *)

\* is_protocol_blank
Blank(s) == s.units > 0 /\ s.kinds \subseteq {"space", "tab"}

Controls(s) == s.kinds \cap {"tab", "control"} # {}

\* is_valid_lane_id
LaneId(s) ==
  /\ s.bytes \in 1..128 /\ s.units \in 1..128
  /\ s.edges /\ s.kinds \subseteq {"alnum", "mark"}

\* is_valid_opaque_id
OpaqueId(s) ==
  /\ s.units \in 1..256 /\ s.bytes \in 1..256
  /\ ~Blank(s) /\ ~Controls(s)

\* valid_turn_token
TurnToken(s) == s.units \in 1..128 /\ ~Blank(s)

\* valid_installation_id
InstallationId(s) == s.units \in 1..128 /\ ~Blank(s) /\ ~Controls(s)

\* CommandKind
Commands == {"stop", "repeat", "cancel_capture"}

\* What serde makes of one field: a missing or null option is None, a string is
\* well formed, a u64 is an integer of JSON.
Typed(f, field) ==
  IF ~Has(f, field) THEN field \in Optional
  ELSE LET v == f.body[field]
       IN  CASE field \in Optional /\ v = Null -> TRUE
             [] field \in {"after_seq", "through_seq", "revision"} -> IsInt(v) /\ v.n >= 0
             [] field = "command" -> IsText(v) /\ v.name \in Commands
             [] OTHER -> IsText(v) /\ "lone" \notin v.kinds

DeliveryOK(body) ==
  /\ LaneId(body.lane_id) /\ OpaqueId(body.reply_to)
  /\ body.after_seq.n <= MaxSafe /\ body.through_seq.n <= MaxSafe
  /\ body.through_seq.n > body.after_seq.n

\* valid_receipt_fields
ReceiptOK(body) ==
  DeliveryOK(body) /\ TurnToken(body.turn_token) /\ OpaqueId(body.interaction_id)

\* Wrong on purpose: a revision may be any u64.
RevisionAny(f) == TRUE

RevisionOK(f) ==
  Has(f, "revision") /\ IsInt(f.body.revision) => f.body.revision.n <= MaxSafe

\* The match of ControlMsg::parse.
Accepted(f) ==
  CASE f.type = "hello" -> InstallationId(f.body.installation_id)
    [] f.type = "lane" -> TurnToken(f.body.turn_token) /\ LaneId(f.body.id) /\ RevisionOK(f)
    [] f.type \in {"command", "utterance_end", "meta_mode"} -> TurnToken(f.body.turn_token)
    [] OTHER -> ReceiptOK(f.body)

Restricted(f, fields) == Frame(f.type, [x \in fields |-> f.body[x]])

\* ControlMsg::parse; the message it returns has no field that was null.
RustReads(f) ==
  IF /\ f.type \in DOMAIN ControlFields
     /\ \A x \in ControlFields[f.type] : Typed(f, x)
     /\ Accepted(f)
  THEN Restricted(f, {x \in ControlFields[f.type] : Has(f, x) /\ f.body[x] # Null})
  ELSE Refused

-----------------------------------------------------------------------------
(* The bridge's parser: protocol.ts *)

IsNumber(v) == v.kind \in {"int", "real"}

\* JSON.parse: a double; beyond MaxSafe + 1 every second integer is lost.
Double(n) == IF n > MaxSafe + 1 THEN n - (n % 2) ELSE n

\* Wrong on purpose: any whole number will do.
SafeWhole(n) == n >= 0

\* isValidReceiptSequence, Number.isSafeInteger
Safe(n) == n >= 0 /\ n <= MaxSafe

\* A number written n.0 is n.
NodeSequence(v) == IsNumber(v) /\ v.whole /\ Safe(Double(v.n))

WellFormed(s) == "lone" \notin s.kinds
NodeLaneId(v) == IsText(v) /\ LaneId(v)
NodeOpaqueId(v) == IsText(v) /\ OpaqueId(v) /\ WellFormed(v)
NodeTurnToken(v) == IsText(v) /\ v.units \in 1..128 /\ WellFormed(v) /\ ~Blank(v)
NodeInstallationId(v) ==
  IsText(v) /\ v.units \in 1..128 /\ WellFormed(v) /\ ~Blank(v) /\ ~Controls(v)

\* A field that is not there is undefined.
Undefined == [kind |-> "undefined"]
Field(f, x) == IF Has(f, x) THEN f.body[x] ELSE Undefined

NodeAccepts(f) ==
  LET v(x) == Field(f, x)
  IN  CASE f.type = "hello" ->
             /\ IsText(v("device")) /\ NodeInstallationId(v("installation_id"))
             /\ v("token") = Undefined \/ IsText(v("token"))
        [] f.type = "command" ->
             /\ IsText(v("command")) /\ v("command").name \in Commands
             /\ NodeTurnToken(v("turn_token"))
        [] f.type \in {"utterance_end", "meta_mode"} -> NodeTurnToken(v("turn_token"))
        [] f.type = "lane" ->
             /\ NodeLaneId(v("id")) /\ NodeTurnToken(v("turn_token"))
             /\ v("revision") = Undefined \/ NodeSequence(v("revision"))
        [] OTHER ->
             /\ NodeLaneId(v("lane_id")) /\ NodeOpaqueId(v("reply_to"))
             /\ NodeTurnToken(v("turn_token")) /\ NodeOpaqueId(v("interaction_id"))
             /\ NodeSequence(v("after_seq")) /\ NodeSequence(v("through_seq"))
             /\ Double(v("through_seq").n) > Double(v("after_seq").n)

\* parseControl
NodeReads(f) ==
  IF f.type \in DOMAIN ControlFields /\ NodeAccepts(f)
  THEN Frame(f.type,
         [x \in ControlFields[f.type] \cap DOMAIN f.body |->
            IF IsNumber(f.body[x])
            THEN [kind |-> "int", n |-> Double(f.body[x].n), whole |-> TRUE]
            ELSE f.body[x]])
  ELSE Refused

-----------------------------------------------------------------------------
(* The handset: Protocol.kt *)

MaxReplyBytes == 512 * 1024

Bounded(v, most) == IsText(v) /\ WellFormed(v) /\ v.bytes <= most

\* parseSafeSequence: a number with a fraction is none, though it be zero.
HandsetSequence(v) == IsInt(v) /\ v.n \in 0..MaxSafe

HandsetDelivery(f) ==
  LET v(x) == Field(f, x)
  IN  /\ NodeLaneId(v("lane_id")) /\ NodeOpaqueId(v("reply_to"))
      /\ HandsetSequence(v("after_seq")) /\ HandsetSequence(v("through_seq"))
      /\ v("through_seq").n > v("after_seq").n

HandsetTurn(f) ==
  NodeTurnToken(Field(f, "turn_token")) /\ NodeOpaqueId(Field(f, "interaction_id"))

Phases == {"listening", "capturing", "processing"}

\* parseConfidence
Probable(v) == v.n = 0 \/ (v.n = 1 /\ v.whole)

HandsetAccepts(f) ==
  LET v(x) == Field(f, x)
  IN  CASE f.type = "stt" ->
             /\ HandsetTurn(f) /\ Bounded(v("text"), MaxReplyBytes)
             /\ Has(f, "repo") =>
                  Bounded(v("repo"), 1024) /\ v("repo").units > 0 /\ ~Blank(v("repo"))
             /\ Has(f, "confidence") => IsNumber(v("confidence")) /\ Probable(v("confidence"))
        [] f.type = "agent_delta" -> HandsetTurn(f) /\ Bounded(v("text"), MaxReplyBytes)
        [] f.type = "agent_end" ->
             /\ HandsetTurn(f) /\ Bounded(v("text"), MaxReplyBytes)
             /\ (\E x \in Delivery : Has(f, x)) => HandsetDelivery(f)
        [] f.type \in {"reply_received", "reply_acknowledged", "reply_ack_retired"} ->
             HandsetTurn(f) /\ HandsetDelivery(f)
        [] f.type = "error" -> Bounded(v("message"), 4096) /\ v("message").units > 0
        [] f.type = "phase" -> IsText(v("value")) /\ v("value").name \in Phases
        [] OTHER -> f.type \in {"ready", "listening"}

\* ServerMsg.parse
HandsetReads(f) == IF HandsetAccepts(f) THEN f ELSE Refused

\* The require clauses of ClientHello and ClientCommand.toJson.
HandsetWrites(f) ==
  CASE f.type = "hello" -> NodeInstallationId(f.body.installation_id)
    [] f.type \in {"command", "utterance_end", "meta_mode"} -> NodeTurnToken(f.body.turn_token)
    [] f.type = "lane" ->
         /\ NodeLaneId(f.body.id) /\ NodeTurnToken(f.body.turn_token)
         /\ Has(f, "revision") => HandsetSequence(f.body.revision)
    [] OTHER -> HandsetTurn(f) /\ HandsetDelivery(f)

\* What its commands can hold: whole numbers and strings.
HandsetHolds(x, v) ==
  CASE v = None -> x \in {"token", "revision"}
    [] x \in {"after_seq", "through_seq", "revision"} -> IsInt(v)
    [] x = "command" -> IsText(v) /\ v.name \in Commands
    [] OTHER -> IsText(v) /\ (x \in {"device", "token"} => WellFormed(v))

\* The command that confirms a reply, a receipt and a consumption.
Answers == [agent_end |-> "reply_received", reply_received |-> "reply_ack",
            reply_acknowledged |-> "reply_ack_retire"]

-----------------------------------------------------------------------------
(* The bridge's writer: index.ts.  It validates no frame; what a field can *)
(* hold was checked where the value came from.                             *)

\* Wrong on purpose: a reply need not be later than what was read before it.
BoundToAny(body) ==
  /\ NodeLaneId(body.lane_id) /\ NodeOpaqueId(body.reply_to)
  /\ IsInt(body.after_seq) /\ Safe(body.after_seq.n)
  /\ IsInt(body.through_seq) /\ Safe(body.through_seq.n)

\* deliverAndWaitWithReceipt: the delivery that a reply is bound to.
Bound(body) ==
  /\ NodeLaneId(body.lane_id) /\ NodeOpaqueId(body.reply_to)
  /\ IsInt(body.after_seq) /\ Safe(body.after_seq.n)
  /\ IsInt(body.through_seq) /\ Safe(body.through_seq.n)
  /\ body.through_seq.n > body.after_seq.n

\* The other fields: a token the handset sent, a text within the limit of
\* provider-response.ts or reply-text.ts that may hold half a pair, a confidence
\* transcriber.ts took for one, TELEPATHOS_REPO as it is, a sentence of index.ts.
BridgeHolds(x, v) ==
  CASE v = None -> x \in {"confidence", "repo"}
    [] x = "turn_token" -> NodeTurnToken(v)
    [] x = "interaction_id" -> IsText(v)
    [] x = "text" -> IsText(v) /\ v.bytes <= MaxReplyBytes
    [] x = "confidence" -> IsNumber(v) /\ Probable(v)
    [] x = "repo" -> IsText(v) /\ WellFormed(v) /\ v.units > 0
    [] x = "message" -> IsText(v) /\ WellFormed(v) /\ v.bytes \in 1..256
    [] x = "value" -> IsText(v) /\ v.name \in Phases
    [] x = "samples" -> IsInt(v) /\ v.n >= 0
    [] OTHER -> TRUE

\* chunks: every 80 units, which may part the two units of a pair.
ChunkUnits == 80
Chunks(t) ==
  LET Piece(n, kinds) == [t EXCEPT !.units = n, !.bytes = (n * t.bytes) \div t.units,
                                   !.kinds = kinds]
      torn == IF "pair" \in t.kinds THEN t.kinds \cup {"lone"} ELSE t.kinds
  IN  IF t.units <= ChunkUnits THEN {u \in {t} : u.units > 0}
      ELSE {Piece(n, kinds) : n \in {ChunkUnits, t.units % ChunkUnits} \ {0},
                              kinds \in {t.kinds, torn}}

Present(type, body) == Frame(type, [x \in {y \in DOMAIN body : body[y] # None} |-> body[x]])

\* JSON.stringify leaves out what is undefined; a reply is streamed in chunks.
Written(type, body) ==
  IF type = "agent_delta"
  THEN {Present(type, [body EXCEPT !.text = piece]) : piece \in Chunks(body.text)}
  ELSE {Present(type, body)}

\* The confirmation of each command of a receipt.
Confirmations == [reply_received |-> "reply_received", reply_ack |-> "reply_acknowledged",
                  reply_ack_retire |-> "reply_ack_retired"]

-----------------------------------------------------------------------------
(* Exchanges.  Bodies differ from the good one in at most two fields. *)

Bodies(fields) ==
  LET good == [x \in fields |-> Good[x]]
      Some == Values \cup {None}
  IN  {good} \cup {[good EXCEPT ![x] = v, ![y] = w] : x, y \in fields, v, w \in Some}

\* send: it checks but two of the ids, and writes.
Emit(type, body) ==
  /\ \A x \in DOMAIN body : BridgeHolds(x, body[x])
  /\ Delivery \subseteq DOMAIN body => Bound(body)
  /\ \A x \in {"interaction_id", "reply_to"} \cap DOMAIN body : NodeOpaqueId(body[x])
  /\ step' = "sent" /\ frame' \in Written(type, body) /\ message' = frame'
  /\ UNCHANGED <<heard, own, rust, node>>

Hear ==
  /\ step = "sent"
  /\ step' = "heard" /\ heard' = HandsetReads(frame)
  /\ UNCHANGED <<message, frame, own, rust, node>>

\* The handset confirms what it heard with the same receipt, of a reply it holds.
Confirm ==
  /\ step = "heard" /\ heard.type \in DOMAIN Answers /\ Has(heard, "lane_id")
  /\ message # Refused
  /\ step' = "control" /\ own' = TRUE
  /\ frame' = Frame(Answers[heard.type], [x \in Receipt |-> heard.body[x]])
  /\ UNCHANGED <<message, heard, rust, node>>

\* It writes a command of its own.
Command(type, body) ==
  /\ \A x \in DOMAIN body : HandsetHolds(x, body[x])
  /\ HandsetWrites(Present(type, body))
  /\ step' = "control" /\ own' = TRUE /\ frame' = Present(type, body)
  /\ UNCHANGED <<message, heard, rust, node>>

\* Another client, or another version of it, writes any frame.
Foreign(type, body) ==
  /\ step' = "control" /\ own' = FALSE /\ frame' = Present(type, body)
  /\ UNCHANGED <<message, heard, rust, node>>

Parse ==
  /\ step = "control"
  /\ step' = "read" /\ rust' = RustReads(frame) /\ node' = NodeReads(frame)
  /\ UNCHANGED <<message, frame, heard, own>>

\* The bridge confirms a receipt: sendAcknowledgement writes back the one it read,
\* unchecked, or its own record of it, which is the same.
Answer ==
  /\ step = "read" /\ node.type \in DOMAIN Confirmations
  /\ step' = "sent" /\ frame' = Frame(Confirmations[node.type], node.body)
  /\ UNCHANGED <<message, heard, own, rust, node>>

Init ==
  /\ step = "idle" /\ message = Refused /\ frame = Refused /\ heard = Refused
  /\ own = FALSE /\ rust = Refused /\ node = Refused

Next ==
  \/ /\ step = "idle"
     /\ \/ \E form \in ServerForms : \E body \in Bodies(form.fields) : Emit(form.type, body)
        \/ \E type \in DOMAIN ControlFields :
             \E body \in Bodies(ControlFields[type]) : Command(type, body) \/ Foreign(type, body)
  \/ Hear \/ Confirm \/ Parse \/ Answer

Spec == Init /\ [][Next]_vars

-----------------------------------------------------------------------------
(* Safety *)

\* Whatever the handset writes, on its own or to confirm a reply it heard, the
\* bridge's parser and telepathos-proto both read, and read as it was written.
OwnIsUnderstood ==
  step = "read" /\ own => rust = frame /\ node = frame

\* What the handset's parser drops, by design or not: the two frames it has no
\* case for, half a surrogate pair, and a TELEPATHOS_REPO blank or too long.
Dropped(f) ==
  \/ f.type \in {"speech_start", "utterance"}
  \/ \E x \in DOMAIN f.body : IsText(f.body[x]) /\ ~WellFormed(f.body[x])
  \/ Has(f, "repo") /\ (f.body.repo.bytes > 1024 \/ Blank(f.body.repo))

\* Of what the bridge writes unvalidated the handset drops that and nothing else,
\* and reads the rest as it was written: every reply and every confirmation,
\* also of a receipt that another client sent.
BridgeIsUnderstood ==
  step = "heard" => heard = IF Dropped(frame) THEN Refused ELSE frame

\* The receipt of a reply comes back unchanged in every command and confirmation.
ReceiptReturns ==
  message # Refused /\ Has(message, "lane_id") =>
    \A x \in Receipt : frame.body[x] = message.body[x]

\* The two ends of the phone's socket understand what the other writes for them,
\* but for the frames named, through all the confirmations of a reply.
TalkIsUnderstood == OwnIsUnderstood /\ BridgeIsUnderstood /\ ReceiptReturns

\* A sequence or revision that a codec accepts is the one that was written: none
\* is rounded on the way, and none could be later.
NothingRounded ==
  step = "read" =>
    \A r \in {rust, node} \ {Refused} : \A x \in DOMAIN r.body :
      IsInt(r.body[x]) => r.body[x].n = frame.body[x].n /\ r.body[x].n \in 0..MaxSafe

\* protocol/vectors.json: the implementations classify every frame identically,
\* and read it alike.  They do, of the frames modelled, but for three forms that
\* neither writes: an option that is null, a whole number with a fraction, and
\* half a surrogate pair.  (Forms of JSON outside the model part them too: -0, a
\* key given twice, an array for an object.)
CommonForm(v) ==
  v.kind # "null" /\ (IsNumber(v) => IsInt(v)) /\ (IsText(v) => WellFormed(v))
Lockstep ==
  step = "read" /\ (\A x \in DOMAIN frame.body : CommonForm(frame.body[x]))
    => rust = node
=============================================================================
