--------------------------- MODULE KeyboardProofs ---------------------------
(* What the decoder makes of a key that finds it at rest, for any set of   *)
(* the keys, a line of any length and any number of keys held.             *)
EXTENDS Keyboard, SequenceTheorems, TLAPS

Stroke == [key : Known \cup {"PAUSE", "PRINTSCREEN", "LESS", "GUI"}, pressed : BOOLEAN]

Types ==
    /\ KEY_PRESS_TABLE \subseteq Key
    /\ lbLen \in 0 .. LINE_SIZE - 1
    /\ length \in 0 .. 3 /\ pressed \in BOOLEAN /\ timesToIgnore \in 0 .. 7
    /\ down \subseteq Struck \ {"PAUSE"} /\ crossed \subseteq down
    /\ callback \in BOOLEAN /\ rested \in BOOLEAN /\ inStep \in BOOLEAN
    /\ stroke \in Stroke
    /\ wire \in Seq(0 .. 255)
    /\ heard \in Seq([key : Key, pressed : BOOLEAN])

(* The bytes of the stroke that are still to come; an answer may be before *)
(* them.                                                                   *)
Ahead == IF wire # <<>> /\ Head(wire) \in Responses THEN Tail(wire) ELSE wire

Clean ==
    /\ wire # <<>> => Ahead # <<>>
    /\ \A i \in 1 .. Len(Ahead) : Ahead[i] \notin Responses

DecoderAt(n, p, i) == length = n /\ pressed = p /\ timesToIgnore = i

Prefixes(k) == IF k \in Extended THEN 1 ELSE 0

(* Where the decoder is before the byte that ends the stroke of a key with *)
(* a code of its own, of PRINTSCREEN and of PAUSE.                         *)
CodeAhead(k, d) ==
    /\ k \in DOMAIN Code
    /\ \/ k \in Extended /\ Ahead = Bytes(k, d) /\ DecoderAt(0, TRUE, 0)
       \/ ~d /\ Ahead = <<F0, Code[k]>> /\ DecoderAt(Prefixes(k), TRUE, 0)
       \/ d /\ Ahead = <<Code[k]>> /\ DecoderAt(Prefixes(k), TRUE, 0)
       \/ ~d /\ Ahead = <<Code[k]>> /\ DecoderAt(Prefixes(k) + 1, FALSE, 0)

ScreenAhead(d) ==
    \/ d /\ Ahead = <<E0, 18, E0, 124>> /\ DecoderAt(0, TRUE, 0)
    \/ d /\ Ahead = <<18, E0, 124>> /\ DecoderAt(1, TRUE, 0)
    \/ ~d /\ Ahead = <<E0, F0, 124, E0, F0, 18>> /\ DecoderAt(0, TRUE, 0)
    \/ ~d /\ Ahead = <<F0, 124, E0, F0, 18>> /\ DecoderAt(1, TRUE, 0)
    \/ ~d /\ Ahead = <<124, E0, F0, 18>> /\ DecoderAt(2, FALSE, 0)

PauseAhead == Ahead = <<E1, 20, 119, E1, F0, 20, F0, 119>> /\ DecoderAt(0, TRUE, 0)

(* The values the table should have. *)
Shown == {VK(k) : k \in down \ crossed} \cap Key

(* Nothing was made of the stroke yet. *)
Untold ==
    /\ \/ CodeAhead(stroke.key, stroke.pressed)
       \/ stroke.key = "PRINTSCREEN" /\ ScreenAhead(stroke.pressed)
       \/ stroke.key = "PAUSE" /\ PauseAhead
    /\ rested => heard = <<>>
    /\ inStep => KEY_PRESS_TABLE \ {VK(stroke.key)} = Shown \ {VK(stroke.key)}

(* All was made of it that will be. *)
Done ==
    /\ rested => heard = Expected(stroke)
    /\ inStep => KEY_PRESS_TABLE = Shown

(* What is left of it will be ignored. *)
Told == timesToIgnore = Len(Ahead) /\ Done

(* The inductive invariant. *)
Inv ==
    /\ Types /\ Clean
    /\ rested => callback
    /\ wire # <<>> =>
          (VK(stroke.key) \in Shown <=> stroke.pressed /\ stroke.key \notin {"PAUSE", "LESS", "GUI"})
    /\ (rested \/ inStep) /\ wire # <<>> => Untold \/ Told
    /\ wire = <<>> => Done

LEMMA Kept == ASSUME UNCHANGED user PROVE Shown' = Shown
  BY DEF Shown, user
----------------------------------------------------------------------------
(* The keys and their codes. *)

LEMMA Codes ==
    /\ DOMAIN Code = Known \cup {"LESS", "GUI"}
    /\ \A k \in DOMAIN Code : Code[k] \in 0 .. 255 /\ Code[k] \notin Responses \cup {E0, E1, F0}
    /\ \A k \in Extended : Code[k] \notin {18, 124}
    /\ \A k \in Known : /\ Code[k] \in DOMAIN SCANCODE_TO_KEY_TABLE
                        /\ SCANCODE_TO_KEY_TABLE[Code[k]] = VK(k)
    /\ \A k \in {"LESS", "GUI"} : Code[k] \notin DOMAIN SCANCODE_TO_KEY_TABLE
<1>1. DOMAIN Code = Known \cup {"LESS", "GUI"}
  BY DEF Code, Known
<1>2. \A k \in DOMAIN Code : Code[k] \in 0 .. 255 /\ Code[k] \notin Responses \cup {E0, E1, F0}
  BY <1>1 DEF Code, Known, Responses, E0, E1, F0
<1>3. \A k \in Known : /\ Code[k] \in DOMAIN SCANCODE_TO_KEY_TABLE
                        /\ SCANCODE_TO_KEY_TABLE[Code[k]] = VK(k)
  BY DEF Code, Known, SCANCODE_TO_KEY_TABLE, VK
<1> QED  BY <1>1, <1>2, <1>3 DEF Code, Extended, SCANCODE_TO_KEY_TABLE

LEMMA TableKeys ==
    \A code \in DOMAIN SCANCODE_TO_KEY_TABLE : SCANCODE_TO_KEY_TABLE[code] \in Key \ {"PAUSE", "PRINTSCREEN"}
  BY DEF SCANCODE_TO_KEY_TABLE, Key

(* The value of a key is one of the driver's if the key is, and no key has *)
(* the value of PAUSE or of PRINTSCREEN but these.                         *)
LEMMA Values ==
    ASSUME NEW k \in Known \cup {"PAUSE", "PRINTSCREEN", "LESS", "GUI"}
    PROVE  /\ VK(k) \in Key <=> k \notin {"LESS", "GUI"}
           /\ \A p \in {"PAUSE", "PRINTSCREEN"} : VK(k) = p <=> k = p
  BY DEF VK, Key, Known

(* What a stroke sends. *)
LEMMA Sent ==
    ASSUME NEW k \in Known \cup {"PAUSE", "PRINTSCREEN", "LESS", "GUI"}, NEW d \in BOOLEAN
    PROVE  /\ Bytes(k, d) \in Seq(0 .. 255) /\ Bytes(k, d) # <<>>
           /\ \A i \in 1 .. Len(Bytes(k, d)) : Bytes(k, d)[i] \notin Responses
           /\ k \in DOMAIN Code \/ k = "PRINTSCREEN" \/ k = "PAUSE"
           /\ k \in DOMAIN Code /\ k \notin Extended =>
                 Bytes(k, d) = IF d THEN <<Code[k]>> ELSE <<F0, Code[k]>>
<1>1. k \in DOMAIN Code \/ k = "PRINTSCREEN" \/ k = "PAUSE"
  BY Codes DEF Key
<1> DEFINE Byte == (0 .. 255) \ Responses
<1>2. \A w \in Seq(Byte) :
         w \in Seq(0 .. 255) /\ \A i \in 1 .. Len(w) : w[i] \notin Responses
  <2>1. Seq(Byte) \subseteq Seq(0 .. 255)
    OBVIOUS
  <2> QED  BY <2>1
<1>3. /\ E0 \in Byte /\ E1 \in Byte /\ F0 \in Byte
      /\ 18 \in Byte /\ 20 \in Byte /\ 119 \in Byte /\ 124 \in Byte
  BY DEF E0, E1, F0, Responses
<1>4. k \in DOMAIN Code => Code[k] \in Byte
  BY Codes
<1> HIDE DEF Byte
<1>5. CASE k = "PAUSE"
  <2>1. k \notin DOMAIN Code
    BY <1>5, Codes DEF Known
  <2>2. Bytes(k, d) = <<E1, 20, 119, E1, F0, 20, F0, 119>>
    BY <1>5 DEF Bytes, Extended
  <2>3. Bytes(k, d) \in Seq(Byte) /\ Bytes(k, d) # <<>>
    BY <1>3, <2>2
  <2> QED  BY <1>2, <1>5, <2>1, <2>3
<1>6. CASE k = "PRINTSCREEN"
  <2>1. k \notin DOMAIN Code
    BY <1>6, Codes DEF Known
  <2>2. Bytes(k, d) = IF d THEN <<E0, 18, E0, 124>> ELSE <<E0, F0, 124, E0, F0, 18>>
    BY <1>6 DEF Bytes, Extended
  <2>3. Bytes(k, d) \in Seq(Byte) /\ Bytes(k, d) # <<>>
    BY <1>3, <2>2
  <2> QED  BY <1>2, <1>6, <2>1, <2>3
<1>7. CASE k \in DOMAIN Code
  <2>1. k # "PAUSE" /\ k # "PRINTSCREEN"
    BY <1>7, Codes DEF Known
  <2>2. Bytes(k, d) = IF k \in Extended THEN IF d THEN <<E0, Code[k]>> ELSE <<E0, F0, Code[k]>>
                                        ELSE IF d THEN <<Code[k]>> ELSE <<F0, Code[k]>>
    BY <2>1 DEF Bytes
  <2>3. Bytes(k, d) \in Seq(Byte) /\ Bytes(k, d) # <<>>
    BY <1>3, <1>4, <1>7, <2>2
  <2> QED  BY <1>1, <1>2, <2>2, <2>3
<1> QED  BY <1>1, <1>5, <1>6, <1>7

----------------------------------------------------------------------------
(* The bytes that are ahead. *)

(* A byte that is no answer is the next of the stroke. *)
LEMMA Taking ==
    ASSUME Inv, Taken, Next1 \notin Responses
    PROVE  /\ Ahead = wire /\ Ahead' = wire' /\ wire' = Tail(Ahead) /\ Head(Ahead) = Next1
           /\ wire # <<>> /\ wire' \in Seq(0 .. 255) /\ Clean'
           /\ Len(Ahead) \in Nat \ {0} /\ Len(wire') = Len(Ahead) - 1
<1>1. wire \in Seq(0 .. 255) /\ wire # <<>> /\ wire' = Tail(wire)
  BY DEF Inv, Types, Taken
<1>2. Ahead = wire
  BY DEF Ahead, Next1
<1>3. wire' \in Seq(0 .. 255) /\ Len(wire) \in Nat \ {0} /\ Len(wire') = Len(wire) - 1
  BY <1>1
<1>4. \A i \in 1 .. Len(wire') : wire'[i] \notin Responses
  <2>1. \A i \in 1 .. Len(wire') : wire'[i] = wire[i + 1] /\ i + 1 \in 1 .. Len(wire)
    BY <1>1, <1>3
  <2> QED  BY <1>2, <2>1 DEF Inv, Clean
<1>5. wire' # <<>> => Head(wire') \notin Responses
  <2>1. wire' # <<>> => Head(wire') = wire'[1] /\ 1 \in 1 .. Len(wire')
    BY <1>3
  <2> QED  BY <1>4, <2>1
<1>6. Ahead' = wire'
  BY <1>5 DEF Ahead
<1>7. Clean'
  BY <1>4, <1>6 DEF Clean
<1> QED  BY <1>1, <1>2, <1>3, <1>6, <1>7 DEF Next1

(* Bytes that are ignored before the next stroke begins, or nothing left.  *)
LEMMA DoneInv ==
    ASSUME Inv, Types', Clean', UNCHANGED <<callback, user>>,
           (rested \/ inStep) /\ wire' # <<>> => Told', wire' = <<>> => Done', wire # <<>>
    PROVE  Inv'
  BY Kept DEF Inv, user

LEMMA UntoldInv ==
    ASSUME Inv, Types', Clean', UNCHANGED <<callback, user>>, wire # <<>>, wire' # <<>>,
           (rested \/ inStep) => Untold'
    PROVE  Inv'
  BY Kept DEF Inv, user

(* A key makes its character, and a full line begins again. *)
LEMMA Line ==
    ASSUME lbLen \in 0 .. LINE_SIZE - 1, NEW k \in Key
    PROVE  EndLine(k, lbLen + Typed(k)) \in 0 .. LINE_SIZE - 1
  BY KeyboardAssumption DEF EndLine, Typed

LEMMA SetTypes ==
    ASSUME Types, NEW k \in Key, setPressed(k)
    PROVE  KEY_PRESS_TABLE' \subseteq Key /\ lbLen' \in 0 .. LINE_SIZE - 1
  BY Line DEF setPressed, Press, Release, Types

LEMMA TellTypes ==
    ASSUME Types, NEW events \in Seq([key : Key, pressed : BOOLEAN]), Tell(events)
    PROVE  /\ heard' \in Seq([key : Key, pressed : BOOLEAN])
           /\ heard = <<>> /\ callback => heard' = events
<1>1. heard \o events \in Seq([key : Key, pressed : BOOLEAN])
  BY ConcatProperties DEF Types
<1>2. <<>> \o events = events
  BY ConcatEmptySeq
<1> QED  BY <1>1, <1>2 DEF Types, Tell

----------------------------------------------------------------------------
(* The steps. *)

LEMMA InitInv == Init => Inv
<1> SUFFICES ASSUME Init PROVE Inv
  OBVIOUS
<1>1. Types
  <2>1. 0 \in 0 .. LINE_SIZE - 1
    BY KeyboardAssumption
  <2>2. stroke \in Stroke /\ wire \in Seq(0 .. 255) /\ heard \in Seq([key : Key, pressed : BOOLEAN])
    BY DEF Init, Stroke, Event
  <2>3. KEY_PRESS_TABLE \subseteq Key /\ down \subseteq Struck \ {"PAUSE"} /\ crossed \subseteq down
        /\ callback \in BOOLEAN /\ rested \in BOOLEAN /\ inStep \in BOOLEAN /\ pressed \in BOOLEAN
    BY DEF Init
  <2>4. lbLen \in 0 .. LINE_SIZE - 1 /\ length \in 0 .. 3 /\ timesToIgnore \in 0 .. 7
    BY <2>1 DEF Init
  <2> QED  BY <2>2, <2>3, <2>4 DEF Types
<1>2. Ahead = <<>> /\ Clean
  BY DEF Init, Ahead, Clean
<1>3. Shown = {}
  BY DEF Init, Shown
<1> QED  BY <1>1, <1>2, <1>3 DEF Init, Inv, Done

LEMMA ResponseInv == ASSUME Inv, Response PROVE Inv'
<1>1. wire \in Seq(0 .. 255) /\ wire # <<>> /\ wire' = Tail(wire) /\ Ahead = wire'
      /\ wire' \in Seq(0 .. 255)
  BY DEF Response, Taken, Inv, Types, Ahead, Next1
<1>2. wire' # <<>> /\ \A i \in 1 .. Len(wire') : wire'[i] \notin Responses
  BY <1>1 DEF Inv, Clean
<1>3. Ahead' = Ahead
  <2>1. Head(wire') = wire'[1] /\ 1 \in 1 .. Len(wire')
    BY <1>1, <1>2
  <2> QED  BY <1>1, <1>2, <2>1 DEF Ahead
<1>4. UNCHANGED <<driver, callback, decoder, user, heard>>
  BY DEF Response
<1>5. Types' /\ Clean'
  BY <1>1, <1>2, <1>3, <1>4 DEF Inv, Types, Clean, driver, decoder, user
<1>6. (Untold => Untold') /\ (Told => Told')
  <2>1. UNCHANGED user
    BY <1>4
  <2> QED
    BY <1>3, <1>4, <2>1, Kept
       DEF Untold, Told, Done, CodeAhead, ScreenAhead, PauseAhead, DecoderAt, driver, decoder, user
<1> QED  BY <1>1, <1>2, <1>4, <1>5, <1>6, Kept DEF Inv, user

LEMMA RespondInv == ASSUME Inv, Respond PROVE Inv'
<1>1. wire \in Seq(0 .. 255) /\ wire # <<>> /\ wire' = <<250>> \o wire /\ Head(wire) \notin Responses
  BY DEF Respond, Inv, Types, Next1
<1>2. wire' \in Seq(0 .. 255) /\ wire' # <<>> /\ Head(wire') = 250 /\ Tail(wire') = wire
  <2>1. <<250>> \in Seq(0 .. 255)
    OBVIOUS
  <2>2. wire' \in Seq(0 .. 255)
    BY <1>1, <2>1, ConcatProperties
  <2> QED  BY <1>1, <2>2
<1>3. Ahead = wire /\ Ahead' = wire
  BY <1>1, <1>2 DEF Ahead, Responses
<1>4. UNCHANGED <<driver, callback, decoder, user, heard>>
  BY DEF Respond
<1>5. Types' /\ Clean'
  BY <1>1, <1>2, <1>3, <1>4 DEF Inv, Types, Clean, driver, decoder, user
<1>6. (Untold => Untold') /\ (Told => Told')
  <2>1. UNCHANGED user
    BY <1>4
  <2> QED
    BY <1>3, <1>4, <2>1, Kept
       DEF Untold, Told, Done, CodeAhead, ScreenAhead, PauseAhead, DecoderAt, driver, decoder, user
<1> QED  BY <1>1, <1>2, <1>4, <1>5, <1>6, Kept DEF Inv, user

LEMMA IgnoreInv == ASSUME Inv, Ignore PROVE Inv'
<1>1. /\ Taken /\ Next1 \notin Responses /\ timesToIgnore > 0
      /\ timesToIgnore' = timesToIgnore - 1 /\ length' = Longer
      /\ UNCHANGED <<driver, callback, pressed, user, heard>>
  BY DEF Ignore
<1>2. Types'
  BY <1>1, Taking DEF Inv, Types, Longer, driver, user
<1>3. ~Untold
  BY <1>1 DEF Untold, CodeAhead, ScreenAhead, PauseAhead, DecoderAt
<1>4. Told => timesToIgnore' = Len(wire') /\ Done'
  BY <1>1, Taking, Kept DEF Told, Done, driver, user
<1>5. Told => Told'
  BY <1>4, <1>1, Taking DEF Told
<1>6. (rested \/ inStep) /\ wire' # <<>> => Told'
  BY <1>1, <1>3, <1>5, Taking DEF Inv
<1>7. Done'
  BY <1>1, <1>3, <1>4, Taking DEF Inv, Done, user
<1> QED  BY <1>1, <1>2, <1>6, <1>7, Taking, DoneInv DEF user

(* A byte that begins or continues a sequence is not one to be ignored.    *)
LEMMA Beginning ==
    ASSUME Inv, Begins, rested \/ inStep
    PROVE  Untold /\ heard \in Seq([key : Key, pressed : BOOLEAN])
<1>1. ~Told
  BY Taking DEF Begins, Told
<1> QED  BY <1>1, Taking DEF Inv, Begins, Types

(* The byte that is read, in each place of each stroke, and what is left.  *)
ExtendedAt0(k, d) ==
    /\ k \in Extended /\ Next1 = E0 /\ DecoderAt(0, TRUE, 0)
    /\ wire' = IF d THEN <<Code[k]>> ELSE <<F0, Code[k]>>

ReleaseAtF0(k, d) ==
    k \in DOMAIN Code /\ ~d /\ Next1 = F0 /\ DecoderAt(Prefixes(k), TRUE, 0) /\ wire' = <<Code[k]>>

CodeAtEnd(k, d) ==
    /\ k \in DOMAIN Code /\ Next1 = Code[k] /\ wire' = <<>>
    /\ DecoderAt(IF d THEN Prefixes(k) ELSE Prefixes(k) + 1, d, 0)

ScreenAt0(k, d) ==
    /\ k = "PRINTSCREEN" /\ Next1 = E0 /\ DecoderAt(0, TRUE, 0)
    /\ wire' = IF d THEN <<18, E0, 124>> ELSE <<F0, 124, E0, F0, 18>>

ScreenAtF0(k, d) ==
    k = "PRINTSCREEN" /\ ~d /\ Next1 = F0 /\ DecoderAt(1, TRUE, 0) /\ wire' = <<124, E0, F0, 18>>

ScreenAt18(k, d) ==
    k = "PRINTSCREEN" /\ d /\ Next1 = 18 /\ DecoderAt(1, TRUE, 0) /\ wire' = <<E0, 124>>

ScreenAt124(k, d) ==
    k = "PRINTSCREEN" /\ ~d /\ Next1 = 124 /\ DecoderAt(2, FALSE, 0) /\ wire' = <<E0, F0, 18>>

PauseAtE1(k) ==
    /\ k = "PAUSE" /\ Next1 = E1 /\ DecoderAt(0, TRUE, 0)
    /\ wire' = <<20, 119, E1, F0, 20, F0, 119>>

LEMMA Places ==
    ASSUME Inv, Begins, rested \/ inStep, NEW k, k = stroke.key, NEW d, d = stroke.pressed
    PROVE  \/ ExtendedAt0(k, d) \/ ReleaseAtF0(k, d) \/ CodeAtEnd(k, d)
           \/ ScreenAt0(k, d) \/ ScreenAtF0(k, d) \/ ScreenAt18(k, d) \/ ScreenAt124(k, d)
           \/ PauseAtE1(k)
<1>1. /\ Untold /\ Next1 = Head(Ahead) /\ wire' = Tail(Ahead) /\ d \in BOOLEAN
      /\ k \in Known \cup {"PAUSE", "PRINTSCREEN", "LESS", "GUI"}
  BY Beginning, Taking DEF Begins, Inv, Types, Stroke
<1>2. CASE CodeAhead(k, d)
  <2>1. CASE k \in Extended /\ Ahead = Bytes(k, d) /\ DecoderAt(0, TRUE, 0)
    <3>1. Ahead = IF d THEN <<E0, Code[k]>> ELSE <<E0, F0, Code[k]>>
      BY <2>1 DEF Bytes, Extended
    <3>2. Next1 = E0 /\ wire' = IF d THEN <<Code[k]>> ELSE <<F0, Code[k]>>
      BY <1>1, <3>1
    <3> QED  BY <2>1, <3>2 DEF ExtendedAt0
  <2>2. CASE ~d /\ Ahead = <<F0, Code[k]>> /\ DecoderAt(Prefixes(k), TRUE, 0)
    <3>1. Next1 = F0 /\ wire' = <<Code[k]>>
      BY <1>1, <2>2
    <3> QED  BY <1>2, <2>2, <3>1 DEF CodeAhead, ReleaseAtF0
  <2>3. CASE Ahead = <<Code[k]>>
    <3>1. k \in DOMAIN Code /\ Next1 = Code[k] /\ wire' = <<>> /\ Code[k] # F0 /\ Code[k] # E0
      BY <1>1, <1>2, <2>3, Codes DEF CodeAhead
    <3>2. Ahead # <<F0, Code[k]>> /\ Ahead # <<E0, Code[k]>> /\ Ahead # <<E0, F0, Code[k]>>
      BY <2>3
    <3>3. \/ d /\ DecoderAt(Prefixes(k), TRUE, 0)
          \/ ~d /\ DecoderAt(Prefixes(k) + 1, FALSE, 0)
      BY <1>2, <3>2 DEF CodeAhead, Bytes, Extended
    <3> QED  BY <1>1, <3>1, <3>3 DEF CodeAtEnd, DecoderAt
  <2> QED  BY <1>2, <2>1, <2>2, <2>3 DEF CodeAhead
<1>3. CASE k = "PRINTSCREEN" /\ ScreenAhead(d)
  <2>1. CASE d /\ Ahead = <<E0, 18, E0, 124>> /\ DecoderAt(0, TRUE, 0)
    <3>1. Next1 = E0 /\ wire' = <<18, E0, 124>>
      BY <1>1, <2>1
    <3> QED  BY <1>3, <2>1, <3>1 DEF ScreenAt0
  <2>2. CASE d /\ Ahead = <<18, E0, 124>> /\ DecoderAt(1, TRUE, 0)
    <3>1. Next1 = 18 /\ wire' = <<E0, 124>>
      BY <1>1, <2>2
    <3> QED  BY <1>3, <2>2, <3>1 DEF ScreenAt18
  <2>3. CASE ~d /\ Ahead = <<E0, F0, 124, E0, F0, 18>> /\ DecoderAt(0, TRUE, 0)
    <3>1. Next1 = E0 /\ wire' = <<F0, 124, E0, F0, 18>>
      BY <1>1, <2>3
    <3> QED  BY <1>3, <2>3, <3>1 DEF ScreenAt0
  <2>4. CASE ~d /\ Ahead = <<F0, 124, E0, F0, 18>> /\ DecoderAt(1, TRUE, 0)
    <3>1. Next1 = F0 /\ wire' = <<124, E0, F0, 18>>
      BY <1>1, <2>4
    <3> QED  BY <1>3, <2>4, <3>1 DEF ScreenAtF0
  <2>5. CASE ~d /\ Ahead = <<124, E0, F0, 18>> /\ DecoderAt(2, FALSE, 0)
    <3>1. Next1 = 124 /\ wire' = <<E0, F0, 18>>
      BY <1>1, <2>5
    <3> QED  BY <1>3, <2>5, <3>1 DEF ScreenAt124
  <2> QED  BY <1>3, <2>1, <2>2, <2>3, <2>4, <2>5 DEF ScreenAhead
<1>4. CASE k = "PAUSE" /\ PauseAhead
  <2>1. Next1 = E1 /\ wire' = <<20, 119, E1, F0, 20, F0, 119>>
    BY <1>1, <1>4 DEF PauseAhead
  <2> QED  BY <1>4, <2>1 DEF PauseAtE1, PauseAhead
<1> QED  BY <1>1, <1>2, <1>3, <1>4 DEF Untold

(* PAUSE is told at its first byte, and the other seven are ignored.       *)
LEMMA PauseInv == ASSUME Inv, HandlePause PROVE Inv'
<1>1. /\ Begins /\ Taken /\ Next1 \notin Responses /\ length = 0 /\ Next1 = E1
      /\ pressed' = TRUE /\ timesToIgnore' = 7 /\ length' = 0
      /\ KEY_PRESS_TABLE' = KEY_PRESS_TABLE \ {"PAUSE"}
      /\ lbLen' = EndLine("PAUSE", lbLen + Typed("PAUSE"))
      /\ Tell(<<Event("PAUSE", TRUE), Event("PAUSE", FALSE)>>)
      /\ UNCHANGED <<callback, user>>
  BY DEF HandlePause, Begins, Pause, Handled
<1> DEFINE events == <<Event("PAUSE", TRUE), Event("PAUSE", FALSE)>>
<1>2. events \in Seq([key : Key, pressed : BOOLEAN])
  BY DEF Event, Key
<1> HIDE DEF events
<1>3. heard' \in Seq([key : Key, pressed : BOOLEAN]) /\ (heard = <<>> /\ callback => heard' = events)
  BY <1>1, <1>2, TellTypes DEF Inv, events
<1>4. lbLen' \in 0 .. LINE_SIZE - 1
  BY <1>1, Line DEF Inv, Types, Key
<1>5. Types'
  BY <1>1, <1>3, <1>4, Taking DEF Inv, Types, user
<1>6. ASSUME rested \/ inStep PROVE Told' /\ wire' # <<>>
  <2>1. stroke.key = "PAUSE" /\ wire' = <<20, 119, E1, F0, 20, F0, 119>>
    <3>1. E1 # E0 /\ E1 # F0 /\ E1 # 18 /\ E1 # 124
      BY DEF E0, E1, F0
    <3>2. stroke.key \in DOMAIN Code => Code[stroke.key] # E1
      BY Codes
    <3> QED
      BY <1>1, <1>6, <3>1, <3>2, Places
         DEF ExtendedAt0, ReleaseAtF0, CodeAtEnd, ScreenAt0, ScreenAtF0, ScreenAt18, ScreenAt124,
             PauseAtE1
  <2>2. Len(wire') = 7 /\ wire' # <<>>
    BY <2>1
  <2>3. VK(stroke.key) = "PAUSE" /\ VK(stroke.key) \notin Shown
    BY <1>1, <2>1 DEF Inv, Taken, Begins, VK
  <2>4. rested => heard' = Expected(stroke)
    <3>1. rested => heard = <<>> /\ callback
      BY <1>1, <1>6, Beginning DEF Inv, Untold
    <3>2. Expected(stroke) = events
      BY <2>1 DEF Expected, events
    <3> QED  BY <1>3, <3>1, <3>2
  <2>5. inStep => KEY_PRESS_TABLE' = Shown
    <3>1. inStep => KEY_PRESS_TABLE \ {"PAUSE"} = Shown \ {"PAUSE"}
      BY <1>1, <1>6, <2>1, <2>3, Beginning DEF Untold
    <3> QED  BY <1>1, <2>1, <2>3, <3>1
  <2> QED  BY <1>1, <2>2, <2>4, <2>5, Taking, Kept DEF Told, Done, Expected, user
<1>7. ~(rested \/ inStep) => Done'
  BY <1>1, Kept DEF Done, user
<1> QED  BY <1>1, <1>5, <1>6, <1>7, Taking, DoneInv DEF user

(* The key that was struck is marked, and the table is in step again.      *)
LEMMA SetDone ==
    ASSUME Inv, Begins, inStep, stroke.key \notin {"PAUSE", "LESS", "GUI"}, pressed = stroke.pressed,
           setPressed(VK(stroke.key)), UNCHANGED user
    PROVE  KEY_PRESS_TABLE' = Shown'
<1>1. KEY_PRESS_TABLE \ {VK(stroke.key)} = Shown \ {VK(stroke.key)}
  BY Beginning DEF Untold
<1>2. VK(stroke.key) \in Shown <=> stroke.pressed
  BY Taking DEF Inv, Begins
<1> QED  BY <1>1, <1>2, Kept DEF setPressed, Press, Release

LEMMA ScreenInv == ASSUME Inv, HandlePrintScreen PROVE Inv'
<1> DEFINE events == <<Event("PRINTSCREEN", pressed)>>
<1>1. /\ Begins /\ Taken /\ Next1 \notin Responses
      /\ \/ length = 1 /\ Next1 = 18 /\ pressed
         \/ length = 2 /\ Next1 = 124 /\ ~pressed
      /\ pressed' = TRUE /\ timesToIgnore' = (IF pressed THEN 2 ELSE 3) /\ length' = 0
      /\ setPressed("PRINTSCREEN") /\ Tell(events)
      /\ UNCHANGED <<callback, user>>
  BY DEF HandlePrintScreen, Begins, PrintScreenDown, PrintScreenUp, Handled, Code
<1>2. events \in Seq([key : Key, pressed : BOOLEAN])
  BY DEF Event, Key, Inv, Types
<1> HIDE DEF events
<1>3. heard' \in Seq([key : Key, pressed : BOOLEAN]) /\ (heard = <<>> /\ callback => heard' = events)
  BY <1>1, <1>2, TellTypes DEF Inv
<1>4. KEY_PRESS_TABLE' \subseteq Key /\ lbLen' \in 0 .. LINE_SIZE - 1
  BY <1>1, SetTypes DEF Inv, Key
<1>5. Types'
  BY <1>1, <1>3, <1>4, Taking DEF Inv, Types, user
<1>6. ASSUME rested \/ inStep PROVE Told' /\ wire' # <<>>
  <2>1. ScreenAt18(stroke.key, stroke.pressed) \/ ScreenAt124(stroke.key, stroke.pressed)
    <3>1. Next1 # E0 /\ Next1 # E1 /\ Next1 # F0
      BY <1>1 DEF E0, E1, F0
    <3>2. ~CodeAtEnd(stroke.key, stroke.pressed)
      BY <1>1, Codes DEF CodeAtEnd, DecoderAt, Prefixes
    <3> QED
      BY <1>1, <1>6, <3>1, <3>2, Places
         DEF ExtendedAt0, ReleaseAtF0, ScreenAt0, ScreenAtF0, PauseAtE1
  <2>2. stroke.key = "PRINTSCREEN" /\ VK(stroke.key) = "PRINTSCREEN" /\ stroke.pressed = pressed
    BY <2>1 DEF VK, ScreenAt18, ScreenAt124, DecoderAt, Inv, Types, Stroke
  <2>3. Len(wire') = timesToIgnore' /\ wire' # <<>>
    <3>1. CASE ScreenAt18(stroke.key, stroke.pressed)
      <4>1. wire' = <<E0, 124>> /\ pressed
        BY <3>1 DEF ScreenAt18, DecoderAt
      <4> QED  BY <1>1, <4>1
    <3>2. CASE ScreenAt124(stroke.key, stroke.pressed)
      <4>1. wire' = <<E0, F0, 18>> /\ ~pressed
        BY <3>2 DEF ScreenAt124, DecoderAt
      <4> QED  BY <1>1, <4>1
    <3> QED  BY <2>1, <3>1, <3>2
  <2>4. rested => heard' = Expected(stroke)
    <3>1. rested => heard = <<>> /\ callback
      BY <1>1, <1>6, Beginning DEF Inv, Untold
    <3>2. Expected(stroke) = <<Event("PRINTSCREEN", pressed)>>
      BY <2>2 DEF Expected
    <3> QED  BY <1>3, <3>1, <3>2 DEF events
  <2>5. inStep => KEY_PRESS_TABLE' = Shown'
    BY <1>1, <2>2, SetDone
  <2> QED  BY <1>1, <2>3, <2>4, <2>5, Taking DEF Told, Done, Expected, user
<1>7. ~(rested \/ inStep) => Done'
  BY <1>1, Kept DEF Done, user
<1> QED  BY <1>1, <1>5, <1>6, <1>7, Taking, DoneInv DEF user

LEMMA KeyInv == ASSUME Inv, HandleKey PROVE Inv'
<1> DEFINE k == SCANCODE_TO_KEY_TABLE[Next1]
           events == <<Event(k, pressed)>>
<1>1. /\ Begins /\ Taken /\ Next1 \notin Responses /\ ~Special
      /\ Next1 \in DOMAIN SCANCODE_TO_KEY_TABLE
      /\ pressed' = TRUE /\ timesToIgnore' = 0 /\ length' = 0
      /\ setPressed(k) /\ Tell(events)
      /\ UNCHANGED <<callback, user>>
  BY DEF HandleKey, Begins, Handled
<1>2. k \in Key \ {"PAUSE", "PRINTSCREEN"}
  BY <1>1, TableKeys
<1> HIDE DEF k
<1>3. events \in Seq([key : Key, pressed : BOOLEAN])
  BY <1>2 DEF Event, Inv, Types
<1> HIDE DEF events
<1>4. heard' \in Seq([key : Key, pressed : BOOLEAN]) /\ (heard = <<>> /\ callback => heard' = events)
  BY <1>1, <1>3, TellTypes DEF Inv
<1>5. KEY_PRESS_TABLE' \subseteq Key /\ lbLen' \in 0 .. LINE_SIZE - 1
  BY <1>1, <1>2, SetTypes DEF Inv
<1>6. Types'
  BY <1>1, <1>4, <1>5, Taking DEF Inv, Types, user
<1>7. ASSUME rested \/ inStep PROVE wire' = <<>> /\ Done'
  <2>1. CodeAtEnd(stroke.key, stroke.pressed)
    <3>1. E0 \notin DOMAIN SCANCODE_TO_KEY_TABLE /\ F0 \notin DOMAIN SCANCODE_TO_KEY_TABLE
          /\ E1 \notin DOMAIN SCANCODE_TO_KEY_TABLE
      BY DEF E0, F0, E1, SCANCODE_TO_KEY_TABLE
    <3>2. ~ScreenAt18(stroke.key, stroke.pressed) /\ ~ScreenAt124(stroke.key, stroke.pressed)
      BY <1>1 DEF Special, PrintScreenDown, PrintScreenUp, ScreenAt18, ScreenAt124, DecoderAt, Code
    <3> QED
      BY <1>1, <1>7, <3>1, <3>2, Places
         DEF ExtendedAt0, ReleaseAtF0, ScreenAt0, ScreenAtF0, PauseAtE1
  <2>2. stroke.key \in Known /\ k = VK(stroke.key) /\ stroke.pressed = pressed /\ wire' = <<>>
    BY <1>1, <2>1, Codes DEF CodeAtEnd, DecoderAt, k
  <2>3. stroke.key \notin {"PAUSE", "LESS", "GUI"}
    BY <2>2 DEF Known
  <2>4. rested => heard' = Expected(stroke)
    <3>1. rested => heard = <<>> /\ callback
      BY <1>1, <1>7, Beginning DEF Inv, Untold
    <3>2. Expected(stroke) = <<Event(k, pressed)>>
      BY <2>2, <2>3 DEF Expected
    <3> QED  BY <1>4, <3>1, <3>2 DEF events
  <2>5. inStep => KEY_PRESS_TABLE' = Shown'
    BY <1>1, <2>2, <2>3, SetDone
  <2> QED  BY <1>1, <2>2, <2>4, <2>5 DEF Done, Expected, user
<1>8. ~(rested \/ inStep) => Done'
  BY <1>1, Kept DEF Done, user
<1> QED  BY <1>1, <1>6, <1>7, <1>8, Taking, DoneInv DEF user

(* A prefix moves the decoder one place on in the stroke; the code of a key *)
(* that is not in the table ends it, and nothing is heard of it.           *)
LEMMA PrefixPlaces ==
    ASSUME Inv, Prefix, rested \/ inStep, NEW k, k = stroke.key, NEW d, d = stroke.pressed
    PROVE  \/ wire' # <<>> /\ CodeAhead(k, d)'
           \/ wire' # <<>> /\ k = "PRINTSCREEN" /\ ScreenAhead(d)'
           \/ wire' = <<>> /\ k \in {"LESS", "GUI"}
<1>1. /\ Begins /\ Next1 \notin Responses /\ ~Special
      /\ Next1 \notin DOMAIN SCANCODE_TO_KEY_TABLE
      /\ pressed' = (pressed /\ Next1 # F0) /\ length' = Longer
      /\ timesToIgnore' = timesToIgnore
  BY DEF Prefix, Begins
<1>2. Ahead' = wire' /\ d \in BOOLEAN
  BY <1>1, Taking DEF Inv, Types, Stroke, Begins
<1>3. \/ ExtendedAt0(k, d) \/ ReleaseAtF0(k, d) \/ CodeAtEnd(k, d)
      \/ ScreenAt0(k, d) \/ ScreenAtF0(k, d)
  <2>1. 18 \in DOMAIN SCANCODE_TO_KEY_TABLE /\ 124 \in DOMAIN SCANCODE_TO_KEY_TABLE
    BY DEF SCANCODE_TO_KEY_TABLE
  <2> QED  BY <1>1, <2>1, Places DEF ScreenAt18, ScreenAt124, PauseAtE1, Special, Pause, DecoderAt
<1>4. E0 # F0
  BY DEF E0, F0
<1>5. ASSUME NEW n \in 0 .. 1, DecoderAt(n, TRUE, 0)
      PROVE  /\ length' = n + 1 /\ timesToIgnore' = 0
             /\ (Next1 # F0 => pressed' = TRUE) /\ (Next1 = F0 => pressed' = FALSE)
  <2>1. length' = n + 1 /\ timesToIgnore' = 0
    BY <1>1, <1>5 DEF DecoderAt, Longer
  <2>2. pressed' = (Next1 # F0)
    BY <1>1, <1>5, Zenon DEF DecoderAt
  <2>3. Next1 # F0 => pressed' = TRUE
    BY <2>2, Zenon
  <2>4. Next1 = F0 => pressed' = FALSE
    BY <2>2, Zenon
  <2> QED  BY <2>1, <2>3, <2>4
<1>6. CASE ExtendedAt0(k, d)
  <2>1. k \in DOMAIN Code /\ Prefixes(k) = 1
    BY <1>6, Codes DEF ExtendedAt0, Prefixes, Extended, Known
  <2>2. DecoderAt(Prefixes(k), TRUE, 0)'
    BY <1>4, <1>5, <1>6, <2>1 DEF ExtendedAt0, DecoderAt
  <2>3. \/ ~d /\ wire' = <<F0, Code[k]>>
        \/ d /\ wire' = <<Code[k]>>
    BY <1>2, <1>6 DEF ExtendedAt0
  <2>4. wire' # <<>>
    BY <2>3
  <2> QED  BY <1>2, <2>1, <2>2, <2>3, <2>4 DEF CodeAhead
<1>7. CASE ReleaseAtF0(k, d)
  <2>1. k \in DOMAIN Code /\ ~d /\ wire' = <<Code[k]>> /\ wire' # <<>>
    BY <1>7 DEF ReleaseAtF0
  <2>2. Prefixes(k) \in 0 .. 1
    BY DEF Prefixes
  <2>4. DecoderAt(Prefixes(k), TRUE, 0) /\ Next1 = F0
    BY <1>7 DEF ReleaseAtF0
  <2>3. length' = Prefixes(k) + 1 /\ timesToIgnore' = 0 /\ pressed' = FALSE
    BY <1>5, <2>2, <2>4
  <2> QED  BY <1>2, <2>1, <2>3 DEF CodeAhead, DecoderAt
<1>8. CASE CodeAtEnd(k, d)
  BY <1>1, <1>8, Codes DEF CodeAtEnd
<1>9. CASE ScreenAt0(k, d)
  <2>1. DecoderAt(1, TRUE, 0)'
    BY <1>4, <1>5, <1>9 DEF ScreenAt0, DecoderAt
  <2>2. \/ d /\ wire' = <<18, E0, 124>>
        \/ ~d /\ wire' = <<F0, 124, E0, F0, 18>>
    BY <1>2, <1>9 DEF ScreenAt0
  <2>3. wire' # <<>>
    BY <2>2
  <2> QED  BY <1>2, <1>9, <2>1, <2>2, <2>3 DEF ScreenAt0, ScreenAhead
<1>10. CASE ScreenAtF0(k, d)
  <2>1. DecoderAt(2, FALSE, 0)'
    BY <1>5, <1>10 DEF ScreenAtF0, DecoderAt
  <2>2. wire' = <<124, E0, F0, 18>> /\ wire' # <<>>
    BY <1>10 DEF ScreenAtF0
  <2> QED  BY <1>2, <1>10, <2>1, <2>2 DEF ScreenAtF0, ScreenAhead
<1> QED  BY <1>3, <1>6, <1>7, <1>8, <1>9, <1>10

LEMMA PrefixInv == ASSUME Inv, Prefix PROVE Inv'
<1>1. /\ Begins /\ Taken /\ Next1 \notin Responses /\ length' = Longer
      /\ pressed' = (pressed /\ Next1 # F0)
      /\ UNCHANGED <<driver, callback, timesToIgnore, user, heard>>
  BY DEF Prefix, Begins
<1>2. Types'
  BY <1>1, Taking DEF Inv, Types, Longer, driver, user
<1>3. UNCHANGED <<stroke, rested, inStep, down, KEY_PRESS_TABLE, heard>>
  BY <1>1 DEF user, driver
<1>4. CASE ~(rested \/ inStep)
  <2>1. Done'
    BY <1>1, <1>3, <1>4, Kept DEF Done
  <2> QED  BY <1>1, <1>2, <1>3, <1>4, <2>1, Taking, DoneInv
<1>5. CASE rested \/ inStep
  <2>1. /\ rested => heard = <<>>
        /\ inStep => KEY_PRESS_TABLE \ {VK(stroke.key)} = Shown \ {VK(stroke.key)}
    BY <1>1, <1>5, Beginning DEF Untold
  <2>2. CASE wire' # <<>>
    <3>1. CodeAhead(stroke.key, stroke.pressed)'
          \/ (stroke'.key = "PRINTSCREEN" /\ ScreenAhead(stroke.pressed)')
      <4>1. PICK k, d : k = stroke.key /\ d = stroke.pressed
        OBVIOUS
      <4>2. CodeAhead(k, d)' \/ (k = "PRINTSCREEN" /\ ScreenAhead(d)')
        BY <1>5, <2>2, <4>1, PrefixPlaces
      <4>3. k = stroke'.key /\ d = stroke'.pressed
        BY <1>3, <4>1
      <4> QED  BY <4>2, <4>3 DEF CodeAhead, ScreenAhead
    <3>2. Untold'
      BY <1>1, <1>3, <2>1, <3>1, Kept DEF Untold
    <3> QED  BY <1>1, <1>2, <2>2, <3>2, Taking, UntoldInv
  <2>3. CASE wire' = <<>>
    <3>1. stroke.key \in {"LESS", "GUI"}
      BY <1>5, <2>3, PrefixPlaces
    <3>2. VK(stroke.key) \notin Key
      BY <3>1 DEF VK, Key
    <3>3. rested => heard = Expected(stroke)
      BY <2>1, <3>1 DEF Expected
    <3>4. inStep => KEY_PRESS_TABLE = Shown
      BY <2>1, <3>2 DEF Inv, Types, Shown
    <3>5. Done'
      BY <1>1, <1>3, <3>3, <3>4, Kept DEF Done, Expected
    <3> QED  BY <1>1, <1>2, <2>3, <3>5, Taking, DoneInv
  <2> QED  BY <2>2, <2>3
<1> QED  BY <1>4, <1>5

(* A key that is struck sends its bytes, and what is known of it begins.   *)
LEMMA StrikeInv ==
    ASSUME Inv, NEW k \in Struck, NEW d \in BOOLEAN, Strike(k, d),
           down' \subseteq Struck \ {"PAUSE"}, crossed' \subseteq down',
           Shown' \ {VK(k)} = Shown \ {VK(k)},
           VK(k) \in Shown' <=> d /\ k \notin {"PAUSE", "LESS", "GUI"}
    PROVE  Inv'
<1>1. /\ wire = <<>> /\ wire' = Bytes(k, d) /\ stroke' = Event(k, d)
      /\ rested' = (Rest /\ callback) /\ inStep' = (inStep /\ Rest) /\ heard' = <<>>
      /\ UNCHANGED <<driver, callback, decoder>>
  BY DEF Strike
<1>2. /\ k \in Known \cup {"PAUSE", "PRINTSCREEN", "LESS", "GUI"}
      /\ stroke'.key = k /\ stroke'.pressed = d
  BY <1>1, StruckAssumption DEF Event
<1>3. /\ wire' \in Seq(0 .. 255) /\ wire' # <<>>
      /\ \A i \in 1 .. Len(wire') : wire'[i] \notin Responses
  BY <1>1, <1>2, Sent
<1>4. Ahead' = wire'
  <2>1. Head(wire') = wire'[1] /\ 1 \in 1 .. Len(wire')
    BY <1>3
  <2> QED  BY <1>3, <2>1 DEF Ahead
<1>5. Clean'
  BY <1>3, <1>4 DEF Clean
<1>6. Types'
  <2>1. rested' \in BOOLEAN /\ inStep' \in BOOLEAN
    BY <1>1, Zenon
  <2>2. stroke' \in Stroke
    BY <1>1, <1>2 DEF Event, Stroke
  <2>3. heard' \in Seq([key : Key, pressed : BOOLEAN])
    BY <1>1
  <2> QED  BY <1>1, <1>3, <2>1, <2>2, <2>3 DEF Inv, Types, driver, decoder
<1>7. ASSUME rested' \/ inStep' PROVE Untold'
  <2>1. Rest
    BY <1>1, <1>7, Zenon
  <2>2. length' = 0 /\ pressed' = TRUE /\ timesToIgnore' = 0
    BY <1>1, <2>1 DEF Rest, decoder, Inv, Types
  <2>3. \/ CodeAhead(k, d)'
        \/ k = "PRINTSCREEN" /\ ScreenAhead(d)'
        \/ k = "PAUSE" /\ PauseAhead'
    <3>1. CASE k \in Extended
      <4>1. k \in DOMAIN Code
        BY <3>1, Codes DEF Extended, Known
      <4> QED  BY <1>1, <1>4, <2>2, <3>1, <4>1 DEF CodeAhead, DecoderAt
    <3>2. CASE k \in DOMAIN Code /\ k \notin Extended
      <4>1. Prefixes(k) = 0
        BY <3>2 DEF Prefixes
      <4>2. wire' = IF d THEN <<Code[k]>> ELSE <<F0, Code[k]>>
        BY <1>1, <1>2, <3>2, Sent
      <4> QED  BY <1>4, <2>2, <3>2, <4>1, <4>2 DEF CodeAhead, DecoderAt
    <3>3. CASE k = "PRINTSCREEN"
      <4>1. wire' = IF d THEN <<E0, 18, E0, 124>> ELSE <<E0, F0, 124, E0, F0, 18>>
        BY <1>1, <3>3 DEF Bytes, Extended
      <4> QED  BY <1>4, <2>2, <3>3, <4>1 DEF ScreenAhead, DecoderAt
    <3>4. CASE k = "PAUSE"
      <4>1. wire' = <<E1, 20, 119, E1, F0, 20, F0, 119>>
        BY <1>1, <3>4 DEF Bytes, Extended
      <4> QED  BY <1>4, <2>2, <3>4, <4>1 DEF PauseAhead, DecoderAt
    <3> QED  BY <1>2, <3>1, <3>2, <3>3, <3>4, Sent
  <2>4. inStep' => KEY_PRESS_TABLE' \ {VK(k)} = Shown' \ {VK(k)}
    <3>1. inStep' => inStep
      BY <1>1, Zenon
    <3>2. inStep => KEY_PRESS_TABLE' = Shown
      BY <1>1 DEF Inv, Done, driver
    <3> QED  BY <3>1, <3>2
  <2> QED  BY <1>1, <1>2, <2>3, <2>4 DEF Untold, CodeAhead, ScreenAhead
<1>8. rested' => callback'
  BY <1>1, Zenon
<1>9. VK(stroke'.key) \in Shown' <=> stroke'.pressed /\ stroke'.key \notin {"PAUSE", "LESS", "GUI"}
  BY <1>2
<1> QED  BY <1>2, <1>3, <1>5, <1>6, <1>7, <1>8, <1>9 DEF Inv

(* A key that goes down shows its value; one that goes up takes it away,   *)
(* though others have it.                                                  *)
LEMMA PressShown ==
    ASSUME Inv, NEW k \in Struck, PressKey(k)
    PROVE  /\ down' \subseteq Struck \ {"PAUSE"} /\ crossed' \subseteq down'
           /\ Shown' \ {VK(k)} = Shown \ {VK(k)}
           /\ VK(k) \in Shown' <=> k \notin {"PAUSE", "LESS", "GUI"}
<1>1. /\ down \subseteq Struck \ {"PAUSE"} /\ crossed \subseteq down
      /\ down' = down \cup ({k} \ {"PAUSE"}) /\ crossed' = crossed \ {k}
  BY DEF PressKey, Inv, Types
<1>2. k \in Known \cup {"PAUSE", "PRINTSCREEN", "LESS", "GUI"}
  BY StruckAssumption
<1>3. (down' \ crossed') \ {k} = (down \ crossed) \ {k}
  BY <1>1
<1>4. Shown' = {VK(j) : j \in down' \ crossed'} \cap Key
  BY DEF Shown
<1>5. Shown' \ {VK(k)} = Shown \ {VK(k)}
  BY <1>3, <1>4 DEF Shown
<1>6. CASE k = "PAUSE"
  <2>1. \A j \in down' : j \in Known \cup {"PRINTSCREEN", "LESS", "GUI"}
    BY <1>1, <1>6, StruckAssumption
  <2>2. \A j \in down' : VK(j) # VK(k)
    BY <1>2, <1>6, <2>1, Values DEF Known
  <2> QED  BY <1>1, <1>4, <1>5, <1>6, <2>2
<1>7. CASE k # "PAUSE"
  BY <1>1, <1>2, <1>4, <1>5, <1>7, Values
<1> QED  BY <1>6, <1>7

LEMMA ReleaseShown ==
    ASSUME Inv, NEW k \in Struck, ReleaseKey(k)
    PROVE  /\ down' \subseteq Struck \ {"PAUSE"} /\ crossed' \subseteq down'
           /\ Shown' \ {VK(k)} = Shown \ {VK(k)}
           /\ VK(k) \notin Shown'
<1>1. /\ down \subseteq Struck \ {"PAUSE"} /\ crossed \subseteq down
      /\ down' = down \ {k} /\ crossed' = (crossed \cup {j \in down : VK(j) = VK(k)}) \ {k}
  BY DEF ReleaseKey, Inv, Types
<1>2. down' \ crossed' = {j \in down \ crossed : VK(j) # VK(k)}
  BY <1>1
<1>3. Shown' = {VK(j) : j \in down' \ crossed'} \cap Key
  BY DEF Shown
<1> QED  BY <1>1, <1>2, <1>3 DEF Shown

LEMMA NextInv == ASSUME Inv, [Next]_vars PROVE Inv'
<1>1. CASE handleKeyboardEvent
  BY <1>1, ResponseInv, IgnoreInv, PauseInv, ScreenInv, PrefixInv, KeyInv DEF handleKeyboardEvent
<1>2. CASE setListener
  <2>1. callback' = TRUE /\ UNCHANGED <<driver, decoder, user, wire, heard>>
    BY <1>2 DEF setListener
  <2>2. Types' /\ Clean'
    BY <2>1 DEF Inv, Types, Clean, Ahead, driver, decoder, user
  <2>3. (Untold => Untold') /\ (Told => Told') /\ (Done => Done')
    BY <2>1, Kept DEF Untold, Told, Done, CodeAhead, ScreenAhead, PauseAhead, DecoderAt, Ahead,
                      Expected, driver, decoder, user
  <2> QED  BY <2>1, <2>2, <2>3, Kept DEF Inv, user
<1>3. CASE Respond
  BY <1>3, RespondInv
<1>4. ASSUME NEW k \in Struck, PressKey(k) PROVE Inv'
  BY <1>4, PressShown, StrikeInv DEF PressKey
<1>5. ASSUME NEW k \in Struck, ReleaseKey(k) PROVE Inv'
  BY <1>5, ReleaseShown, StrikeInv DEF ReleaseKey
<1>6. CASE UNCHANGED vars
  <2>1. /\ UNCHANGED <<KEY_PRESS_TABLE, lbLen, callback, length, pressed, timesToIgnore, down,
                       crossed, stroke, rested, inStep, wire, heard>>
        /\ Shown' = Shown
    BY <1>6, Kept DEF vars, driver, decoder, user
  <2>2. Types' /\ Clean'
    BY <2>1 DEF Inv, Types, Clean, Ahead
  <2>3. (Untold => Untold') /\ (Told => Told') /\ (Done => Done')
    BY <2>1 DEF Untold, Told, Done, CodeAhead, ScreenAhead, PauseAhead, DecoderAt, Ahead, Expected
  <2> QED  BY <2>1, <2>2, <2>3 DEF Inv
<1> QED  BY <1>1, <1>2, <1>3, <1>4, <1>5, <1>6 DEF Next

THEOREM Invariance == Spec => []Inv
  BY InitInv, NextInv, PTL DEF Spec

----------------------------------------------------------------------------

(* The states of the driver, its decoder and the line are those declared:  *)
(* the line never has LINE_SIZE characters between two keys, whatever is   *)
(* struck and misread, and no more than seven bytes are left to ignore.    *)
THEOREM Typing == Spec => []TypeOK
<1>1. Types => TypeOK
  <2>1. ASSUME NEW w \in Seq(0 .. 255), NEW i \in 1 .. Len(w) PROVE w[i] \in 0 .. 255
    BY ElementOfSeq
  <2>2. callback \in BOOLEAN /\ rested \in BOOLEAN /\ inStep \in BOOLEAN
           => {callback, rested, inStep} \subseteq BOOLEAN
    BY Zenon
  <2>3. down \subseteq Struck \ {"PAUSE"} => down \subseteq Struck
    OBVIOUS
  <2> QED  BY <2>1, <2>2, <2>3, Zenon DEF Types, TypeOK
<1>2. Inv => TypeOK
  BY <1>1 DEF Inv
<1> QED  BY <1>2, Invariance, PTL

(* A key that finds the decoder at rest is heard once and rightly, for any *)
(* of the keys and any order of them, with any answers between the bytes.  *)
THEOREM Hearing == Spec => []HeardFromRest
<1>1. Inv => HeardFromRest
  BY DEF Inv, Done, HeardFromRest
<1> QED  BY <1>1, Invariance, PTL

(* While every key has found the decoder at rest, exactly those values are *)
(* marked of which a key is held that no other of that value went up beside. *)
THEOREM Table == Spec => []TableInStep
<1>1. Inv => TableInStep
  BY DEF Inv, Done, TableInStep, Shown
<1> QED  BY <1>1, Invariance, PTL
=============================================================================
