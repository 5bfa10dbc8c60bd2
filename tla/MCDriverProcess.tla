-------------------------- MODULE MCDriverProcess --------------------------
(* DriverProcess with the parsers, for TLC. *)
EXTENDS DriverProcess, UsbConfigDesc, SenseData

\* Two deaths let a notice of the first be late for the third instance.
DeathsOf ==
  [k \in DriverKinds |-> CASE k = "ashmem" -> 0 [] k \in {"hid", "descriptor", "scsidata"} -> 1
                          [] OTHER -> 2]

\* A second Init, or Connect after Release, can add a second recipient.
RecipientsOf == [k \in DriverKinds |-> IF k \in {"hid", "scsi", "serial"} THEN 2 ELSE 1]

\* In a map of three bytes: the front, one that overlaps its own place at the front, one that
\* does not, one that ends outside, an empty one.
SomeBuffers == {[offset |-> 0, length |-> 2], [offset |-> 1, length |-> 2],
                [offset |-> 2, length |-> 1], [offset |-> 2, length |-> 2],
                [offset |-> 0, length |-> 0]}

SeqsUpTo(S, n) == UNION {[1..k -> S] : k \in 0..n}

\* Configurations of up to three descriptors after the configuration's own: interfaces 0 and 1
\* with no or one endpoint, an endpoint, one of another type, a short interface, a short
\* endpoint; whole, or with the last byte missing.
Config == Descriptor(9, DT_CONFIG, 0, 1)
If(n, e) == Descriptor(9, DT_INTERFACE, n, e)
Ep(n) == Descriptor(7, DT_ENDPOINT, n, 0)
Other(len) == Descriptor(len, 36, 0, 0)
Parts == {If(0, 0), If(0, 1), If(1, 0), If(1, 1), Ep(1), Other(3),
          Descriptor(8, DT_INTERFACE, 0, 0), Descriptor(6, DT_ENDPOINT, 2, 0)}
Input(list, cut) ==
  LET bytes == Encode(list)
  IN [list |-> list, cut |-> cut, bytes |-> SubSeq(bytes, 1, Len(bytes) - cut)]
SmallConfigs == {Input(<<Config>> \o s, cut) : s \in SeqsUpTo(Parts, 3), cut \in {0, 1}}
\* Scattered settings, two endpoints, three interfaces, and sizes around 256.
LargeConfigs ==
  {Input(list, 0) : list \in
          {<<Config, If(0, 1), Ep(1), Other(2), If(1, 0), If(0, 0), Other(5)>>,
           <<Config, Other(4), If(0, 1), Other(3), Ep(1), Other(2), If(1, 1), Ep(2)>>,
           <<Config, If(0, 2), Ep(1), Other(3), Ep(2), If(0, 1), Ep(1)>>,
           <<Config, If(0, 0), If(1, 0), If(2, 0)>>,
           <<Config, If(0, 0), Other(238)>>, <<Config, If(0, 0), Other(246)>>,
           <<Config, If(0, 0), Other(247)>>, <<Config, If(0, 0), Other(237)>>}}
AllConfigs == SmallConfigs \union LargeConfigs

\* Sense data of up to two descriptors, with right and wrong lengths; fixed format.
Body(n, v) == [i \in 1..n |-> v + i]
SenseParts == {[type |-> 0, body |-> Body(10, 10)], [type |-> 0, body |-> Body(10, 130)],
               [type |-> 1, body |-> Body(10, 50)], [type |-> 2, body |-> Body(6, 126)],
               [type |-> 2, body |-> Body(6, 20)],
               [type |-> 2, body |-> Body(4, 70)], [type |-> 9, body |-> <<>>]}
SenseOf(list, short, less) ==
  LET n == Len(EncodeSense(list, 0))
      add == IF short > n - 8 THEN 0 ELSE n - 8 - short
  IN [list |-> list, additional |-> add, data |-> EncodeSense(list, add),
      len |-> IF less > n THEN 0 ELSE n - less]
Fixed(code, len) ==
  [list |-> <<>>, additional |-> 10, data |-> [i \in 1..18 |-> IF i = 1 THEN code ELSE i],
   len |-> len]
AllSense ==
  {SenseOf(list, short, less) : list \in SeqsUpTo(SenseParts, 2), short \in {0, 1, 2, 9},
                                less \in {0, 1, 2, 3, 19}}
  \union {Fixed(code, len) : code \in {112, 240, 100}, len \in {17, 18}}
------------------------------------------------------------------------------
(* What the parsers compute. *)

\* A well-formed configuration that is accepted is parsed completely: every interface number
\* once, with its settings and their endpoints in the order of the buffer, wherever other
\* descriptors stand and even if an interface's settings are scattered.  None is refused but
\* those the eight-bit comparison of usb_config_desc_parser.cpp:503 refuses; whether it should
\* is not judged, and nothing is said of malformed input or of USB_MAXINTERFACES interfaces.
ConfigAgrees ==
  out.kind = "config" =>
    LET list == out.input.list
        r == out.result
        bytes == Encode(list)
        numbers == {list[i].number : i \in InterfacesOf(list)}
        parsed == (CHOOSE c \in r.config : TRUE).interface
    IN out.input.cut = 0 /\ WellFormed(list) =>
         /\ r.returns
         /\ (r.ret = 0) = (list[1].len <= Len(bytes) % 256)
         /\ r.ret = 0 =>
              /\ {parsed[i].number : i \in DOMAIN parsed} = numbers
              /\ Len(parsed) = Cardinality(numbers)
              /\ \A i \in DOMAIN parsed :
                   [a \in DOMAIN parsed[i].altsetting |->
                      [at |-> parsed[i].altsetting[a].at,
                       endpoints |-> parsed[i].altsetting[a].endpoints]]
                   = SettingsOf(list, parsed[i].number)

\* Sense data in descriptor format: each of the five fields comes from the last descriptor of its
\* kind that ends within both the caller's length and the additional length, a descriptor cut off
\* by either is ignored (scsi_ddk_api.cpp:277).
SenseAgrees ==
  out.kind = "sense" /\ out.input.list # <<>> =>
    LET c == out.input
        len == IF c.len < c.additional + 8 THEN c.len ELSE c.additional + 8
        info == CHOOSE r \in out.result : TRUE
        information == LastBody(c.list, len, 0, 10)
        commandSpecific == LastBody(c.list, len, 1, 10)
        keySpecific == LastBody(c.list, len, 2, 6)
    IN IF c.len < 8 THEN out.result = {}
       ELSE /\ out.result # {}
            /\ info.valid <=> \E b \in information : b[1] >= VALID_BIT
            /\ info.information = IF information = {} THEN <<>>
                                  ELSE SubSeq(CHOOSE b \in information : TRUE, 3, 10)
            /\ info.commandSpecific = IF commandSpecific = {} THEN <<>>
                                      ELSE SubSeq(CHOOSE b \in commandSpecific : TRUE, 3, 10)
            /\ info.sksv <=> \E b \in keySpecific : b[3] >= VALID_BIT
            /\ info.senseKeySpecific = IF keySpecific = {} THEN <<>>
                 ELSE LET b == CHOOSE b \in keySpecific : TRUE
                      IN <<b[3] % VALID_BIT, b[4], b[5]>>
=============================================================================
