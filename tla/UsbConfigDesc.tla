---------------------------- MODULE UsbConfigDesc ----------------------------
(***************************************************************************)
(* The parser of USB configuration descriptors,                            *)
(* frameworks/ddk/usb/usb_config_desc_parser.cpp.  A buffer is a sequence  *)
(* of bytes; a position is the number of bytes before it, so the code's    *)
(* pair (buffer, size) is one position.  Only the fields that steer the    *)
(* parser are read; a descriptor that was copied is named by its position, *)
(* a zeroed one by 0.                                                      *)
(*                                                                         *)
(* The parser was written for negative error codes, and the codes of       *)
(* usb_ddk_types.h are positive: an error of ParseEndpoint and of          *)
(* ParseInterface is taken for a number of bytes, and the position moves   *)
(* past the end of the buffer.                                             *)
(***************************************************************************)
LOCAL INSTANCE Integers
LOCAL INSTANCE Sequences
LOCAL INSTANCE FiniteSets
LOCAL INSTANCE SequencesExt

CONSTANTS USB_MAXINTERFACES,  \* 32 in the code
          USB_MAXALTSETTING,  \* 128 in the code
          USB_MAXENDPOINTS    \* 32 in the code

USB_DDK_INVALID_PARAMETER == 401
USB_DDK_INVALID_OPERATION == 27400002

DT_CONFIG == 2
DT_INTERFACE == 4
DT_ENDPOINT == 5
HeaderSize == 2
ConfigSize == 9
InterfaceSize == 9
EndpointSize == 7

Size(buf, p) == Len(buf) - p
bLength(buf, p) == buf[p + 1]
bDescriptorType(buf, p) == buf[p + 2]
bInterfaceNumber(buf, p) == buf[p + 3]
bNumEndpoints(buf, p) == buf[p + 5]

BadLength(buf, p) == bLength(buf, p) < HeaderSize \/ bLength(buf, p) > Size(buf, p)

\* The position of the next interface or endpoint descriptor, or of what cannot be skipped.
RECURSIVE FindNextDescriptor(_, _)
FindNextDescriptor(buf, p) ==
  IF \/ Size(buf, p) < HeaderSize
     \/ bDescriptorType(buf, p) \in {DT_INTERFACE, DT_ENDPOINT}
     \/ BadLength(buf, p)
  THEN p
  ELSE FindNextDescriptor(buf, p + bLength(buf, p))

\* Variant: what follows an endpoint descriptor is not skipped.
ParseEndpointOnly(buf, p) ==
  IF Size(buf, p) < HeaderSize THEN USB_DDK_INVALID_OPERATION
  ELSE IF bDescriptorType(buf, p) # DT_ENDPOINT \/ bLength(buf, p) > Size(buf, p) THEN 0
  ELSE IF bLength(buf, p) < EndpointSize THEN USB_DDK_INVALID_OPERATION
  ELSE bLength(buf, p)

ParseEndpoint(buf, p) ==
  IF Size(buf, p) < HeaderSize THEN USB_DDK_INVALID_OPERATION
  ELSE IF bDescriptorType(buf, p) # DT_ENDPOINT \/ bLength(buf, p) > Size(buf, p) THEN 0
  ELSE IF bLength(buf, p) < EndpointSize THEN USB_DDK_INVALID_OPERATION
  ELSE FindNextDescriptor(buf, p + bLength(buf, p)) - p

\* The endpoints of one setting: at most n of them, fewer if something else comes first.
RECURSIVE ParseInterfaceEndpoint(_, _, _)
ParseInterfaceEndpoint(buf, p, n) ==
  LET ret == ParseEndpoint(buf, p)
      rest == ParseInterfaceEndpoint(buf, p + ret, n - 1)
      this == IF ret = USB_DDK_INVALID_OPERATION THEN 0 ELSE p
  IN IF n = 0 \/ ret = 0
     THEN [to |-> p, endpoints |-> <<>>]
     ELSE [to |-> rest.to, endpoints |-> <<this>> \o rest.endpoints]

\* One interface from p on: the settings that follow each other under one number, appended
\* to those already parsed.  "from" is where the call began.  The bound of the array is left
\* out: the code has copied a setting that is refused, or is one too many, before it counts it.
RECURSIVE ParseInterface(_, _, _, _)
ParseInterface(buf, from, p, altsetting) ==
  LET q == FindNextDescriptor(buf, p + bLength(buf, p))
      e == ParseInterfaceEndpoint(buf, q, bNumEndpoints(buf, p))
      parsed == Append(altsetting, [at |-> p, extraLength |-> q - p - bLength(buf, p),
                                    endpoints |-> e.endpoints])
      goesOn == /\ Size(buf, e.to) >= InterfaceSize
                /\ bDescriptorType(buf, e.to) = DT_INTERFACE
                /\ bInterfaceNumber(buf, e.to) = bInterfaceNumber(buf, p)
  IN IF p = from /\ Len(altsetting) > USB_MAXALTSETTING
     THEN [ret |-> USB_DDK_INVALID_OPERATION, altsetting |-> altsetting]
     ELSE IF \/ Size(buf, p) < InterfaceSize
             \/ bDescriptorType(buf, p) # DT_INTERFACE
             \/ bLength(buf, p) > Size(buf, p)
     THEN [ret |-> p - from, altsetting |-> altsetting]
     ELSE IF bLength(buf, p) < InterfaceSize \/ bNumEndpoints(buf, p) > USB_MAXENDPOINTS
     THEN [ret |-> USB_DDK_INVALID_OPERATION, altsetting |-> altsetting]
     ELSE IF goesOn THEN ParseInterface(buf, from, e.to, parsed)
     ELSE [ret |-> e.to - from, altsetting |-> parsed]

\* interfaceNums and alternateSetting as one sequence.
GetInterfaceNumberDes(buf, p, nums) ==
  LET i == {j \in DOMAIN nums : nums[j].number = bInterfaceNumber(buf, p)}
  IN IF bLength(buf, p) < InterfaceSize THEN nums
     ELSE IF i # {}
     THEN [j \in DOMAIN nums |->
             IF j \in i /\ nums[j].count < USB_MAXALTSETTING
             THEN [nums[j] EXCEPT !.count = @ + 1] ELSE nums[j]]
     ELSE IF Len(nums) < USB_MAXINTERFACES
     THEN Append(nums, [number |-> bInterfaceNumber(buf, p), count |-> 1])
     ELSE nums

RECURSIVE GetInterfaceNumber(_, _, _)
GetInterfaceNumber(buf, p, nums) ==
  IF Size(buf, p) < HeaderSize \/ BadLength(buf, p)
  THEN nums
  ELSE GetInterfaceNumber(buf, p + bLength(buf, p),
         IF bDescriptorType(buf, p) = DT_INTERFACE THEN GetInterfaceNumberDes(buf, p, nums)
         ELSE nums)

\* "returns" is FALSE where the loop comes back to the same position for ever: an endpoint
\* descriptor in an interface's place, its address the number of an interface.
RECURSIVE ParseConfigurationDes(_, _, _)
ParseConfigurationDes(buf, p, config) ==
  LET q == FindNextDescriptor(buf, p)
      filled == [config EXCEPT !.extraLength = @ + (q - p)]
      at == {i \in DOMAIN config.interface :
               config.interface[i].number = bInterfaceNumber(buf, q)}
      i == CHOOSE j \in at : \A k \in at : j <= k
      r == ParseInterface(buf, q, q, config.interface[i].altsetting)
  IN IF Size(buf, p) < HeaderSize
     THEN [returns |-> TRUE, ret |-> Size(buf, p), config |-> config]
     ELSE IF Size(buf, q) <= HeaderSize
     THEN [returns |-> TRUE, ret |-> Size(buf, q), config |-> filled]
     ELSE IF Len(config.interface) >= USB_MAXINTERFACES \/ at = {}
     THEN [returns |-> TRUE, ret |-> USB_DDK_INVALID_PARAMETER, config |-> filled]
     ELSE IF r.ret = 0
     THEN [returns |-> FALSE, ret |-> 0, config |-> filled]
     ELSE ParseConfigurationDes(buf, q + r.ret,
            [filled EXCEPT !.interface[i].altsetting = r.altsetting])

EmptyConfig == [interface |-> <<>>, extraLength |-> 0]

\* The test of bLength compares it with the low byte of the size.
ParseConfiguration(buf) ==
  LET nums == GetInterfaceNumber(buf, 0, <<>>)
      refused == [returns |-> TRUE, ret |-> USB_DDK_INVALID_OPERATION, config |-> EmptyConfig]
  IN IF \/ Len(buf) < ConfigSize
        \/ bDescriptorType(buf, 0) # DT_CONFIG
        \/ bLength(buf, 0) < ConfigSize
        \/ bLength(buf, 0) > Len(buf) % 256
        \/ bNumEndpoints(buf, 0) > USB_MAXINTERFACES \* bNumInterfaces is the same byte
        \/ nums = <<>>
     THEN refused
     ELSE ParseConfigurationDes(buf, bLength(buf, 0),
            [interface |-> [i \in DOMAIN nums |-> [number |-> nums[i].number,
                                                   altsetting |-> <<>>]],
             extraLength |-> 0])

\* What the caller gets: the code, and in *config a configuration unless the code is negative.
ParseUsbConfigDescriptor(buf) ==
  LET r == ParseConfiguration(buf)
  IN [returns |-> r.returns, ret |-> r.ret,
      config |-> IF r.ret < 0 THEN {} ELSE {r.config}]

------------------------------------------------------------------------------
(* The reference: a configuration as the list of its descriptors. *)

Descriptor(len, type, number, endpoints) ==
  [len |-> len, type |-> type, number |-> number, endpoints |-> endpoints]

\* The bytes of one descriptor; the bytes no field stands for are 0.
EncodeOne(d) ==
  [i \in 1..d.len |-> CASE i = 1 -> d.len [] i = 2 -> d.type [] i = 3 -> d.number
                        [] i = 5 -> d.endpoints [] OTHER -> 0]
Encode(list) == FlattenSeq([i \in DOMAIN list |-> EncodeOne(list[i])])

At(list, i) == Len(Encode(SubSeq(list, 1, i - 1)))

InterfacesOf(list) == {i \in DOMAIN list : list[i].type = DT_INTERFACE}
\* The descriptors that belong to the interface descriptor i: up to the next one.
Belong(list, i) ==
  {k \in DOMAIN list : k > i /\ \A j \in InterfacesOf(list) : j > i => k < j}
EndpointsOf(list, i) == {k \in Belong(list, i) : list[k].type = DT_ENDPOINT}

\* Full-length descriptors, every interface with the endpoints it announces, fewer
\* interfaces and no more settings and endpoints than the limits.
WellFormed(list) ==
  /\ list # <<>> /\ list[1].type = DT_CONFIG /\ list[1].len >= ConfigSize
  /\ list[1].endpoints <= USB_MAXINTERFACES
  /\ InterfacesOf(list) # {}
  /\ \A i \in InterfacesOf(list) :
       /\ list[i].len >= InterfaceSize
       /\ Cardinality(EndpointsOf(list, i)) = list[i].endpoints
       /\ list[i].endpoints <= USB_MAXENDPOINTS
       /\ Cardinality({j \in InterfacesOf(list) : list[j].number = list[i].number})
            <= USB_MAXALTSETTING
  /\ \A k \in DOMAIN list :
       list[k].type = DT_ENDPOINT =>
         /\ list[k].len >= EndpointSize
         /\ \E i \in InterfacesOf(list) : k \in EndpointsOf(list, i)
  /\ Cardinality({list[i].number : i \in InterfacesOf(list)}) < USB_MAXINTERFACES

\* The positions of the settings of one interface number, with their endpoints' positions.
SettingsOf(list, n) ==
  LET alts == SetToSortSeq({i \in InterfacesOf(list) : list[i].number = n}, <)
  IN [a \in DOMAIN alts |->
        [at |-> At(list, alts[a]),
         endpoints |-> LET eps == SetToSortSeq(EndpointsOf(list, alts[a]), <)
                       IN [e \in DOMAIN eps |-> At(list, eps[e])]]]
==============================================================================
