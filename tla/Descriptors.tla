----------------------------- MODULE Descriptors -----------------------------
(***************************************************************************)
(* The descriptors of the gadget, byte by byte as the host gets them, and  *)
(* the branch table of GET_DESCRIPTOR, of the Rust and of the C code.  A   *)
(* string is its number of UTF-16 units; their bytes are zeros here.       *)
(***************************************************************************)
EXTENDS Integers, Sequences

Byte == 0 .. 255
Nothing == << >>   \* no data: the request is stalled, or answered with none

(* Little-endian u16. *)
LittleEndian(v) == <<v % 256, (v \div 256) % 256>>

InAddress(i) == 128 + (i + 1)
OutAddress(i) == i + 1

Endpoint(address, interval) == <<7, 5, address, 3>> \o LittleEndian(32) \o <<interval>>

(***************************************************************************)
(* transport_hw.rs.                                                        *)
(***************************************************************************)

Device == <<18, 1, 0, 2, 255, 255, 255, 64, 94, 4, 142, 2, 0, 0, 1, 2, 3, 1>>
Qualifier == <<10, 6, 0, 2, 0, 0, 0, 64, 1, 0>>

(* Interface, the vendor's own descriptor, endpoint IN, endpoint OUT. *)
Interface(i) ==
  << <<9, 4, i, 0, 2, 255, 93, 1, 0>>,
     <<20, 34, 0, 1, 19, InAddress(i), 29, 0, 23, 1, 2, 8, 19, OutAddress(i),
       12, 0, 12, 1, 2, 8>>,
     Endpoint(InAddress(i), 4),
     Endpoint(OutAddress(i), 8) >>

Extend(bytes, new) == bytes \o new[1] \o new[2] \o new[3] \o new[4]

(* The loop over the interfaces: what it has written after i of them. *)
Interfaces[i \in 0 .. 4] ==
  IF i = 0 THEN << >> ELSE Extend(Interfaces[i - 1], Interface(i - 1))

ConfigHeader(n, total) == <<9, 2>> \o LittleEndian(total) \o <<n, 1, 0, 160, 250>>

(* Mistake: one endpoint per interface in the sum. *)
Config_ShortTotal(n) == ConfigHeader(n, 9 + n * 36) \o Interfaces[n]

Config(n) == ConfigHeader(n, 9 + n * 43) \o Interfaces[n]

(* Mistake: a terminating zero, and the length not cut to a byte. *)
StringDescriptor_Terminated(units) ==
  <<2 + 2 * (units + 1), 3>> \o [k \in 1 .. 2 * (units + 1) |-> 0]

(* bLength is byte_len as u8. *)
StringDescriptor(units) ==
  <<(2 + 2 * units) % 256, 3>> \o [k \in 1 .. 2 * units |-> 0]

(* ConfigDescriptorSet::new and with_serial: the strings by index, the     *)
(* manufacturer's and the product's being constants.                       *)
Strings(serial) == <<22, 38, serial>>

(* Mistake: the serial number is not among the strings. *)
Data_NoSerial(n, serial, type, index) ==
  CASE type = "device" -> Device
    [] type = "qualifier" -> Qualifier
    [] type = "config" -> Config(n)
    [] type = "string" /\ index = 0 -> <<4, 3, 9, 4>>
    [] type = "string" /\ index \in 1 .. 2 -> StringDescriptor(Strings(serial)[index])
    [] OTHER -> Nothing

(* handle_control, GET_DESCRIPTOR. *)
Data(n, serial, type, index) ==
  CASE type = "device" -> Device
    [] type = "qualifier" -> Qualifier
    [] type = "config" -> Config(n)
    [] type = "string" /\ index = 0 -> <<4, 3, 9, 4>>
    [] type = "string" /\ index \in 1 .. 3 -> StringDescriptor(Strings(serial)[index])
    [] OTHER -> Nothing

Truncate(data, wLength) ==
  SubSeq(data, 1, IF Len(data) < wLength THEN Len(data) ELSE wLength)

(* Mistake: the OUT address without the + 1. *)
EnableArguments_OutFromZero(n) ==
  UNION {{Endpoint(InAddress(i), 4), Endpoint(i, 8)} : i \in 0 .. n - 1}

(* What SET_CONFIGURATION passes to EP_ENABLE, built anew for each call. *)
EnableArguments(n) ==
  UNION {{Endpoint(InAddress(i), 4), Endpoint(OutAddress(i), 8)} : i \in 0 .. n - 1}

(***************************************************************************)
(* usb_descriptors.c, usb_helpers.c and ep0_request's GET_DESCRIPTOR.      *)
(***************************************************************************)

usb_device == <<18, 1, 0, 2, 255, 255, 255, 64, 94, 4, 142, 2, 0, 0, 1, 2, 3, 1>>
usb_qualifier == <<10, 6, 0, 2, 0, 0, 0, 64, 1, 0>>

usb_if_xinput == <<9, 4, 0, 0, 2, 255, 93, 1, 0>>
if_ud ==
  <<20, 34, 0, 1, 19, 129, 29, 0, 23, 1, 2, 8, 19, 1, 12, 0, 12, 1, 2, 8>>
usb_ep_in == <<7, 5, 129, 3, 32, 0, 4>>
usb_ep_out == <<7, 5, 1, 3, 32, 0, 8>>

(* Mistake: the vendor descriptor copied as it stands. *)
get_if_x_SharedSurface(N) ==
  << [usb_if_xinput EXCEPT ![3] = N],
     if_ud,
     [usb_ep_in EXCEPT ![3] = 128 + N + 1],
     [usb_ep_out EXCEPT ![3] = N + 1] >>

get_if_x(N) ==
  << [usb_if_xinput EXCEPT ![3] = N],
     [if_ud EXCEPT ![6] = 128 + N + 1, ![14] = N + 1],
     [usb_ep_in EXCEPT ![3] = 128 + N + 1],
     [usb_ep_out EXCEPT ![3] = N + 1] >>

(* The loop of build_config. *)
copied[i \in 0 .. 4] ==
  IF i = 0 THEN << >> ELSE Extend(copied[i - 1], get_if_x(i - 1))

(* The header is patched last, with the sum of what has been copied.  The  *)
(* other speed's configuration differs in its type alone.                  *)
build_config(n, type) ==
  <<9, type>> \o LittleEndian(9 + Len(copied[n])) \o <<n, 1, 0, 160, 250>> \o copied[n]

(* Every byte of the UTF-8 string counts for two, and each copyright sign, *)
(* which has two bytes, takes two back.  The characters are zeros here.    *)
set_usb_string_desc(bytes, signs) ==
  LET descriptor_len == 2 - 2 * signs + 2 * bytes
  IN <<descriptor_len % 256, 3>> \o [k \in 1 .. 2 * (bytes - signs) |-> 0]

(* The strings by index: UTF-8 bytes and copyright signs among them. *)
LegacyStrings == << <<23, 1>>, <<38, 0>>, <<7, 0>> >>

(* ep0_request, GET_DESCRIPTOR.  What it does not know it answers with no  *)
(* data, where the Rust code stalls.                                       *)
LegacyData(n, type, index) ==
  CASE type = "device" -> usb_device
    [] type = "qualifier" -> usb_qualifier
    [] type = "config" -> build_config(n, 2)
    [] type = "other_speed" -> build_config(n, 7)
    [] type = "string" /\ index = 0 -> <<4, 3, 0, 0>>
    [] type = "string" /\ index \in 1 .. 3 ->
         set_usb_string_desc(LegacyStrings[index][1], LegacyStrings[index][2])
    [] OTHER -> Nothing

(* What SET_CONFIGURATION passes to EP_ENABLE. *)
LegacyEnableArguments(n) == UNION {{get_if_x(i)[3], get_if_x(i)[4]} : i \in 0 .. n - 1}
=============================================================================
