---------------------------- MODULE MCDesktopHid ----------------------------
(***************************************************************************)
(* Device configurations for TLC: mice on USB with two buttons, or with a  *)
(* button and a wheel; one with a wheel on Bluetooth; one on both; and a   *)
(* Bluetooth keyboard.                                                     *)
(***************************************************************************)
EXTENDS DesktopHid

Keymap(keys, tr) == [k \in keys |-> [tr |-> tr, usage |-> IF k = "k1" THEN 1 ELSE 2]]

Device(transports, tr, keys, modes, wheel, burst) ==
  [transports |-> transports, reports |-> {tr}, keymap |-> Keymap(keys, tr),
   modes |-> modes, wheel |-> wheel, burst |-> burst]

UsbButtons == Device({"usb"}, "mouse", {"k1", "k2"}, {"REPORT"}, {}, 2)
UsbWheel == Device({"usb"}, "mouse", {"k1"}, {"REPORT"}, {1}, 2)
BleMouse == Device({"ble"}, "mouse", {"k1"}, Modes, {1}, 2)
UsbBleMouse == Device({"usb", "ble"}, "mouse", {"k1"}, {"REPORT"}, {}, 1)
Keyboard == Device({"ble"}, "keyboard", {"k1", "k2"}, Modes, {}, 1)

AllDevices == {UsbButtons, UsbWheel, BleMouse, UsbBleMouse, Keyboard}
=============================================================================
