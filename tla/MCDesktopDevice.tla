--------------------------- MODULE MCDesktopDevice ---------------------------
(***************************************************************************)
(* Devices for the model checker: each has a part of the modules, as a     *)
(* build of nRF Desktop has, so that those that matter to each other are   *)
(* together; one with "usb" has a USB connector.                           *)
(***************************************************************************)
EXTENDS DesktopDevice

CONSTANTS p1, p2   \* Bluetooth peers

Device(mods, fast, swift, direct, fault, peers, stimuli) ==
  [mods |-> mods \cup {"pm", "board"}, fast |-> fast, swift |-> swift, direct |-> direct,
   fault |-> fault, peers |-> peers, stimuli |-> stimuli]

MCDevices ==
  {Device({"usb", "optical", "adv", "hid", "config", "bond"}, TRUE, FALSE, FALSE, "none", {p1}, 3),
   Device({"usb", "optical", "wheel"}, TRUE, FALSE, FALSE, "optical", {}, 3),
   Device({"usb", "buttons", "wheel"}, TRUE, FALSE, FALSE, "none", {}, 4),
   Device({"usb", "buttons", "battery"}, TRUE, FALSE, FALSE, "none", {}, 2),
   Device({"usb", "buttons"}, TRUE, FALSE, FALSE, "buttons", {}, 3),
   Device({"usb", "wheel", "simulated"}, TRUE, FALSE, FALSE, "wheel", {}, 4),
   Device({"usb", "battery", "leds", "led_state"}, TRUE, FALSE, FALSE, "battery", {}, 1),
   Device({"usb", "buttons", "bond", "adv", "led_state", "config"}, TRUE, TRUE, FALSE, "none", {p1}, 3),
   Device({"buttons", "bond", "adv", "config"}, FALSE, FALSE, FALSE, "none", {p1}, 4),
   Device({"usb", "buttons", "bond", "adv", "leds", "led_state", "config"}, FALSE, FALSE, FALSE,
          "none", {p1}, 2),
   Device({"buttons", "bond", "leds", "led_state", "config"}, FALSE, FALSE, FALSE, "none", {}, 3),
   Device({"usb", "adv", "bond", "config", "leds", "led_state"}, TRUE, FALSE, TRUE, "none", {p1}, 3),
   Device({"usb", "adv", "bond", "config"}, FALSE, FALSE, FALSE, "adv", {p1}, 3),
   Device({"usb", "adv", "bond", "config"}, TRUE, FALSE, FALSE, "none", {p1, p2}, 3),
   Device({"usb", "mbuttons", "battery", "bas", "adv", "bond", "config"}, FALSE, FALSE, FALSE,
          "none", {p1}, 1)}

=============================================================================
