-------------------------------- MODULE UsbMC --------------------------------
(* Three device nodes, of which with usbfs two are on one bus. *)
EXTENDS Usb

MCNode == 1 .. 3
MCBus == {1, 2}
MCBusOf == <<1, 1, 2>>
=============================================================================
