------------------------------ MODULE MCSerial ------------------------------
(***************************************************************************)
(* What a leader does on the serial port of a board: the image it flashes  *)
(* (AppImage), the flash protocol (EspFlash), monitor sessions             *)
(* (MonitorStream) and snapshots (SnapSession). They share no variable, so *)
(* one run explores each from its own initial states: "part" says which,   *)
(* and the others rest in states where no fair action is enabled.          *)
(***************************************************************************)
EXTENDS AppImage, EspFlash, MonitorStream, SnapSession

VARIABLE part

serialVars == <<part, imgVars, espVars, monVars, snapVars>>

EspRests ==
  EspStart("done", "failed") /\ task.call = "images" /\ task.skip /\ task.rom /\ task.reopens
    /\ content = [p \in Parts |-> {}]

ImgRests ==
  /\ file = [sections |-> <<>>, descriptor |-> 0]
  /\ elf = <<>> /\ toFlash = <<>> /\ ram = <<>> /\ image = <<>>
  /\ built = FALSE /\ written = Header

Init ==
  /\ part \in {"image", "esp", "monitor", "snap"}
  /\ IF part = "image" THEN ImgInit ELSE ImgRests
  /\ IF part = "esp" THEN EspInit ELSE EspRests
  /\ MonInit
  /\ SnapInit /\ (part # "snap" => device.at = 0)

Next ==
  /\ UNCHANGED part
  /\ \/ part = "image" /\ ImgNext /\ UNCHANGED <<espVars, monVars, snapVars>>
     \/ part = "esp" /\ EspNext /\ UNCHANGED <<imgVars, monVars, snapVars>>
     \/ part = "monitor" /\ MonNext /\ UNCHANGED <<imgVars, espVars, snapVars>>
     \/ part = "snap" /\ SnapNext /\ UNCHANGED <<imgVars, espVars, monVars>>

Spec == Init /\ [][Next]_serialVars /\ EspFairness /\ MonFairness /\ SnapFairness

\* The type invariants of the parts.
SerialTypeOK == ImgTypeOK /\ EspTypeOK /\ MonTypeOK /\ SnapTypeOK
=============================================================================
