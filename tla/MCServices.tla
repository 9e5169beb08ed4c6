----------------------------- MODULE MCServices -----------------------------
(***************************************************************************)
(* The client's services in one run: the download and install of the        *)
(* program, the system's slots, the guard of what was installed, and the    *)
(* voice session.  They share no variable: in a behaviour one part runs and *)
(* the others stay where they start, as in MCDevices.                      *)
(***************************************************************************)
EXTENDS OtaDownload, SystemSlots, MCBootGuard, Voice

CONSTANTS b1, b2

(* Two builds of two chunks each, so that chunks of one request can take the *)
(* place of chunks of the other.                                            *)
MCChunks == [b \in {b1, b2} |-> 2]

(* "Buy three bottles of cola", "12 bottles of water, please", "help",        *)
(* "recharge fifty yuan", "good-bye".                                       *)
MCUtterances ==
  {<<"mai", "san", "ping", "ke", "le">>, <<"lai", "12", "ge", "shui">>, <<"bang", "zhu">>,
   <<"chong", "zhi", "wu", "shi", "kuai">>, <<"zai", "jian">>}

VARIABLE part     (* the part that runs *)

ServicesInit ==
  /\ part \in {"download", "slots", "guard", "voice"}
  /\ Init /\ SlotsInit /\ GuardInit /\ VoiceInit

ServicesNext ==
  /\ UNCHANGED part
  /\ \/ part = "download" /\ Next /\ UNCHANGED <<slotVars, guardVars, voiceVars>>
     \/ part = "slots" /\ SlotsNext /\ UNCHANGED <<vars, guardVars, voiceVars>>
     \/ part = "guard" /\ GuardNext /\ UNCHANGED <<vars, slotVars, voiceVars>>
     \/ part = "voice" /\ VoiceNext /\ UNCHANGED <<vars, slotVars, guardVars>>

(* The fairness of FairSpec, FairSlotsSpec, FairGuardSpec and VoiceSpec, for   *)
(* the part that runs.                                                      *)
ServicesSpec ==
  /\ ServicesInit /\ [][ServicesNext]_<<part, vars, slotVars, guardVars, voiceVars>>
  /\ WF_vars(part = "download" /\ ClientStep)
  /\ WF_vars(part = "download" /\ ServerChunk)
  /\ WF_slotVars(part = "slots" /\ InstallEnds)
  /\ WF_slotVars(part = "slots" /\ ConfirmTimer)
  /\ WF_slotVars(part = "slots" /\ SetEnv)
  /\ WF_slotVars(part = "slots" /\ ProcessStart)
  /\ WF_slotVars(part = "slots" /\ ProcessQuit)
  /\ WF_slotVars(part = "slots" /\ UBoot)
  /\ WF_slotVars(part = "slots" /\ Reset /\ image[bootedSlot] # "good")
  /\ WF_guardVars(part = "guard" /\ Fail)
  /\ WF_guardVars(part = "guard" /\ Restart)
  /\ WF_guardVars(part = "guard" /\ QuitAfterUpdate)
  /\ WF_voiceVars(part = "voice" /\ abortVoiceSession)
  /\ WF_voiceVars(part = "voice" /\ SendShot)
=============================================================================
