----------------------------- MODULE HlsPresets -----------------------------
(***************************************************************************)
(* Which renditions a source is encoded to (presets.py).  Bitrates are in  *)
(* thousands of bits per second; the headroom of 1.25 is written 5/4.      *)
(***************************************************************************)
EXTENDS Integers

CONSTANT Unknown   \* a bitrate that the probe did not find

ASSUME PresetAssumption == Unknown \notin Int

Resolution == {"1080p", "720p", "480p", "360p", "240p", "144p"}
Fallback   == "144p"

Preset(w, h, b) == [width |-> w, height |-> h, bitrate |-> b]

HlsPreset ==
    [r \in Resolution |->
        CASE r = "1080p" -> Preset(1920, 1080, 5000)
          [] r = "720p"  -> Preset(1280, 720, 2800)
          [] r = "480p"  -> Preset(854, 480, 1200)
          [] r = "360p"  -> Preset(640, 360, 800)
          [] r = "240p"  -> Preset(426, 240, 400)
          [] r = "144p"  -> Preset(256, 144, 150)]

Source == [width : Int, height : Int, bitrate : Int \cup {Unknown}]

\* is_hls_preset_applicable.
Applicable(r, source) ==
    \/ r = Fallback
    \/ /\ HlsPreset[r].width <= source.width /\ HlsPreset[r].height <= source.height
       /\ source.bitrate # Unknown => 4 * HlsPreset[r].bitrate <= 5 * source.bitrate
=============================================================================
