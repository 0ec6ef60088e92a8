---------------------------------- MODULE MCMixer ----------------------------------
(***************************************************************************)
(* Values of the constants of Mixer for TLC.                                *)
(***************************************************************************)
EXTENDS Mixer, TLC

NoFormat == {}
Pal  == [system |-> "625/50", frame_aspect |-> "normal", sample_rate |-> "48k"]
Ntsc == [system |-> "525/60", frame_aspect |-> "wide", sample_rate |-> "48k"]
AutoFormat == [system |-> NULL, frame_aspect |-> Automatic, sample_rate |-> Automatic]

OneSystem  == {Pal}
TwoSystems == {Pal, Ntsc}
Presets    == {Ntsc, AutoFormat}

NoMix      == {}
OtherMixes == {Simple(2), Fade(2, 1)}
Inset      == {PicInPic(2, 1)}

SourceSymmetry == Permutations(Source)
=================================================================================
