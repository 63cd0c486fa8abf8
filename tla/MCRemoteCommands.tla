-------------------------- MODULE MCRemoteCommands --------------------------
(* What the panel asks for: a photo, a recording, and two commands of each   *)
(* kind that meets itself on the phone.                                      *)
EXTENDS RemoteCommands

MCAsked == {<<"take_photo">>, <<"record_audio">>, <<"get_location", "get_location">>,
            <<"restore_data", "restore_data">>}
=============================================================================
