----------------------------- MODULE MCKioskBox ------------------------------
(* KioskBox: every reachable state, with answers of one command of each    *)
(* kind, two requests behind each other, and a command behind a reboot.    *)
EXTENDS KioskBox

MCAnswers ==
    {<<"reset_access">>, <<"set_display_mode">>, <<"restart_kiosk">>,
     <<"set_display_mode", "reset_access">>, <<"reboot", "other">>}
=============================================================================
