------------------------------ MODULE MCSettings ------------------------------
(* An instance of the settings for TLC: a detector, a Mini and a simulator; *)
(* any of the calls that set something up may fail.                         *)
EXTENDS XspressSettings

AnyCall == {"clocks_setup", "close", "config", "format_run",
            "getDeadtimeCorrectionParameters", "get_good_thres", "get_window",
            "restore_settings", "save_settings", "set_glob_timeA",
            "set_good_thres", "set_run_flags", "set_window", "get_trigger_b"}

Careful == {"ConnectWhenDisconnected", "ChannelsWhenDisconnected",
            "ImagesWhenConnected", "ConfigCoversDriver"}

InFile      == <<0, 3>>
NeverSet    == <<7, 1>>
LastWindow  == {<<1, 1>>}
=============================================================================
