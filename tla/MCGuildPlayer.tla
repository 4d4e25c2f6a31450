--------------------------- MODULE MCGuildPlayer ---------------------------
(* GuildPlayer for TLC: the tracks are model values named in the cfg.      *)
EXTENDS GuildPlayer
=============================================================================
