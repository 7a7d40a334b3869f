---------------------------- MODULE MCPlaylists ----------------------------
(***************************************************************************)
(* Two clients, at most two playlists with two items each.  Indices go one *)
(* past the last playlist and the last item.                               *)
(***************************************************************************)
EXTENDS Playlists, TLC

CONSTANTS a, b, t1, t2

Short   == <<a>>
Long    == <<a, b>>
MCNames == {Short, Long}

Targets == {ActivePlaylist, 0, 1}
Masks   == {<<1>>, <<0, 1>>}
Swap    == <<1, 0>>

Named(m)    == [method : {m}, name : {Long}, length : {1, Infinite}]
About(m)    == [method : {m}, at : {ActivePlaylist, 1}]

MCCalls ==
  [method : {"get_active_playlist"}]
    \cup [method : {"set_active_playlist"}, index : {0, 1, Infinite}]
    \cup [method : {"create_playlist"}, name : {Long}, length : {1}, index : {0, Infinite},
          files : {<<t1>>}]
    \cup Named("find_playlist") \cup Named("find_or_create_playlist")
    \cup [method : {"remove_playlist"}, index : {0, 1}]
    \cup [method : {"remove_playlists"}, mask : {<<0, 1>>}]
    \cup [method : {"reorder"}, order : {Swap}]
    \cup [method : {"load_playlist"}, name : {Short}, files : {<<t2>>}]
    \cup [method : {"playlist_insert_items"}, at : Targets, base : {0, Infinite},
          files : {<<t2>>}]
    \cup [method : {"playlist_insert_items_filter"}, at : {0}, base : {0},
          files : {<<t2>>}]
    \cup [method : {"create_playlist_autoname"}, index : {0}]
    \cup [method : {"get_playlist_count"}]
    \cup [method : {"remove_playlist_switch"}, index : {0, 1}]
    \cup [method : {"playlist_rename"}, at : {ActivePlaylist, 1}, name : {Long},
          length : {2}]
    \cup About("playlist_get_name")
    \cup [method : {"playlist_get_focus_item_handle"}, at : {1}]
    \cup [method : {"playlist_remove_items"}, at : Targets, mask : Masks]
    \cup [method : {"playlist_get_items"}, at : {ActivePlaylist, 1}, mask : Masks]
    \cup [method : {"playlist_replace_item"}, at : {ActivePlaylist, 1}, origin : {0}, replacee : {1}]
    \cup [method : {"playlist_reorder_items"}, at : {ActivePlaylist, 1}, order : {Swap}]
    \cup About("playlist_clear") \cup About("playlist_get_item_count")
    \cup About("playlist_get_all_items")
    \cup [method : {"playlist_get_item_handle"}, at : {ActivePlaylist, 1}, item : {0, 1}]

ClientSymmetry == Permutations(Clients)
=============================================================================
