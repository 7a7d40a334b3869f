----------------------------- MODULE Playlists -----------------------------
(***************************************************************************)
(* The playlist API of api/playlist.h and api/playlist_loader.h with       *)
(* several clients.  A call is fixed when its client sends it, and carried *)
(* out at one later instant: that is what RpcCall is shown to implement.   *)
(* In between other clients may create, remove and reorder playlists, and  *)
(* an index a client sends may by then denote another one.                 *)
(*                                                                         *)
(* Indices are those of the code and begin with 0.  playlist_manager       *)
(* belongs to foobar2000; what is said of it here is what the API          *)
(* functions and the tests rely on.  The "at" of a call is the playlist    *)
(* parameter of playlist_X, or ActivePlaylist for activeplaylist_X.        *)
(***************************************************************************)
EXTENDS Naturals, SequencesExt

CONSTANTS Clients,
          Calls,           \* the calls clients may send, as records
          Characters,      \* of names, without the one that ends a C string
          Names,           \* the names foobar2000 gives to playlists
          Tracks,
          Infinite,        \* pfc_infinite, the greatest t_size
          ActivePlaylist,  \* stands for the playlist parameter in "at"
          None,
          MaxPlaylists,    \* bound: playlist_manager refuses more playlists,
          MaxItems         \* and more items in one of them

ASSUME PlaylistsAssumption ==
  /\ Infinite \in Nat /\ MaxPlaylists \in Nat \ {0} /\ MaxItems \in Nat
  /\ Infinite > MaxPlaylists + MaxItems
  /\ None \notin Calls /\ ActivePlaylist \notin Nat
  /\ Names \subseteq Seq(Characters)

\* The methods about the items of a playlist
ItemMethods == {"playlist_insert_items", "playlist_insert_items_filter",
                "playlist_get_focus_item_handle", "playlist_remove_items",
                "playlist_replace_item", "playlist_reorder_items", "playlist_clear",
                "playlist_get_item_count", "playlist_get_all_items",
                "playlist_get_items", "playlist_get_item_handle"}

Indices == 0..Infinite  \* the values of a t_size

Orders == {o \in Seq(Nat) : /\ \A k \in 1..Len(o) : o[k] < Len(o)
                            /\ \A p \in 0..Len(o) - 1 : \E k \in 1..Len(o) : o[k] = p}

\* What clients send.  The types are those of the C++ functions; two things
\* are asked of the clients besides: an order is a permutation, and a list of
\* files for a new playlist fits in one.
ASSUME CallsAssumption ==
  \A r \in Calls :
    /\ r.method \in {"create_playlist", "find_playlist", "find_or_create_playlist",
                     "load_playlist", "playlist_rename"} => r.name \in Seq(Characters)
    /\ r.method \in {"create_playlist", "find_playlist", "find_or_create_playlist",
                     "playlist_rename"} => r.length \in Indices
    /\ r.method \in {"create_playlist", "load_playlist"} => Len(r.files) <= MaxItems
    /\ r.method \in {"create_playlist", "load_playlist", "playlist_insert_items",
                     "playlist_insert_items_filter"} => r.files \in Seq(Tracks)
    /\ r.method \in {"set_active_playlist", "create_playlist", "remove_playlist",
                     "create_playlist_autoname", "remove_playlist_switch"} =>
         r.index \in Indices
    /\ r.method \in ItemMethods \cup {"playlist_rename", "playlist_get_name"} =>
         r.at \in Indices \cup {ActivePlaylist}
    /\ r.method = "playlist_insert_items_filter" => r.at \in Indices
    /\ r.method \in {"playlist_insert_items", "playlist_insert_items_filter"} =>
         r.base \in Indices
    /\ r.method = "playlist_replace_item" => r.origin \in Indices /\ r.replacee \in Indices
    /\ r.method = "playlist_get_item_handle" => r.item \in Indices
    /\ r.method \in {"remove_playlists", "playlist_remove_items", "playlist_get_items"} =>
         r.mask \in Seq(Indices)
    /\ r.method \in {"reorder", "playlist_reorder_items"} => r.order \in Orders

VARIABLES playlists,  \* sequence of names and items
          active,     \* index of the active playlist, or Infinite
          call,       \* what each client waits for, or None
          result      \* the answer of the call carried out last, or None

vars == <<playlists, active, call, result>>

Init == /\ \E n \in Names : playlists = <<[name |-> n, items |-> <<>>]>>
        /\ active = 0
        /\ call = [c \in Clients |-> None]
        /\ result = None

-----------------------------------------------------------------------------
\* playlist_manager

Count == Len(playlists)

Smaller(m, n) == IF m <= n THEN m ELSE n

\* A name is passed as a C string and a length: it has no more characters than
\* the length says, nor than there are before the string ends.
Given(name, length) == SubSeq(name, 1, Smaller(length, Len(name)))

NoName == <<>>

\* Sequence s with t put in behind its first n entries
Spliced(s, n, t) == SubSeq(s, 1, n) \o t \o SubSeq(s, n + 1, Len(s))

\* The element of a set of numbers that has n - 1 smaller ones in it
Nth(S, n) == CHOOSE k \in S : Cardinality({j \in S : j < k}) = n - 1

\* The entries whose index is in a bit table, in their order
Marked(s, table) ==
  LET kept == {k \in DOMAIN s : k - 1 \in table}
  IN  [n \in 1..Cardinality(kept) |-> s[Nth(kept, n)]]

Unmarked(s, table) == Marked(s, {k - 1 : k \in DOMAIN s} \ table)

Items(p) == IF p < Count THEN playlists[p + 1].items ELSE <<>>

SetItems(p, items) ==
  playlists' = IF p < Count THEN [playlists EXCEPT ![p + 1].items = items]
               ELSE playlists

\* create_playlist puts a playlist at index p, or at the end.
Place(p) == Smaller(p, Count)

Create(name, p, items) ==
  /\ Count < MaxPlaylists
  /\ playlists' = Spliced(playlists, Place(p), <<[name |-> name, items |-> items]>>)
  /\ active' = IF active # Infinite /\ active >= Place(p) THEN active + 1 ELSE active

\* set_active_playlist takes the index of a playlist, or Infinite for none.
Activated(p) == IF p < Count \/ p = Infinite THEN p ELSE active

\* The index of the first playlist of that name
Find(name) == LET found == {k \in DOMAIN playlists : playlists[k].name = name}
              IN  IF found = {} THEN Infinite
                  ELSE CHOOSE p \in {k - 1 : k \in found} :
                         \A k \in found : p <= k - 1

RemoveMarked(table) ==
  /\ playlists' = Unmarked(playlists, table)
  /\ active' = IF active = Infinite \/ active \in table THEN Infinite
               ELSE active - Cardinality({p \in table : p < active})

\* playlist_enum_items calls on_item for what the bit table marks.
EnumItems(p, table) ==
  LET items == Items(p)
  IN  Marked([k \in DOMAIN items |-> [index |-> k - 1, path |-> items[k]]], table)

AllItems == 0..MaxItems

\* order[k] is the index an entry had that comes to place k.
Reordered(s, order) == [k \in DOMAIN s |-> s[order[k] + 1]]

-----------------------------------------------------------------------------
\* The clients: one call at a time, which may name any index.

Invoke(c, r) == /\ call[c] = None
                /\ call' = [call EXCEPT ![c] = r]
                /\ result' = None
                /\ UNCHANGED <<playlists, active>>

\* The main thread begins the lambda of client c, which calls method m.
Begun(c, m) == call[c] # None /\ call[c].method = m

\* event.set(), or result.setResult(value): the call is answered.
Answer(c, value) == /\ result' = value
                    /\ call' = [call EXCEPT ![c] = None]

\* Mutant: activeplaylist_X goes to the playlist that was active at first.
ResolveFirst(at) == IF at = ActivePlaylist THEN 0 ELSE at

\* activeplaylist_X asks for the active playlist in the lambda that then
\* calls playlist_X with it.
Resolve(at) == IF at = ActivePlaylist THEN active ELSE at

-----------------------------------------------------------------------------
\* Playlists

GetActivePlaylist(c) == /\ Begun(c, "get_active_playlist")
                        /\ Answer(c, active)
                        /\ UNCHANGED <<playlists, active>>

SetActivePlaylist(c) == /\ Begun(c, "set_active_playlist")
                        /\ active' = Activated(call[c].index)
                        /\ Answer(c, TRUE)
                        /\ UNCHANGED playlists

\* Mutant: the length and the index are exchanged.
CreatePlaylistSwapped(c) ==
  /\ Begun(c, "create_playlist")
  /\ \/ /\ Create(Given(call[c].name, call[c].index), call[c].length, call[c].files)
        /\ Answer(c, Place(call[c].length))
     \/ /\ Count >= MaxPlaylists
        /\ Answer(c, Infinite)
        /\ UNCHANGED <<playlists, active>>

\* create_playlist, and create_playlist_ex with the files it is to contain
CreatePlaylist(c) ==
  /\ Begun(c, "create_playlist")
  /\ \/ /\ Create(Given(call[c].name, call[c].length), call[c].index, call[c].files)
        /\ Answer(c, Place(call[c].index))
     \/ /\ Count >= MaxPlaylists
        /\ Answer(c, Infinite)
        /\ UNCHANGED <<playlists, active>>

\* create_playlist_autoname: foobar2000 chooses the name.
CreatePlaylistAutoname(c) ==
  /\ Begun(c, "create_playlist_autoname")
  /\ \/ /\ \E name \in Names : Create(name, call[c].index, <<>>)
        /\ Answer(c, Place(call[c].index))
     \/ /\ Count >= MaxPlaylists
        /\ Answer(c, Infinite)
        /\ UNCHANGED <<playlists, active>>

GetPlaylistCount(c) == /\ Begun(c, "get_playlist_count")
                       /\ Answer(c, Count)
                       /\ UNCHANGED <<playlists, active>>

FindPlaylist(c) == /\ Begun(c, "find_playlist")
                   /\ Answer(c, Find(Given(call[c].name, call[c].length)))
                   /\ UNCHANGED <<playlists, active>>

FindOrCreatePlaylist(c) ==
  LET name == Given(call[c].name, call[c].length) IN
  /\ Begun(c, "find_or_create_playlist")
  /\ \/ /\ Find(name) = Infinite
        /\ Create(name, Infinite, <<>>)
        /\ Answer(c, Count)
     \/ /\ Find(name) # Infinite \/ Count >= MaxPlaylists
        /\ Answer(c, Find(name))
        /\ UNCHANGED <<playlists, active>>

RemovePlaylist(c) ==
  /\ Begun(c, "remove_playlist")
  /\ \/ call[c].index < Count /\ RemoveMarked({call[c].index})
     \/ call[c].index >= Count /\ UNCHANGED <<playlists, active>>
  /\ Answer(c, call[c].index < Count)

\* remove_playlist_switch: when the active playlist goes, another one becomes
\* active, if there is any.
RemovePlaylistSwitch(c) ==
  LET p == call[c].index IN
  /\ Begun(c, "remove_playlist_switch")
  /\ \/ /\ p < Count /\ (p # active \/ Count = 1)
        /\ RemoveMarked({p})
     \/ /\ p < Count /\ p = active
        /\ playlists' = Unmarked(playlists, {p})
        /\ active' \in 0..Count - 2
     \/ p >= Count /\ UNCHANGED <<playlists, active>>
  /\ Answer(c, p < Count)

RemovePlaylists(c) == /\ Begun(c, "remove_playlists")
                      /\ RemoveMarked(ToSet(call[c].mask) \cap 0..MaxPlaylists)
                      /\ Answer(c, TRUE)

\* Clients send permutations; one of another length than there are playlists
\* is refused.
Reorder(c) ==
  LET order == call[c].order IN
  /\ Begun(c, "reorder")
  /\ Answer(c, Len(order) = Count)
  /\ \/ /\ Len(order) = Count
        /\ playlists' = Reordered(playlists, order)
        /\ active' = IF active = Infinite THEN Infinite
                     ELSE CHOOSE p \in 0..Count - 1 : order[p + 1] = active
     \/ /\ Len(order) # Count
        /\ UNCHANGED <<playlists, active>>

\* Mutant: the playlist is created before its file is read.
LoadPlaylistCreatingFirst(c) ==
  /\ Begun(c, "load_playlist")
  /\ \/ \E loaded \in {call[c].files, <<>>} :
          Create(call[c].name, Infinite, loaded) /\ result' = TRUE
     \/ Create(call[c].name, Infinite, <<>>) /\ result' = FALSE
     \/ result' = FALSE /\ UNCHANGED <<playlists, active>>
  /\ call' = [call EXCEPT ![c] = None]

\* PlaylistLoader::load_playlist: g_try_load_playlist adds the entries of the
\* file, or none when it does not know the format, which is not looked at; or
\* it throws, and no playlist is created.
LoadPlaylist(c) ==
  /\ Begun(c, "load_playlist")
  /\ \/ /\ \E loaded \in {call[c].files, <<>>} : Create(call[c].name, Infinite, loaded)
        /\ Answer(c, TRUE)
     \/ /\ Count >= MaxPlaylists
        /\ Answer(c, TRUE)
        /\ UNCHANGED <<playlists, active>>
     \/ /\ Answer(c, FALSE)
        /\ UNCHANGED <<playlists, active>>

-----------------------------------------------------------------------------
\* Each from here on is playlist_X and activeplaylist_X, except that there is
\* no activeplaylist_insert_items_filter.

Rename(c) ==
  LET p    == Resolve(call[c].at)
      name == Given(call[c].name, call[c].length)
  IN
  /\ Begun(c, "playlist_rename")
  /\ playlists' = IF p < Count THEN [playlists EXCEPT ![p + 1].name = name]
                  ELSE playlists
  /\ Answer(c, p < Count)
  /\ UNCHANGED active

\* The string the name was to be put into is the answer, also when
\* playlist_manager says that there is no such playlist.
GetName(c) ==
  LET p == Resolve(call[c].at) IN
  /\ Begun(c, "playlist_get_name")
  /\ Answer(c, IF p < Count THEN playlists[p + 1].name ELSE NoName)
  /\ UNCHANGED <<playlists, active>>

-----------------------------------------------------------------------------
\* Items

Fit(p, files) == p < Count /\ Len(Items(p)) + Len(files) <= MaxItems

PutItems(p, base, files) ==
  SetItems(p, Spliced(Items(p), Smaller(base, Len(Items(p))), files))

\* playlist_insert_items, and with the base Infinite playlist_add_items
InsertItems(c) ==
  LET p == Resolve(call[c].at) IN
  /\ Begun(c, "playlist_insert_items")
  /\ \/ /\ Fit(p, call[c].files)
        /\ PutItems(p, call[c].base, call[c].files)
        /\ Answer(c, Smaller(call[c].base, Len(Items(p))))
     \/ /\ ~Fit(p, call[c].files)
        /\ Answer(c, Infinite)
        /\ UNCHANGED playlists
  /\ UNCHANGED active

\* Mutant: after the filter has refused the files they are inserted all the same.
InsertItemsFilterNoReturn(c) ==
  LET p == call[c].at IN
  /\ Begun(c, "playlist_insert_items_filter")
  /\ PutItems(p, call[c].base, call[c].files)
  /\ Answer(c, FALSE)
  /\ UNCHANGED active

\* The files are shown to the filter of foobar2000, which may refuse them, or
\* leave some out (here the last ones).
InsertItemsFilter(c) ==
  LET p == call[c].at IN
  /\ Begun(c, "playlist_insert_items_filter")
  /\ \/ /\ \E k \in 0..Len(call[c].files) :
             LET kept == SubSeq(call[c].files, 1, k)
             IN  Fit(p, kept) /\ PutItems(p, call[c].base, kept)
        /\ Answer(c, TRUE)
     \/ /\ Answer(c, FALSE)
        /\ UNCHANGED playlists
  /\ UNCHANGED active

\* Mutant: the items are removed one by one, and those behind move up.
RemoveItemsOneByOne(c) ==
  LET p == Resolve(call[c].at) IN
  /\ Begun(c, "playlist_remove_items")
  /\ SetItems(p, FoldLeft(LAMBDA items, k : Unmarked(items, {k}), Items(p), call[c].mask))
  /\ Answer(c, p < Count)
  /\ UNCHANGED active

\* The indices are put into one bit table.
RemoveItems(c) ==
  LET p == Resolve(call[c].at) IN
  /\ Begun(c, "playlist_remove_items")
  /\ SetItems(p, Unmarked(Items(p), ToSet(call[c].mask)))
  /\ Answer(c, p < Count)
  /\ UNCHANGED active

\* The item at origin becomes the one at replacee; without one at replacee
\* there is no handle to replace it with.
ReplaceItem(c) ==
  LET p     == Resolve(call[c].at)
      items == Items(p)
      valid == call[c].origin < Len(items) /\ call[c].replacee < Len(items)
  IN
  /\ Begun(c, "playlist_replace_item")
  /\ SetItems(p, IF valid
                 THEN [items EXCEPT ![call[c].origin + 1] = items[call[c].replacee + 1]]
                 ELSE items)
  /\ Answer(c, valid)
  /\ UNCHANGED active

ReorderItems(c) ==
  LET p     == Resolve(call[c].at)
      valid == p < Count /\ Len(call[c].order) = Len(Items(p))
  IN
  /\ Begun(c, "playlist_reorder_items")
  /\ SetItems(p, IF valid THEN Reordered(Items(p), call[c].order) ELSE Items(p))
  /\ Answer(c, valid)
  /\ UNCHANGED active

Clear(c) == /\ Begun(c, "playlist_clear")
            /\ SetItems(Resolve(call[c].at), <<>>)
            /\ Answer(c, TRUE)
            /\ UNCHANGED active

GetItemCount(c) == /\ Begun(c, "playlist_get_item_count")
                   /\ Answer(c, Len(Items(Resolve(call[c].at))))
                   /\ UNCHANGED <<playlists, active>>

GetAllItems(c) == /\ Begun(c, "playlist_get_all_items")
                  /\ Answer(c, EnumItems(Resolve(call[c].at), AllItems))
                  /\ UNCHANGED <<playlists, active>>

\* bit_array_bittable has a fixed size, here that of the vector of indices:
\* an index that is not below it is not set.
BitTable(mask) == {k \in ToSet(mask) : k < Len(mask)}

GetItems(c) == /\ Begun(c, "playlist_get_items")
               /\ Answer(c, EnumItems(Resolve(call[c].at), BitTable(call[c].mask)))
               /\ UNCHANGED <<playlists, active>>

\* get_item_as_track: the item the enumeration ends with, or none
ItemAsTrack(item, p) == EnumItems(p, {item})

\* Mutant: the two indices are exchanged.
GetItemHandleSwapped(c) ==
  /\ Begun(c, "playlist_get_item_handle")
  /\ Answer(c, ItemAsTrack(Resolve(call[c].at), call[c].item))
  /\ UNCHANGED <<playlists, active>>

GetItemHandle(c) == /\ Begun(c, "playlist_get_item_handle")
                    /\ Answer(c, ItemAsTrack(call[c].item, Resolve(call[c].at)))
                    /\ UNCHANGED <<playlists, active>>

\* The focus item, Infinite when there is none, is the user's to change.
GetFocusItemHandle(c) ==
  LET p == Resolve(call[c].at) IN
  /\ Begun(c, "playlist_get_focus_item_handle")
  /\ \E item \in (0..Len(Items(p)) - 1) \cup {Infinite} : Answer(c, ItemAsTrack(item, p))
  /\ UNCHANGED <<playlists, active>>

-----------------------------------------------------------------------------
Manage(c) == \/ GetActivePlaylist(c) \/ SetActivePlaylist(c) \/ CreatePlaylist(c)
             \/ CreatePlaylistAutoname(c) \/ GetPlaylistCount(c)
             \/ RemovePlaylistSwitch(c) \/ Rename(c) \/ GetName(c)
             \/ FindPlaylist(c) \/ FindOrCreatePlaylist(c) \/ RemovePlaylist(c)
             \/ RemovePlaylists(c) \/ Reorder(c) \/ LoadPlaylist(c)

Edit(c) == \/ InsertItems(c) \/ InsertItemsFilter(c) \/ RemoveItems(c)
           \/ ReplaceItem(c) \/ ReorderItems(c) \/ Clear(c)

Look(c) == \/ GetItemCount(c) \/ GetAllItems(c) \/ GetItems(c)
           \/ GetItemHandle(c) \/ GetFocusItemHandle(c)

Next == \E c \in Clients : \/ \E r \in Calls : Invoke(c, r)
                           \/ Manage(c) \/ Edit(c) \/ Look(c)

Spec == Init /\ [][Next]_vars

-----------------------------------------------------------------------------
\* Client c has its answer to a call of method m in this step.
Returns(c, m) == call[c] # None /\ call'[c] = None /\ call[c].method = m

\* The playlist such a call is about: for activeplaylist_X the one that is
\* active at the instant of the call, whichever was when the client sent it.
Meant(c) == IF call[c].at = ActivePlaylist THEN active ELSE call[c].at

\* A call about items leaves every playlist but the one it is about as it was.
OtherPlaylistsKept ==
  [][\A c \in Clients, m \in ItemMethods : Returns(c, m) =>
       /\ Len(playlists') = Count
       /\ \A k \in 1..Count : k - 1 # Meant(c) => playlists'[k] = playlists[k]]_vars

\* Each Track of an answer is at its index in the playlist the call is about,
\* they come in order, and playlist_get_all_items has them all.
TracksAreThere ==
  [][\A c \in Clients, m \in {"playlist_get_all_items", "playlist_get_items",
                              "playlist_get_item_handle",
                              "playlist_get_focus_item_handle"} :
       Returns(c, m) =>
         LET items == Items(Meant(c)) IN
         /\ \A k \in DOMAIN result' :
              /\ result'[k].index < Len(items)
              /\ result'[k].path = items[result'[k].index + 1]
         /\ \A j, k \in DOMAIN result' : j < k => result'[j].index < result'[k].index
         /\ m = "playlist_get_all_items" => Len(result') = Len(items)
         /\ m = "playlist_get_item_handle" =>
              IF call[c].item < Len(items)
              THEN Len(result') = 1 /\ result'[1].index = call[c].item
              ELSE result' = <<>>]_vars

\* playlist_remove_items removes the items that had the indices of the call,
\* all counted before any is gone, and keeps the others in their order.
OnlyMarkedGo ==
  [][\A c \in Clients : Returns(c, "playlist_remove_items") /\ Meant(c) < Count =>
       LET old  == playlists[Meant(c) + 1].items
           new  == playlists'[Meant(c) + 1].items
           left == {k \in DOMAIN old :
                      \A j \in DOMAIN call[c].mask : call[c].mask[j] # k - 1}
       IN  \E f \in [DOMAIN new -> left] :
             /\ \A n \in DOMAIN new : new[n] = old[f[n]]
             /\ \A m, n \in DOMAIN new : m < n => f[m] < f[n]
             /\ \A k \in left : \E n \in DOMAIN new : f[n] = k]_vars

\* The index a client gets for a name denotes a playlist of that name, or of
\* as much of it as the length has; it is a new one if the call was to create
\* one.  The name a client gets for an index is that of the playlist, and an
\* empty one when there is none.
IndexDenotesName ==
  /\ [][\A c \in Clients, m \in {"create_playlist", "find_playlist",
                              "find_or_create_playlist"} :
          Returns(c, m) /\ (result' # Infinite \/ Len(playlists') # Count) =>
            /\ result' < Len(playlists')
            /\ LET name == playlists'[result' + 1].name IN
               /\ IsPrefix(name, call[c].name) /\ Len(name) <= call[c].length
               /\ name = call[c].name \/ Len(name) = call[c].length
            /\ m = "create_playlist" => RemoveAt(playlists', result' + 1) = playlists]_vars
  /\ [][\A c \in Clients : Returns(c, "playlist_get_name") =>
          \/ Meant(c) < Count /\ result' = playlists[Meant(c) + 1].name
          \/ Meant(c) >= Count /\ result' = NoName]_vars

\* A call that reports its failure has changed nothing.
FailureChangesNothing ==
  [][\A c \in Clients :
       \/ \E m \in {"remove_playlist", "remove_playlist_switch", "reorder",
                    "load_playlist", "playlist_rename", "playlist_insert_items_filter",
                    "playlist_remove_items", "playlist_replace_item",
                    "playlist_reorder_items"} : Returns(c, m) /\ ~result'
       \/ \E m \in {"create_playlist", "playlist_insert_items"} :
            Returns(c, m) /\ result' = Infinite
       => UNCHANGED <<playlists, active>>]_vars

\* docs/api.rst: playlist_get_items gets "the items specified by masks".  The
\* answer has every item of the playlist whose index the client gave.
AskedItemsReturned ==
  [][\A c \in Clients : Returns(c, "playlist_get_items") =>
       \A j \in DOMAIN call[c].mask :
         call[c].mask[j] < Len(Items(Meant(c))) =>
           \E k \in DOMAIN result' : result'[k].index = call[c].mask[j]]_vars
=============================================================================
