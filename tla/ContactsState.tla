--------------------------- MODULE ContactsState ---------------------------
(***************************************************************************)
(* The states of a contact (TTContactsState) and the transition that each  *)
(* operation of TTContactsHandler makes on the state of one contact.  An   *)
(* operation that TTContactsHandler refuses for a state (its switch falls  *)
(* to the default branch and returns false) has that state outside its     *)
(* "...able" set.                                                          *)
(***************************************************************************)

State ==
    {"ACTIVE", "INACTIVE", "SELECTED_ACTIVE", "SELECTED_INACTIVE",
     "UNREAD_MSG_ACTIVE", "UNREAD_MSG_INACTIVE",
     "PENDING_MSG_INACTIVE", "SELECTED_PENDING_MSG_INACTIVE"}

IsActive(s) == s \in {"ACTIVE", "SELECTED_ACTIVE", "UNREAD_MSG_ACTIVE"}

IsSelected(s) ==
    s \in {"SELECTED_ACTIVE", "SELECTED_INACTIVE",
           "SELECTED_PENDING_MSG_INACTIVE"}

\* send(id): only the selected contact can be written to.
Sendable == {s \in State : IsSelected(s)}

OnSend(s) ==
    CASE s = "SELECTED_INACTIVE" -> "SELECTED_PENDING_MSG_INACTIVE"
      [] OTHER -> s

\* receive(id): a contact believed inactive cannot have sent a message.
Receivable == {s \in State : IsActive(s)}

OnReceive(s) ==
    CASE s = "ACTIVE" -> "UNREAD_MSG_ACTIVE"
      [] OTHER -> s

OnActivate(s) ==
    CASE s = "INACTIVE" -> "ACTIVE"
      [] s = "SELECTED_INACTIVE" -> "SELECTED_ACTIVE"
      [] s = "UNREAD_MSG_INACTIVE" -> "UNREAD_MSG_ACTIVE"
      [] s = "PENDING_MSG_INACTIVE" -> "ACTIVE"
      [] s = "SELECTED_PENDING_MSG_INACTIVE" -> "SELECTED_ACTIVE"
      [] OTHER -> s

\* A lost unread mark: deactivation forgets that messages are unread.
OnDeactivateForgetsUnread(s) ==
    CASE s \in {"ACTIVE", "UNREAD_MSG_ACTIVE"} -> "INACTIVE"
      [] s = "SELECTED_ACTIVE" -> "SELECTED_INACTIVE"
      [] OTHER -> s

OnDeactivate(s) ==
    CASE s = "ACTIVE" -> "INACTIVE"
      [] s = "SELECTED_ACTIVE" -> "SELECTED_INACTIVE"
      [] s = "UNREAD_MSG_ACTIVE" -> "UNREAD_MSG_INACTIVE"
      [] OTHER -> s

\* The first switch of select(id), on the contact selected so far.
OnUnselect(s) ==
    CASE s = "SELECTED_ACTIVE" -> "ACTIVE"
      [] s = "SELECTED_INACTIVE" -> "INACTIVE"
      [] s = "SELECTED_PENDING_MSG_INACTIVE" -> "PENDING_MSG_INACTIVE"
      [] OTHER -> s

\* The second switch of select(id), on the contact to be selected.
Selectable == {s \in State : ~IsSelected(s)}

OnSelect(s) ==
    CASE s \in {"ACTIVE", "UNREAD_MSG_ACTIVE"} -> "SELECTED_ACTIVE"
      [] s \in {"INACTIVE", "UNREAD_MSG_INACTIVE"} -> "SELECTED_INACTIVE"
      [] s = "PENDING_MSG_INACTIVE" -> "SELECTED_PENDING_MSG_INACTIVE"
      [] OTHER -> s

=============================================================================
