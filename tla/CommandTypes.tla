---------------------------- MODULE CommandTypes ----------------------------
(***************************************************************************)
(* The message types of Common.h that a client sends.                      *)
(***************************************************************************)
COMMANDTYPE_LOGIN_REQ             == 1
COMMANDTYPE_SHOW_INBOX_REQ        == 2
COMMANDTYPE_GET_MAIL_REQ          == 4
COMMANDTYPE_DELETE_MAIL_REQ       == 6
COMMANDTYPE_COMPOSE_REQ           == 7
COMMANDTYPE_QUIT_REQ              == 10
COMMANDTYPE_SHOW_ONLINE_USERS_REQ == 11
COMMANDTYPE_SEND_CHAT_MESSAGE_REQ == 13
=============================================================================
