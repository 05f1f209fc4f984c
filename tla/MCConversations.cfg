SPECIFICATION ConversationsSpec
CONSTANTS
  phone = phone  laptop = laptop  tablet = tablet  ann = ann  bob = bob  cyd = cyd
  Clients = {phone, laptop, tablet}  Users = {ann, bob}  UserOf <- MCUserOf
  Bridges = {"chat"}  MaxEvents = 2  UnregisterCap = 1
  o1 = o1  o2 = o2  o3 = o3  m1 = m1  m2 = m2  m3 = m3  m4 = m4
  n1 = n1  n2 = n2  n3 = n3  n4 = n4  n5 = n5  n6 = n6  n7 = n7  n8 = n8  n9 = n9  p1 = p1  p2 = p2  p3 = p3  p4 = p4
  Chatters = {ann, bob, cyd}  ChatRooms = {o1, o2, o3}  MembersOfFirst <- MCMembersOfFirst
  ChatCalls = {m1, m2, m3, m4, n1, n2, n3, n4, n5, n6, n7, n8, n9, p1, p2, p3, p4}  ChatCall <- MCChatCall
  PageSize = 1  MaxChats = 3
  v1 = v1  v2 = v2  send1 = send1  edit1 = edit1  delete1 = delete1  change1 = change1  other1 = other1
  send2 = send2  None = None  Blank = Blank
  Messages = {v1}  Tasks = {send1, edit1, delete1, change1}
  Kind <- MCKind  MessageOf <- MCMessageOf  Own <- MCOwn  Faults <- AllFaults
INVARIANTS OpenIsRegistered InOrder PagesAreComplete NothingAhead OneEvent
PROPERTIES OpenIsServed LeftIsForgotten SilentOnceClosed EventDespiteMirror
